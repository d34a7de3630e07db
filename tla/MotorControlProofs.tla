---- MODULE MotorControlProofs ----
(***************************************************************************)
(* Proofs about a slave's motor, for every set of speeds, counts and       *)
(* stalls: the controller never reads a half-stored target, get-speed's    *)
(* two bytes are those of samples, and the motor is driven against its     *)
(* error until the sum of the errors overflows the corrected speed.        *)
(***************************************************************************)
EXTENDS MotorControl, TLAPS

-----------------------------------------------------------------------------
(* Sixteen bits and their halves *)

LEMMA RpmRange ==
    ASSUME NEW rpm
    PROVE  rpm \in dc_rpm_t <=> rpm \in Int /\ -32768 <= rpm /\ rpm <= 32767
<1>1. INT16_MIN = -32768 /\ INT16_MAX = 32767
  BY DEF INT16_MIN, INT16_MAX
<1>2. INT16_MIN \in Int /\ INT16_MAX \in Int
  BY <1>1
<1>3. rpm \in dc_rpm_t <=> rpm \in Int /\ INT16_MIN <= rpm /\ rpm <= INT16_MAX
  BY <1>2 DEF dc_rpm_t
<1> QED
  BY <1>1, <1>3

LEMMA Wrap16Type == ASSUME NEW x \in Int PROVE Wrap16(x) \in dc_rpm_t
<1>1. Wrap16(x) \in Int /\ -32768 <= Wrap16(x) /\ Wrap16(x) <= 32767
  BY DEF Wrap16
<1> QED
  BY <1>1, RpmRange

LEMMA SplitType == ASSUME NEW rpm \in Int PROVE Split(rpm) \in [Halves -> 0 .. 255]
BY DEF Split, Low, High, Halves

\* Splitting a speed and joining the halves gives the speed back.
LEMMA JoinSplit == ASSUME NEW rpm \in dc_rpm_t PROVE Join(Split(rpm)) = rpm
<1>1. /\ Split(rpm).low = rpm % 256
      /\ Split(rpm).high = (rpm \div 256) % 256
  BY DEF Split, Low, High
<1>2. (rpm % 256) + 256 * ((rpm \div 256) % 256)
          = IF rpm >= 0 THEN rpm ELSE rpm + 65536
  BY RpmRange
<1>3. Wrap16(IF rpm >= 0 THEN rpm ELSE rpm + 65536) = rpm
  BY RpmRange DEF Wrap16
<1> QED
  BY <1>1, <1>2, <1>3 DEF Join, Rpm

LEMMA JoinType ==
    ASSUME NEW halves \in [Halves -> 0 .. 255] PROVE Join(halves) \in dc_rpm_t
<1>1. halves["low"] \in Int /\ halves["high"] \in Int
  BY DEF Halves
<1>2. PICK low \in Int, high \in Int : low = halves["low"] /\ high = halves["high"]
  BY <1>1
<1>3. Wrap16(low + 256 * high) \in dc_rpm_t
  BY Wrap16Type
<1> QED
  BY <1>2, <1>3 DEF Join, Rpm

LEMMA LimitedType ==
    ASSUME NEW rpm \in Int
    PROVE  compute_limited_speed(rpm) \in 0 .. DC_MOTOR_MAX_RPM_SPEED
BY DEF compute_limited_speed, DC_MOTOR_MAX_RPM_SPEED

\* A speed within the limit has no high half.
LEMMA LimitedHalves ==
    ASSUME NEW rpm \in 0 .. DC_MOTOR_MAX_RPM_SPEED
    PROVE  /\ Split(rpm) = [low |-> rpm, high |-> 0]
           /\ rpm \in dc_rpm_t
BY RpmRange DEF DC_MOTOR_MAX_RPM_SPEED, Split, Low, High

LEMMA JoinLow ==
    ASSUME NEW halves, halves.low \in 0 .. 255, halves.high = 0
    PROVE  Join(halves) = halves.low
BY DEF Join, Rpm, Wrap16

LEMMA CutType ==
    ASSUME NEW a \in Int, NEW b \in {15, 1500}
    PROVE  Cut(a, b) \in Int
BY DEF Cut

\* The duty cycle fits its register whatever speed the driver is given.
LEMMA DutyType == ASSUME NEW rpm \in dc_rpm_t PROVE DutyCycles(rpm) \subseteq 0 .. 255
<1> DEFINE abs == IF rpm > 0 THEN rpm ELSE -rpm
           bounded == IF abs < DC_MOTOR_MAX_RPM_SPEED THEN abs ELSE DC_MOTOR_MAX_RPM_SPEED
<1>1. CASE rpm = INT16_MIN
  BY <1>1 DEF DutyCycles
<1>2. CASE rpm # INT16_MIN
  <2>1. bounded \in 0 .. 125
    BY RpmRange DEF DC_MOTOR_MAX_RPM_SPEED
  <2>2. (51 * bounded) \div 25 \in 0 .. 255
    <3> HIDE DEF bounded
    <3> QED  BY <2>1
  <2> QED
    BY <1>2, <2>2 DEF DutyCycles
<1> QED
  BY <1>1, <1>2

LEMMA DirectionType ==
    ASSUME NEW rpm \in dc_rpm_t PROVE Direction(rpm) \in {"forward", "backward", "off"}
BY RpmRange DEF Direction

-----------------------------------------------------------------------------
(* Type correctness *)

LEMMA CorrectedType ==
    ASSUME NEW err \in Int, NEW sum \in Int PROVE Corrected(err, sum) \in Int
BY CutType DEF Corrected

LEMMA InitTypes == ASSUME Init PROVE TypeOK
<1> DEFINE err == err_prop(0, DC_MOTOR_MAX_RPM_SPEED)
<1>1. held \in Nat /\ held \in Stalls /\ err \in Int
  BY StallAssumption DEF Init, err_prop, DC_MOTOR_MAX_RPM_SPEED
<1>2. err_int = held * err /\ (corrected = IF held = 0 THEN 0 ELSE Corrected(err, err_int))
  BY DEF Init
<1>3. err_int \in Int /\ corrected \in Int
  <2> HIDE DEF err
  <2>1. err_int \in Int
    BY <1>1, <1>2
  <2> QED
    BY <1>1, <1>2, <2>1, CorrectedType
<1>4. duty \in 0 .. 255 /\ direction \in {"forward", "backward", "off"}
  <2>1. Wrap16(corrected) \in dc_rpm_t
    BY <1>3, Wrap16Type
  <2> QED
    BY <2>1, DutyType, DirectionType DEF Init
<1>5. /\ speed_next \in 0 .. DC_MOTOR_MAX_RPM_SPEED
      /\ speed_next \in Int
  BY DEF Init, DC_MOTOR_MAX_RPM_SPEED
<1>6. Split(speed_next) \in [Halves -> 0 .. 255] /\ Split(0) \in [Halves -> 0 .. 255]
  BY <1>5, SplitType
<1> QED
  BY <1>1, <1>3, <1>4, <1>5, <1>6, StallAssumption DEF Init, TypeOK

LEMMA PidTypes == ASSUME TypeOK, PidIsr PROVE TypeOK'
<1> DEFINE err == err_prop(motor_position, Join(speed_target))
           sum == err_int + err
<1>1. motor_position \in Int /\ Join(speed_target) \in dc_rpm_t
  <2>1. Join(speed_target) \in dc_rpm_t
    BY JoinType DEF TypeOK
  <2> QED
    BY <2>1, SpeedAssumption DEF TypeOK
<1>2. err \in Int /\ sum \in Int
  BY <1>1, RpmRange DEF TypeOK, err_prop
<1>3. corrected' \in Int /\ Wrap16(corrected') \in dc_rpm_t
  <2>1. corrected' = Corrected(err, sum)
    BY DEF PidIsr
  <2> HIDE DEF err, sum
  <2> QED  BY <1>2, <2>1, CorrectedType, Wrap16Type
<1>4. duty' \in 0 .. 255 /\ direction' \in {"forward", "backward", "off"}
  <2>1. dcmotor_phy_load_speed(Wrap16(corrected'))
    BY DEF PidIsr
  <2> HIDE DEF err, sum
  <2> QED
    BY <1>3, <2>1, DutyType, DirectionType DEF dcmotor_phy_load_speed
<1>5. speed_actual' \in [Halves -> 0 .. 255]
  <2>1. Wrap16(SpeedOf(motor_position)) \in Int
    BY <1>1, CutType, Wrap16Type, RpmRange DEF SpeedOf
  <2> QED
    BY <2>1, SplitType DEF PidIsr
<1>6. side' \in {"slow", "fast", "met", "mixed"}
  BY DEF PidIsr, Side, TypeOK
<1>7. err_int' \in Int
  BY <1>2 DEF PidIsr
<1>8. samples' \in 0 .. MAX_SAMPLES
  BY StallAssumption DEF PidIsr, TypeOK
<1> QED
  BY <1>3, <1>4, <1>5, <1>6, <1>7, <1>8 DEF PidIsr, TypeOK, main

LEMMA StepTypes == ASSUME TypeOK, [Next]_vars PROVE TypeOK'
<1>1. CASE EncoderIsr
  BY <1>1 DEF EncoderIsr, TypeOK, main
<1>2. CASE PidIsr
  BY <1>2, PidTypes
<1>3. ASSUME NEW rpm \in Speeds, dcmotor_set(rpm) PROVE TypeOK'
  <2>1. compute_limited_speed(rpm) \in 0 .. DC_MOTOR_MAX_RPM_SPEED
    BY SpeedAssumption, LimitedType, RpmRange
  <2> QED
    BY <1>3, <2>1 DEF dcmotor_set, Quiet, TypeOK
<1>4. CASE dcmotor_apply \/ dcmotor_get \/ Return
  BY <1>4 DEF dcmotor_apply, dcmotor_get, Return, Quiet, TypeOK
<1>5. ASSUME NEW half \in Halves, Store(half) PROVE TypeOK'
  <2>1. Split(speed_next)[half] \in 0 .. 255
    <3>1. speed_next \in Int
      BY DEF TypeOK, DC_MOTOR_MAX_RPM_SPEED
    <3> QED  BY <3>1, SplitType
  <2>2. speed_target' \in [Halves -> 0 .. 255]
    BY <1>5, <2>1 DEF Store, TypeOK
  <2> QED
    BY <1>5, <2>2 DEF Store, Quiet, TypeOK
<1>6. ASSUME NEW half \in Halves, Load(half) PROVE TypeOK'
  <2>1. result' \in [Halves -> 0 .. 255]
    BY <1>6 DEF Load, TypeOK
  <2> QED
    BY <1>6, <2>1 DEF Load, Quiet, TypeOK
<1>7. CASE UNCHANGED vars
  BY <1>7 DEF vars, main, TypeOK
<1> QED
  BY <1>1, <1>2, <1>3, <1>4, <1>5, <1>6, <1>7 DEF Next

\* The motor's variables have their types; in particular the duty cycle that is
\* written to the 8-bit register is one, whatever the controller works out.
THEOREM TypeCorrect == Spec => []TypeOK
<1>1. Init => TypeOK
  BY InitTypes
<1>2. TypeOK /\ [Next]_vars => TypeOK'
  BY StepTypes
<1> QED
  BY <1>1, <1>2, PTL DEF Spec

-----------------------------------------------------------------------------
(* The controller never reads a half-stored target.  That needs two facts   *)
(* of the code at once: apply stores what no other command can change in    *)
(* the meantime, and the limit leaves nothing to store in the high half.    *)

TargetInv == /\ speed_target.high = 0
             /\ speed_target.low \in applied
             /\ op = "apply" => /\ speed_next \in applied
                                /\ "low" \in left \/ speed_target.low = speed_next

LEMMA InitTarget == ASSUME Init PROVE TargetInv
<1>1. speed_next \in 0 .. DC_MOTOR_MAX_RPM_SPEED
  BY InitTypes DEF TypeOK
<1> QED
  BY <1>1, LimitedHalves DEF Init, TargetInv

LEMMA StepTarget == ASSUME TypeOK, TargetInv, [Next]_vars PROVE TargetInv'
<1>1. CASE EncoderIsr \/ PidIsr
  BY <1>1 DEF EncoderIsr, PidIsr, TargetInv, main
<1>2. ASSUME NEW rpm \in Speeds, dcmotor_set(rpm) PROVE TargetInv'
  BY <1>2 DEF dcmotor_set, TargetInv
<1>3. CASE dcmotor_apply
  BY <1>3 DEF dcmotor_apply, TargetInv, Halves
<1>4. CASE dcmotor_get \/ Return
  BY <1>4 DEF dcmotor_get, Return, TargetInv
<1>5. ASSUME NEW half \in Halves, Store(half) PROVE TargetInv'
  <2> DEFINE new == Split(speed_next)
  <2>1. new = [low |-> speed_next, high |-> 0]
    BY LimitedHalves DEF TypeOK
  <2>2. speed_target' = [speed_target EXCEPT ![half] = new[half]]
    BY <1>5 DEF Store
  <2>3. "low" \in DOMAIN speed_target /\ "high" \in DOMAIN speed_target
    BY DEF TypeOK, Halves
  <2>4. CASE half = "low"
    <3>1. speed_target'.low = speed_next /\ speed_target'.high = 0
      BY <2>1, <2>2, <2>3, <2>4 DEF TargetInv
    <3> QED
      BY <1>5, <3>1 DEF Store, TargetInv
  <2>5. CASE half = "high"
    <3>1. speed_target'.low = speed_target.low /\ speed_target'.high = 0
      BY <2>1, <2>2, <2>3, <2>5 DEF TargetInv
    <3> QED
      BY <1>5, <2>5, <3>1 DEF Store, TargetInv
  <2> QED
    BY <2>4, <2>5 DEF Halves
<1>6. ASSUME NEW half \in Halves, Load(half) PROVE TargetInv'
  BY <1>6 DEF Load, TargetInv
<1>7. CASE UNCHANGED vars
  BY <1>7 DEF vars, main, TargetInv
<1> QED
  BY <1>1, <1>2, <1>3, <1>4, <1>5, <1>6, <1>7 DEF Next

LEMMA TargetInvSuffices == ASSUME TypeOK, TargetInv PROVE TargetIsApplied
<1>1. speed_target.low \in 0 .. 255
  BY DEF TypeOK, Halves
<1> QED
  BY <1>1, JoinLow DEF TargetInv, TargetIsApplied

\* Whatever speeds the slave is told and wherever the timer cuts into an apply, the
\* target the controller reads is the one in force or the one being applied.
THEOREM TargetApplied == Spec => []TargetIsApplied
<1>1. Init => TypeOK /\ TargetInv
  BY InitTypes, InitTarget
<1>2. TypeOK /\ TargetInv /\ [Next]_vars => TypeOK' /\ TargetInv'
  BY StepTypes, StepTarget
<1>3. TypeOK /\ TargetInv => TargetIsApplied
  BY TargetInvSuffices
<1> QED
  BY <1>1, <1>2, <1>3, PTL DEF Spec

-----------------------------------------------------------------------------
(* get-speed.  Each half that was loaded is the half of a speed sampled     *)
(* since the call, or of the last one before it.                            *)

Answering == op \in {"get", "got"}

SampleInv ==
    /\ seen \subseteq dc_rpm_t
    /\ \E rpm \in dc_rpm_t : /\ speed_actual = Split(rpm)
                             /\ op = "get" => rpm \in seen
    /\ Answering => \A half \in Halves \ left :
                        \E rpm \in seen : result[half] = Split(rpm)[half]
    /\ op = "got" => left = {}

LEMMA InitSample == ASSUME Init PROVE SampleInv
<1>1. 0 \in dc_rpm_t
  BY RpmRange
<1> QED
  BY <1>1 DEF Init, SampleInv, Answering

LEMMA PidSample == ASSUME TypeOK, SampleInv, PidIsr PROVE SampleInv'
<1> DEFINE sampled == Wrap16(SpeedOf(motor_position))
<1>1. sampled \in dc_rpm_t
  <2>1. motor_position \in Int
    BY SpeedAssumption DEF TypeOK
  <2> QED
    BY <2>1, CutType, Wrap16Type DEF SpeedOf
<1>2. speed_actual' = Split(sampled)
  BY DEF PidIsr
<1>3. /\ seen' = IF op = "get" THEN seen \cup {sampled} ELSE seen
      /\ UNCHANGED <<op, left, result>>
  BY DEF PidIsr, main
<1> HIDE DEF sampled
<1>4. seen' \subseteq dc_rpm_t
  BY <1>1, <1>3 DEF SampleInv
<1>5. seen \subseteq seen' /\ (op' = "get" => sampled \in seen')
  BY <1>3
<1> QED
  BY <1>1, <1>2, <1>3, <1>4, <1>5 DEF SampleInv, Answering

LEMMA StepSample == ASSUME TypeOK, SampleInv, [Next]_vars PROVE SampleInv'
<1>1. CASE EncoderIsr
  BY <1>1 DEF EncoderIsr, SampleInv, Answering, main
<1>2. CASE PidIsr
  BY <1>2, PidSample
<1>3. ASSUME NEW rpm \in Speeds, dcmotor_set(rpm) PROVE SampleInv'
  BY <1>3 DEF dcmotor_set, Quiet, SampleInv, Answering
<1>4. CASE dcmotor_apply
  BY <1>4 DEF dcmotor_apply, Quiet, SampleInv, Answering
<1>5. CASE dcmotor_get
  <2> PICK rpm \in dc_rpm_t : speed_actual = Split(rpm)
    BY DEF SampleInv
  <2>1. seen' = {rpm} /\ speed_actual' = Split(rpm)
    BY <1>5, JoinSplit DEF dcmotor_get, Quiet
  <2>2. seen' \subseteq dc_rpm_t
    BY <2>1
  <2>3. op' = "get" /\ left' = Halves
    BY <1>5 DEF dcmotor_get
  <2> QED
    BY <2>1, <2>2, <2>3 DEF SampleInv, Answering
<1>6. CASE Return
  BY <1>6 DEF Return, Quiet, SampleInv, Answering
<1>7. ASSUME NEW half \in Halves, Store(half) PROVE SampleInv'
  BY <1>7 DEF Store, Quiet, SampleInv, Answering
<1>8. ASSUME NEW half \in Halves, Load(half) PROVE SampleInv'
  <2> PICK rpm \in dc_rpm_t : speed_actual = Split(rpm) /\ rpm \in seen
    BY <1>8 DEF Load, SampleInv
  <2>1. UNCHANGED <<seen, speed_actual>>
    BY <1>8 DEF Load, Quiet
  <2>2. \A h \in Halves \ left' : \E r \in seen : result'[h] = Split(r)[h]
    <3> SUFFICES ASSUME NEW h \in Halves \ left'
                 PROVE  \E r \in seen : result'[h] = Split(r)[h]
      OBVIOUS
    <3>1. CASE h = half
      BY <1>8, <3>1 DEF Load, TypeOK
    <3>2. CASE h # half
      BY <1>8, <3>2 DEF Load, TypeOK, SampleInv, Answering
    <3> QED
      BY <3>1, <3>2
  <2>3. op' = "got" => left' = {}
    BY <1>8 DEF Load
  <2> QED
    BY <2>1, <2>2, <2>3 DEF SampleInv
<1>9. CASE UNCHANGED vars
  BY <1>9 DEF vars, main, SampleInv, Answering
<1> QED
  BY <1>1, <1>2, <1>3, <1>4, <1>5, <1>6, <1>7, <1>8, <1>9 DEF Next

LEMMA SampleInvSuffices == ASSUME TypeOK, SampleInv PROVE GetIsSample
<1> SUFFICES ASSUME op = "got"
             PROVE  \E rpm, other \in seen :
                        /\ Join(result) = Rpm(Low(rpm), High(other))
                        /\ High(other) = High(rpm) => Join(result) = rpm
  BY DEF GetIsSample
<1>1. PICK rpm \in seen : result.low = Split(rpm).low
  BY DEF SampleInv, Answering, Halves
<1>2. PICK other \in seen : result.high = Split(other).high
  BY DEF SampleInv, Answering, Halves
<1>3. result.low = Low(rpm) /\ result.high = High(other)
  BY <1>1, <1>2 DEF Split
<1>4. Join(result) = Rpm(Low(rpm), High(other))
  BY <1>3 DEF Join
<1>5. ASSUME High(other) = High(rpm) PROVE Join(result) = rpm
  <2>1. Join(result) = Join(Split(rpm))
    BY <1>4, <1>5 DEF Join, Split
  <2> QED
    BY <2>1, JoinSplit DEF SampleInv
<1> QED
  BY <1>4, <1>5

\* However the timer cuts into its two loads, get-speed answers with the low half of
\* one sample taken since the call, or the one before, and the high half of another:
\* with a sample itself if the high halves agree.
THEOREM AnswersSample == Spec => []GetIsSample
<1>1. Init => TypeOK /\ SampleInv
  BY InitTypes, InitSample
<1>2. TypeOK /\ SampleInv /\ [Next]_vars => TypeOK' /\ SampleInv'
  BY StepTypes, StepSample
<1>3. TypeOK /\ SampleInv => GetIsSample
  BY SampleInvSuffices
<1> QED
  BY <1>1, <1>2, <1>3, PTL DEF Spec

-----------------------------------------------------------------------------
(* The motor is driven against its error.  The sum of the errors is bounded *)
(* by the stall it starts with and the samples since, so the corrected speed *)
(* fits 16 bits while those are few; where it fits, its sign is the errors'. *)

\* The largest errors of a sample with at most B counts backwards or C forwards.
Slowest(B) == 15 * DC_MOTOR_MAX_RPM_SPEED + 8 * B
Fastest(C) == 8 * C

\* The sum's bounds, k samples after a stall of n.
Behind(B, n, k) == 15 * DC_MOTOR_MAX_RPM_SPEED * n + Slowest(B) * k
Ahead(C, k) == Fastest(C) * k

\* The encoder counts at most B signals backwards or C forwards in a sample, and the
\* corrected speed fits 16 bits for SAFE_SAMPLES samples, MAX_SAMPLES of them moving.
FitsRpm(B, C) ==
    /\ Counts \subseteq -B .. C
    /\ 150 * Slowest(B) + 37 * (15 * DC_MOTOR_MAX_RPM_SPEED * SAFE_SAMPLES
                                  + 8 * B * MAX_SAMPLES) <= 1500 * 32767
    /\ 150 * Fastest(C) + 37 * Ahead(C, MAX_SAMPLES) <= 1500 * 32767

\* A numerator of the corrected speed that leaves it within 16 bits.
Fits16(a) == -49150500 <= a /\ a <= 49150500

LEMMA CutSign ==
    ASSUME NEW a \in Int
    PROVE  /\ Cut(a, 1500) \in Int
           /\ a <= 0 => Cut(a, 1500) <= 0
           /\ a >= 0 => Cut(a, 1500) >= 0
           /\ Fits16(a) => -32768 <= Cut(a, 1500) /\ Cut(a, 1500) <= 32767
BY SMTT(30) DEF Cut, Fits16

LEMMA Wrap16Fits ==
    ASSUME NEW rpm \in Int, -32768 <= rpm, rpm <= 32767
    PROVE  Wrap16(rpm) = rpm
BY DEF Wrap16

LEMMA DirectionSign ==
    ASSUME NEW rpm \in Int
    PROVE  /\ rpm <= 0 => Direction(rpm) # "forward"
           /\ rpm >= 0 => Direction(rpm) # "backward"
           /\ rpm = 0  => Direction(rpm) = "off"
BY DEF Direction

LEMMA TimesMonotone ==
    ASSUME NEW E \in Nat, NEW k \in Nat
    PROVE  /\ E * k \in Nat
           /\ E * (k + 1) = E * k + E
           /\ \A n \in Nat : k <= n => E * k <= E * n
<1>1. ASSUME NEW n \in Nat, k <= n PROVE E * k <= E * n
  <2>1. PICK d \in Nat : n = k + d
    BY <1>1, n - k \in Nat
  <2>2. E * n = E * k + E * d /\ E * d \in Nat /\ E * k \in Nat
    BY <2>1
  <2> QED
    BY <2>2
<1> QED
  BY <1>1

LEMMA BehindGrows ==
    ASSUME NEW B \in Nat, NEW N \in Nat, NEW k \in Nat
    PROVE  /\ Slowest(B) \in Nat /\ Behind(B, N, k) \in Nat
           /\ Behind(B, N, k + 1) = Behind(B, N, k) + Slowest(B)
<1>1. PICK h \in Nat : h = 15 * DC_MOTOR_MAX_RPM_SPEED * N
  BY DEF DC_MOTOR_MAX_RPM_SPEED
<1>2. PICK b \in Nat : b = Slowest(B)
  BY DEF Slowest, DC_MOTOR_MAX_RPM_SPEED
<1>3. Behind(B, N, k) = h + b * k /\ Behind(B, N, k + 1) = h + b * (k + 1)
  BY <1>1, <1>2 DEF Behind
<1>4. b * k \in Nat /\ b * (k + 1) = b * k + b
  BY TimesMonotone
<1> QED
  BY <1>2, <1>3, <1>4

LEMMA AheadGrows ==
    ASSUME NEW C \in Nat, NEW k \in Nat, NEW n \in Nat, k < n
    PROVE  /\ Fastest(C) \in Nat /\ Ahead(C, k) \in Nat /\ Ahead(C, n) \in Nat
           /\ Ahead(C, k + 1) = Ahead(C, k) + Fastest(C)
           /\ Ahead(C, k + 1) <= Ahead(C, n)
<1>1. PICK c \in Nat : c = Fastest(C)
  BY DEF Fastest
<1>2. k + 1 \in Nat /\ k + 1 <= n
  OBVIOUS
<1>3. /\ c * k \in Nat /\ c * n \in Nat
      /\ c * (k + 1) = c * k + c /\ c * (k + 1) <= c * n
  BY <1>2, TimesMonotone
<1> QED
  BY <1>1, <1>3 DEF Ahead

\* Within SAFE_SAMPLES, the sum stays below what FitsRpm takes it to be.
LEMMA BehindIsSafe ==
    ASSUME NEW B \in Nat, NEW N \in Nat, NEW k \in Nat, NEW n \in Nat, k <= n,
           NEW S \in Nat, N + k <= S
    PROVE  /\ Behind(B, N, k) \in Nat /\ 8 * B * n \in Nat
           /\ Behind(B, N, k) <= 15 * DC_MOTOR_MAX_RPM_SPEED * S + 8 * B * n
<1>1. 8 * B \in Nat /\ 8 * B * k \in Nat /\ 8 * B * n \in Nat /\ 8 * B * k <= 8 * B * n
  <2>1. 8 * B \in Nat
    OBVIOUS
  <2>2. \A E \in Nat : E * k \in Nat /\ E * n \in Nat /\ E * k <= E * n
    BY TimesMonotone
  <2> QED
    BY <2>1, <2>2
<1>2. Slowest(B) * k = 1875 * k + 8 * B * k
  BY DEF Slowest, DC_MOTOR_MAX_RPM_SPEED
<1>3. Behind(B, N, k) = 1875 * N + 1875 * k + 8 * B * k
  BY <1>1, <1>2 DEF Behind, DC_MOTOR_MAX_RPM_SPEED
<1>4. 15 * DC_MOTOR_MAX_RPM_SPEED * S = 1875 * S
  BY DEF DC_MOTOR_MAX_RPM_SPEED
<1>5. 1875 * N + 1875 * k <= 1875 * S
  OBVIOUS
<1> QED
  BY <1>1, <1>3, <1>4, <1>5

\* The targets are within the limit; the sum has the sign of the errors and its
\* bound; the motor is driven with that sign.
DriveInv(B, C) ==
    /\ applied \subseteq 0 .. DC_MOTOR_MAX_RPM_SPEED
    /\ -Behind(B, held, samples) <= err_int /\ err_int <= Ahead(C, samples)
    /\ side = "slow" => err_int <= 0
    /\ side = "fast" => err_int >= 0
    /\ side = "met"  => err_int = 0
    /\ DriveOpposesError

\* The errors have the signs that a side tells, and a direction is the right one.
Signs(s, err, sum) == /\ s = "slow" => err <= 0 /\ sum <= 0
                      /\ s = "fast" => err >= 0 /\ sum >= 0
                      /\ s = "met" => err = 0 /\ sum = 0

Opposes(s, dir) == /\ s = "slow" => dir # "forward"
                   /\ s = "fast" => dir # "backward"
                   /\ s = "met"  => dir = "off"

DirectionOf(c) == Direction(Wrap16(c))
Fits(err, sum) == Fits16(150 * err + 37 * sum)

\* A speed corrected from such errors drives the motor the right way if it fits.
LEMMA DriveSign ==
    ASSUME NEW err \in Int, NEW sum \in Int, NEW s, Signs(s, err, sum)
    PROVE  /\ Fits(err, sum) => Corrected(err, sum) \in dc_rpm_t
           /\ Corrected(err, sum) \in dc_rpm_t
                => Opposes(s, DirectionOf(Corrected(err, sum)))
<1> DEFINE a == 150 * err + 37 * sum
           c == Corrected(err, sum)
<1>1. /\ a \in Int /\ c = Cut(a, 1500)
      /\ s = "slow" => a <= 0
      /\ s = "fast" => a >= 0
      /\ s = "met" => a <= 0 /\ a >= 0
  BY DEF Corrected, Signs
<1>2. /\ c \in Int
      /\ s = "slow" => c <= 0
      /\ s = "fast" => c >= 0
      /\ s = "met" => c = 0
      /\ Fits16(a) => c \in dc_rpm_t
  <2> HIDE DEF a, c
  <2> QED  BY <1>1, CutSign, RpmRange
<1>3. c \in dc_rpm_t => DirectionOf(c) = Direction(c)
  <2> HIDE DEF c
  <2> QED  BY <1>2, RpmRange, Wrap16Fits DEF DirectionOf
<1>4. c \in dc_rpm_t => Opposes(s, DirectionOf(c))
  <2> HIDE DEF c
  <2> QED  BY <1>2, <1>3, DirectionSign DEF Opposes
<1> QED
  BY <1>2, <1>4 DEF Fits

LEMMA InitDrive ==
    ASSUME NEW B \in Nat, NEW C \in Nat, FitsRpm(B, C), Init
    PROVE  DriveInv(B, C)
<1>1. held \in Nat /\ samples = 0 /\ applied = {speed_next}
  BY StallAssumption DEF Init
<1>2. err_prop(0, DC_MOTOR_MAX_RPM_SPEED) = -1875
  BY DEF err_prop, DC_MOTOR_MAX_RPM_SPEED
<1>3. /\ err_int = held * (-1875) /\ (side = IF held = 0 THEN "met" ELSE "slow")
      /\ corrected = IF held = 0 THEN 0 ELSE Corrected(-1875, err_int)
      /\ direction = Direction(Wrap16(corrected))
  BY <1>2 DEF Init
<1>4. Behind(B, held, 0) = 1875 * held /\ Ahead(C, 0) = 0
  BY <1>1 DEF Behind, Ahead, Slowest, Fastest, DC_MOTOR_MAX_RPM_SPEED
<1>5. speed_next \in 0 .. DC_MOTOR_MAX_RPM_SPEED
  BY DEF Init, DC_MOTOR_MAX_RPM_SPEED
<1>6. err_int \in Int /\ err_int = -(1875 * held) /\ err_int <= 0
  BY <1>1, <1>3
<1>7. DriveOpposesError
  <2>1. CASE held = 0
    <3>1. Wrap16(0) = 0
      BY DEF Wrap16
    <3>2. direction = "off"
      BY <1>3, <2>1, <3>1, DirectionSign
    <3> QED
      BY <1>3, <2>1, <3>2 DEF DriveOpposesError
  <2>2. CASE held # 0
    <3>1. side = "slow" /\ corrected = Corrected(-1875, err_int)
      BY <1>3, <2>2
    <3>2. held + samples <= SAFE_SAMPLES => Fits(-1875, err_int)
      <4> SUFFICES ASSUME held <= SAFE_SAMPLES PROVE Fits(-1875, err_int)
        BY <1>1
      <4>1. PICK m \in Nat : m = 8 * B * MAX_SAMPLES
        <5>1. 8 * B \in Nat
          OBVIOUS
        <5> QED
          BY <5>1, StallAssumption, TimesMonotone
      <4>2. 150 * (1875 + 8 * B) + 37 * (1875 * SAFE_SAMPLES + m) <= 49150500
        BY <4>1, SMTT(30) DEF FitsRpm, Slowest, DC_MOTOR_MAX_RPM_SPEED
      <4>3. SAFE_SAMPLES \in Nat
        BY StallAssumption
      <4> QED
        BY <1>1, <1>6, <4>1, <4>2, <4>3, SMTT(30) DEF Fits, Fits16
    <3>3. -1875 \in Int /\ Signs("slow", -1875, err_int)
      BY <1>6 DEF Signs
    <3>4. /\ held + samples <= SAFE_SAMPLES => corrected \in dc_rpm_t
          /\ corrected \in dc_rpm_t => Opposes("slow", direction)
      BY <1>3, <1>6, <3>1, <3>2, <3>3, DriveSign DEF DirectionOf
    <3> QED
      BY <3>1, <3>4 DEF DriveOpposesError, Opposes
  <2> QED
    BY <2>1, <2>2
<1> QED
  BY <1>1, <1>3, <1>4, <1>5, <1>6, <1>7 DEF DriveInv

LEMMA PidDrive ==
    ASSUME NEW B \in Nat, NEW C \in Nat, FitsRpm(B, C),
           TypeOK, TargetInv, DriveInv(B, C), PidIsr
    PROVE  DriveInv(B, C)'
<1> DEFINE target == Join(speed_target)
           err == err_prop(motor_position, target)
           sum == err_int + err
           low == Behind(B, held, samples)
           high == Ahead(C, samples)
<1>1. target \in 0 .. 125
  BY TargetInvSuffices DEF TargetIsApplied, DriveInv, DC_MOTOR_MAX_RPM_SPEED
<1>2. motor_position \in Int /\ -B <= motor_position /\ motor_position <= C
  BY DEF TypeOK, FitsRpm
<1>3. err \in Int /\ -Slowest(B) <= err /\ err <= Fastest(C)
  BY <1>1, <1>2 DEF err_prop, Slowest, Fastest, DC_MOTOR_MAX_RPM_SPEED
<1>4. /\ samples \in Nat /\ samples' = samples + 1 /\ samples' <= MAX_SAMPLES
      /\ held \in Nat /\ held' = held /\ MAX_SAMPLES \in Nat /\ SAFE_SAMPLES \in Nat
  BY StallAssumption DEF PidIsr, TypeOK
<1>5. /\ low \in Nat /\ high \in Nat
      /\ Slowest(B) \in Nat /\ Fastest(C) \in Nat
      /\ Behind(B, held, samples') = low + Slowest(B)
      /\ Ahead(C, samples') = high + Fastest(C)
      /\ Ahead(C, MAX_SAMPLES) \in Nat
      /\ high + Fastest(C) <= Ahead(C, MAX_SAMPLES)
  <2>1. samples < MAX_SAMPLES
    BY DEF PidIsr
  <2>2. PICK N \in Nat, k \in Nat : N = held /\ k = samples
    BY <1>4
  <2>3. samples' = k + 1 /\ k < MAX_SAMPLES /\ MAX_SAMPLES \in Nat
    BY <1>4, <2>1, <2>2
  <2>4. /\ Slowest(B) \in Nat /\ Behind(B, N, k) \in Nat
        /\ Behind(B, N, k + 1) = Behind(B, N, k) + Slowest(B)
    BY BehindGrows
  <2>5. /\ Fastest(C) \in Nat /\ Ahead(C, k) \in Nat /\ Ahead(C, MAX_SAMPLES) \in Nat
        /\ Ahead(C, k + 1) = Ahead(C, k) + Fastest(C)
        /\ Ahead(C, k + 1) <= Ahead(C, MAX_SAMPLES)
    BY <2>3, AheadGrows
  <2>6. low = Behind(B, N, k) /\ high = Ahead(C, k)
    BY <2>2
  <2>7. /\ Behind(B, held, samples') = Behind(B, N, k + 1)
        /\ Ahead(C, samples') = Ahead(C, k + 1)
    BY <2>2, <2>3
  <2> HIDE DEF low, high
  <2> QED
    BY <2>4, <2>5, <2>6, <2>7
<1>6. /\ err_int \in Int /\ -low <= err_int /\ err_int <= high
  BY DEF TypeOK, DriveInv
<1>7. sum \in Int /\ -(low + Slowest(B)) <= sum /\ sum <= high + Fastest(C)
  <2> HIDE DEF err, low, high
  <2> QED  BY <1>3, <1>5, <1>6
<1>8. /\ err_int' = sum
      /\ corrected' = Corrected(err, sum)
      /\ direction' = Direction(Wrap16(corrected'))
      /\ side' = Side
      /\ UNCHANGED applied
  BY DEF PidIsr, main, dcmotor_phy_load_speed
<1>9. held' + samples' <= SAFE_SAMPLES => Fits(err, sum)
  <2> SUFFICES ASSUME held + samples' <= SAFE_SAMPLES
               PROVE  Fits(err, sum)
    BY <1>4
  <2> DEFINE most == 15 * DC_MOTOR_MAX_RPM_SPEED * SAFE_SAMPLES + 8 * B * MAX_SAMPLES
  <2>1. /\ 150 * Slowest(B) + 37 * most <= 49150500
        /\ 150 * Fastest(C) + 37 * Ahead(C, MAX_SAMPLES) <= 49150500
    BY SMTT(30) DEF FitsRpm
  <2>2. samples' \in Nat
    BY <1>4
  <2>3. low + Slowest(B) <= most /\ most \in Int
    <3>1. /\ Behind(B, held, samples') <= most
          /\ 8 * B * MAX_SAMPLES \in Nat
      BY <1>4, <2>2, BehindIsSafe
    <3>2. 15 * DC_MOTOR_MAX_RPM_SPEED * SAFE_SAMPLES \in Nat
      BY <1>4 DEF DC_MOTOR_MAX_RPM_SPEED
    <3> HIDE DEF low
    <3> QED  BY <1>5, <3>1, <3>2
  <2> HIDE DEF err, sum, low, high, most
  <2> QED
    BY <1>3, <1>5, <1>7, <2>1, <2>3, SMTT(30) DEF Fits, Fits16
<1>10. /\ side' = "slow" => side \in {"slow", "met"} /\ err <= 0
       /\ side' = "fast" => side \in {"fast", "met"} /\ err >= 0
       /\ side' = "met" => side = "met" /\ err = 0
  <2> DEFINE is == CASE 8 * motor_position < 15 * target -> "slow"
                     [] 8 * motor_position > 15 * target -> "fast"
                     [] OTHER -> "met"
  <2>1. /\ is = "slow" => err <= 0
        /\ is = "fast" => err >= 0
        /\ is = "met" => err = 0
        /\ is \in {"slow", "fast", "met"}
    BY <1>1, <1>2 DEF err_prop
  <2>2. side' = CASE is \in {side, "met"} -> side
                  [] side = "met" -> is
                  [] OTHER -> "mixed"
    BY <1>8 DEF Side
  <2> HIDE DEF is, err
  <2> QED
    BY <1>3, <2>1, <2>2
<1>11. /\ side' = "slow" => err <= 0 /\ sum <= 0
       /\ side' = "fast" => err >= 0 /\ sum >= 0
       /\ side' = "met" => err = 0 /\ sum = 0
  <2>1. /\ side \in {"slow", "met"} => err_int <= 0
        /\ side \in {"fast", "met"} => err_int >= 0
    BY <1>6 DEF DriveInv
  <2> HIDE DEF err
  <2> QED
    BY <1>3, <1>6, <1>10, <2>1 DEF DriveInv
<1> HIDE DEF err, sum, low, high
<1>12. DriveOpposesError'
  <2>1. Signs(side', err, sum)
    BY <1>11 DEF Signs
  <2>2. direction' = DirectionOf(Corrected(err, sum))
    BY <1>8 DEF DirectionOf
  <2>3. /\ held' + samples' <= SAFE_SAMPLES => corrected' \in dc_rpm_t
        /\ corrected' \in dc_rpm_t => Opposes(side', direction')
    BY <1>3, <1>7, <1>8, <1>9, <2>1, <2>2, DriveSign
  <2> QED
    BY <2>3 DEF DriveOpposesError, Opposes
<1>13. -Behind(B, held', samples') <= err_int' /\ err_int' <= Ahead(C, samples')
  BY <1>4, <1>5, <1>7, <1>8
<1> QED
  BY <1>8, <1>11, <1>12, <1>13 DEF DriveInv

LEMMA StepDrive ==
    ASSUME NEW B \in Nat, NEW C \in Nat, FitsRpm(B, C),
           TypeOK, TargetInv, DriveInv(B, C), [Next]_vars
    PROVE  DriveInv(B, C)'
<1>1. CASE PidIsr
  BY <1>1, PidDrive
<1>2. CASE EncoderIsr
  BY <1>2 DEF EncoderIsr, main, DriveInv, DriveOpposesError
<1>3. ASSUME NEW rpm \in Speeds, dcmotor_set(rpm) PROVE DriveInv(B, C)'
  BY <1>3 DEF dcmotor_set, Quiet, DriveInv, DriveOpposesError
<1>4. CASE dcmotor_apply
  BY <1>4 DEF dcmotor_apply, Quiet, DriveInv, DriveOpposesError, TypeOK
<1>5. CASE dcmotor_get \/ Return
  BY <1>5 DEF dcmotor_get, Return, Quiet, DriveInv, DriveOpposesError
<1>6. ASSUME NEW half \in Halves, Store(half) PROVE DriveInv(B, C)'
  BY <1>6 DEF Store, Quiet, DriveInv, DriveOpposesError, TypeOK
<1>7. ASSUME NEW half \in Halves, Load(half) PROVE DriveInv(B, C)'
  BY <1>7 DEF Load, Quiet, DriveInv, DriveOpposesError
<1>8. CASE UNCHANGED vars
  BY <1>8 DEF vars, main, DriveInv, DriveOpposesError
<1> QED
  BY <1>1, <1>2, <1>3, <1>4, <1>5, <1>6, <1>7, <1>8 DEF Next

\* Whatever the slave is told, the encoder counts and the timer cuts into, a motor
\* that was slow, fast or right at every sample is driven accordingly: for the first
\* SAFE_SAMPLES samples of a stall always, afterwards unless the sum of the errors,
\* which nothing bounds, has carried the corrected speed past 16 bits.
THEOREM DriveIsOpposed ==
    ASSUME NEW B \in Nat, NEW C \in Nat, FitsRpm(B, C)
    PROVE  Spec => []DriveOpposesError
<1>1. Init => TypeOK /\ TargetInv /\ DriveInv(B, C)
  BY InitTypes, InitTarget, InitDrive
<1>2. TypeOK /\ TargetInv /\ DriveInv(B, C) /\ [Next]_vars
          => TypeOK' /\ TargetInv' /\ DriveInv(B, C)'
  BY StepTypes, StepTarget, StepDrive
<1>3. DriveInv(B, C) => DriveOpposesError
  BY DEF DriveInv
<1> QED
  BY <1>1, <1>2, <1>3, PTL DEF Spec
====
