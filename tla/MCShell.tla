---- MODULE MCShell ----
(***************************************************************************)
(* Two boards, so that the wrong one can be used, and one path of each     *)
(* kind that is no board.                                                  *)
(***************************************************************************)
EXTENDS Shell, TLC

MCPath == {"A", "B", "S", "F", "M", "E"}
MCKind == "A" :> "board" @@ "B" :> "board" @@ "S" :> "silent" @@ "F" :> "file"
          @@ "M" :> "missing" @@ "E" :> "empty"
====
