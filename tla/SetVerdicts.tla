----------------------------- MODULE SetVerdicts -----------------------------
(***************************************************************************)
(* What a test run promises about its verdicts, whatever happens to the    *)
(* link, to the device and to the runner: the cases of a set are decided   *)
(* one after the other, each once; a set is reported only when all of its  *)
(* cases are decided; a case that was begun while the run was bailing out  *)
(* never passes; and the run is mended at most once, when no case of the   *)
(* set is left to be run - or by a reboot that a step expects.             *)
(***************************************************************************)
EXTENDS Naturals, Sequences

VARIABLES
  size,      \* number of cases of the current set, 0 between sets
  decided,   \* verdicts of its cases so far
  open,      \* the case being run: "no", "clean" or "tainted"
  broken,    \* the run is bailing out
  mended     \* the run was resumed

svars == <<size, decided, open, broken, mended>>

Init ==
  /\ size = 0 /\ decided = <<>> /\ open = "no"
  /\ broken = FALSE /\ mended = FALSE

OpenSet ==
  /\ size = 0
  /\ size' \in Nat
  /\ UNCHANGED <<decided, open, broken, mended>>

OpenCase ==
  /\ open = "no" /\ Len(decided) < size
  /\ open' = IF broken THEN "tainted" ELSE "clean"
  /\ UNCHANGED <<size, decided, broken, mended>>

\* The link may be lost while the case is being closed.
CloseCase ==
  /\ open # "no"
  /\ \E v \in {"PASS", "FAIL", "N/A"} :
       /\ open = "tainted" => v # "PASS"
       /\ decided' = Append(decided, v)
  /\ open' = "no"
  /\ broken' \in {broken, TRUE}
  /\ UNCHANGED <<size, mended>>

SkipCase ==
  /\ open = "no" /\ Len(decided) < size
  /\ \E v \in {"filtered", "N/A"} : decided' = Append(decided, v)
  /\ UNCHANGED <<size, open, broken, mended>>

AbortSet ==
  /\ open = "no" /\ decided = <<>>
  /\ decided' = [j \in 1..size |-> "FAIL"]
  /\ UNCHANGED <<size, open, broken, mended>>

CloseSet ==
  /\ open = "no" /\ Len(decided) = size
  /\ size' = 0 /\ decided' = <<>>
  /\ UNCHANGED <<open, broken, mended>>

Break ==
  /\ broken' = TRUE
  /\ UNCHANGED <<size, decided, open, mended>>

Mend ==
  /\ broken /\ ~mended
  /\ open = "no" /\ Len(decided) = size
  /\ broken' = FALSE /\ mended' = TRUE
  /\ UNCHANGED <<size, decided, open>>

\* A reboot that is expected breaks the run, and then mends it: by a step of
\* a case, or by one that comes before the first or after the last case.
Reboot ==
  /\ \/ open = "clean"
     \/ open = "no" /\ (decided = <<>> \/ Len(decided) = size)
  /\ broken' = FALSE
  /\ UNCHANGED <<size, decided, open, mended>>

Next ==
  \/ OpenSet \/ CloseSet \/ AbortSet
  \/ OpenCase \/ CloseCase \/ SkipCase
  \/ Break \/ Mend \/ Reboot

Spec == Init /\ [][Next]_svars

=============================================================================
