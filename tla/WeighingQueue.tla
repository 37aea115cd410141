----------------------------- MODULE WeighingQueue -----------------------------
(***************************************************************************)
(* What the weighbridge promises the CRM: every weighing that was recorded *)
(* is taken exactly once, in the order of recording, and none is left      *)
(* behind.  WeighbridgeOutbox implements it with a SQLite file, a writer   *)
(* thread, a collector and an importer that may both die at any step.      *)
(***************************************************************************)
EXTENDS Naturals, Sequences

CONSTANT Weighings   \* what can be recorded

VARIABLES
  recorded,   \* weighings on disk, in order
  taken       \* weighings the CRM has taken, in order

vars == <<recorded, taken>>

Init == recorded = <<>> /\ taken = <<>>

Record(w) ==
  /\ \A i \in DOMAIN recorded : recorded[i] # w
  /\ recorded' = Append(recorded, w)
  /\ UNCHANGED taken

Take ==
  /\ Len(taken) < Len(recorded)
  /\ taken' = Append(taken, recorded[Len(taken) + 1])
  /\ UNCHANGED recorded

Next == Take \/ \E w \in Weighings : Record(w)

SafeSpec == Init /\ [][Next]_vars
Spec == SafeSpec /\ WF_vars(Take)

\* What the two sequences always satisfy.
InOrder ==
  /\ Len(taken) <= Len(recorded)
  /\ \A i \in DOMAIN taken : taken[i] = recorded[i]
=============================================================================
