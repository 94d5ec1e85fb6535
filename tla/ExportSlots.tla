----------------------------- MODULE ExportSlots -----------------------------
(***************************************************************************)
(* What docs/operations/export-report-admission.md promises of the actor   *)
(* quota, whatever nodes die, answers get lost and clocks run out: a       *)
(* counting semaphore per actor over the exports that use resources.  One  *)
(* export enters at a time; a node that dies lets several out at once.     *)
(***************************************************************************)
EXTENDS Naturals, FiniteSets

CONSTANTS Actors, Ops, ActiveLimit

VARIABLE working  \* for each actor, the exports that use resources

Init == working = [a \in Actors |-> {}]

Enter(a, o) ==
  /\ o \notin working[a]
  /\ Cardinality(working[a]) < ActiveLimit
  /\ working' = [working EXCEPT ![a] = @ \cup {o}]

Leave ==
  /\ working' # working
  /\ \A a \in Actors : working'[a] \subseteq working[a]

Next == Leave \/ \E a \in Actors, o \in Ops : Enter(a, o)

Spec == Init /\ [][Next]_working

=============================================================================
