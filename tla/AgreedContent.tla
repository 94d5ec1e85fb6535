--------------------------- MODULE AgreedContent ---------------------------
(***************************************************************************)
(* What the agreements of a specification promise a reader: which content  *)
(* is in force on a day.  It changes freely until something is agreed;     *)
(* from then on it changes at midnight of the date agreed on, at once when *)
(* that date is today, and to nothing when the agreement is ended.  That   *)
(* no process runs at midnight, and the first transaction afterwards does  *)
(* the work, cannot be seen.                                               *)
(***************************************************************************)
EXTENDS Integers

CONSTANTS Content, LastDay

VARIABLES
  day,
  inForce,  \* the content in force
  plan,     \* the content agreed for a later day: at most one [date, set]
  bound     \* something has been agreed and taken effect

contentVars == <<day, inForce, plan, bound>>

Init == day = 0 /\ inForce = {} /\ plan = {} /\ bound = FALSE

\* The working set of a specification without agreements.
Edit ==
  /\ ~bound /\ plan = {}
  /\ inForce' \in SUBSET Content
  /\ UNCHANGED <<day, plan, bound>>

AgreeNow ==
  /\ plan = {}
  /\ inForce' \in IF bound THEN SUBSET Content ELSE {inForce}
  /\ bound' = TRUE
  /\ UNCHANGED <<day, plan>>

AgreeLater ==
  /\ plan = {}
  /\ \E date \in day + 1 .. LastDay, set \in SUBSET Content :
       /\ ~bound => set = inForce
       /\ plan' = {[date |-> date, set |-> set]}
  /\ UNCHANGED <<day, inForce, bound>>

Reschedule ==
  /\ \E p \in plan :
       \/ /\ \E date \in day + 1 .. LastDay : plan' = {[p EXCEPT !.date = date]}
          /\ UNCHANGED <<inForce, bound>>
       \/ inForce' = p.set /\ plan' = {} /\ bound' = TRUE
  /\ UNCHANGED day

\* Without an agreement in force the working set is open again, as copies.
Withdraw ==
  /\ plan # {}
  /\ plan' = {}
  /\ inForce' \in IF bound THEN {inForce} ELSE SUBSET Content
  /\ UNCHANGED <<day, bound>>

EndAgreed ==
  /\ bound /\ plan = {}
  /\ inForce' = {}
  /\ UNCHANGED <<day, plan, bound>>

Midnight ==
  /\ day < LastDay /\ day' = day + 1
  /\ \/ \E p \in plan :
          p.date = day + 1 /\ inForce' = p.set /\ plan' = {} /\ bound' = TRUE
     \/ (\A p \in plan : p.date > day + 1) /\ UNCHANGED <<inForce, plan, bound>>

Next == Edit \/ AgreeNow \/ AgreeLater \/ Reschedule \/ Withdraw \/ EndAgreed \/ Midnight

Spec == Init /\ [][Next]_contentVars
=============================================================================
