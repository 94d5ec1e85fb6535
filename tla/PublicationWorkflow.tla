------------------------- MODULE PublicationWorkflow -------------------------
(***************************************************************************)
(* What the requirement lifecycle promises its users: every version walks  *)
(* the published state diagram, a version is approved out of review and by *)
(* that replaces the Published one, and at most one version is in use.     *)
(* RequirementLifecycle implements it when requests run one at a time.     *)
(***************************************************************************)
CONSTANT Versions

VARIABLE state      \* where each version is in the workflow

States == {"None", "Draft", "Review", "Published", "ArchivingReview", "Archived"}

Init == state = [v \in Versions |-> "None"]

Move(v, from, to) ==
    /\ state[v] = from
    /\ state' = [state EXCEPT ![v] = to]

Author(v) == Move(v, "None", "Draft")
Discard(v) == Move(v, "Draft", "None")
Submit(v) == Move(v, "Draft", "Review")
ReturnToDraft(v) == Move(v, "Review", "Draft")
InitiateArchiving(v) == Move(v, "Published", "ArchivingReview")
ApproveArchiving(v) == Move(v, "ArchivingReview", "Archived")

\* A cancelled archiving does not resurrect a version that was replaced.
CancelArchiving(v) ==
    /\ \A w \in Versions : state[w] # "Published"
    /\ Move(v, "ArchivingReview", "Published")

\* Approval archives the version in use in the same step.
Publish(v) ==
    /\ state[v] = "Review"
    /\ state' = [w \in Versions |->
                    IF w = v THEN "Published"
                    ELSE IF state[w] = "Published" THEN "Archived" ELSE state[w]]

Next == \E v \in Versions :
    \/ Author(v) \/ Discard(v) \/ Submit(v) \/ ReturnToDraft(v) \/ Publish(v)
    \/ InitiateArchiving(v) \/ ApproveArchiving(v) \/ CancelArchiving(v)

Spec == Init /\ [][Next]_state
=============================================================================
