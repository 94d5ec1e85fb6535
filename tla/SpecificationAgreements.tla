---------------------- MODULE SpecificationAgreements ----------------------
(***************************************************************************)
(* The agreements of one requirements specification, the content they bind *)
(* and the deviations from it (lib/specifications/agreement*.ts,           *)
(* deviation-*.ts, lib/dal/deviations.ts and the content operations of     *)
(* lib/dal/requirements-specifications.ts).                                *)
(*                                                                         *)
(* Every operation is one transaction that first locks the row of the      *)
(* specification and materialises an agreement that is due                 *)
(* (activateDueAgreements); reads do that too.  The materialisation is the *)
(* step Activate, and no other operation is taken while one is due         *)
(* (Settled): a transaction is Activate followed by the operation.         *)
(*                                                                         *)
(* Abstractions.  Time is the day in Stockholm: an agreement for today     *)
(* takes effect at once, a later one at the midnight of its date.  A slot  *)
(* is one requirement of the specification, whose content is a sequence of *)
(* rows (library pin or local text alike); cases of a row are in the order *)
(* of creation, which is that of decision since a row has one undecided    *)
(* case at most (OneUndecided).  Texts, references, notes and identities   *)
(* are left out; permission checks fail before any write.                  *)
(***************************************************************************)
EXTENDS Integers, Sequences, FiniteSets, FiniteSetsExt

CONSTANTS
  Slots,          \* requirements the specification may contain
  MaxAgreements,  \* bound: agreements registered
  MaxRows,        \* bound: content rows of a slot
  Statuses,       \* usage statuses
  MaxCases,       \* bound: deviations of a row
  MaxOpened,      \* bound: deviations of the specification
  MaxDay          \* bound: the last day

ASSUME AgreementAssumption ==
  /\ IsFiniteSet(Slots)
  /\ {"included", "deviated"} \subseteq Statuses
  /\ {MaxAgreements, MaxRows, MaxCases, MaxOpened, MaxDay} \subseteq Nat

Agreements == 1 .. MaxAgreements
Days == 0 .. MaxDay
Forever == MaxDay + 1

Case == [state : {"draft", "review", "approved", "rejected", "cancelled"},
         through : Days \cup {Forever}, renews : 0 .. MaxCases,
         plan : 0 .. MaxAgreements,
         ended : {"no", "content_replaced", "superseded", "closed", "agreement_ended"}]
Row == [live : BOOLEAN, owner : 0 .. MaxAgreements, status : Statuses, cases : Seq(Case)]

VARIABLES
  today,      \* stockholmDate(now)
  agreement,  \* specification_agreements: phase stands for the time columns and
              \* is_pending, is_current
  member,     \* specification_agreement_items: the row bound, 0 is no membership
  frozen,     \* their follow-up snapshots
  content,    \* requirement applications: live is valid_until IS NULL; cases
              \* with the open plan and the first actual ending of each
  midnight    \* history: the follow-up when the day began that an agreement is due

agreementVars == <<today, agreement, member, frozen, content, midnight>>

NoAgreement == [phase |-> "none", date |-> 0, previous |-> 0]
NoMember == [row |-> 0, removed |-> FALSE]
NoSnapshot == [status |-> "none", review |-> <<>>]

AgreementTypeOK ==
  /\ today \in Days
  /\ agreement \in [Agreements ->
       [phase : {"none", "draft", "upcoming", "current", "replaced", "ended", "cancelled"},
        date : Days, previous : 0 .. MaxAgreements]]
  /\ member \in [Agreements -> [Slots -> [row : 0 .. MaxRows, removed : BOOLEAN]]]
  /\ frozen \in [Agreements -> [Slots -> [status : Statuses \cup {"none"}, review : Seq(BOOLEAN)]]]
  /\ content \in [Slots -> Seq(Row)]

AgreementInit ==
  /\ today = 0
  /\ agreement = [a \in Agreements |-> NoAgreement]
  /\ member = [a \in Agreements |-> [s \in Slots |-> NoMember]]
  /\ frozen = [a \in Agreements |-> [s \in Slots |-> NoSnapshot]]
  /\ content = [s \in Slots |-> <<>>]
  /\ midnight = [s \in Slots |-> <<>>]

-----------------------------------------------------------------------------
In(phases) == {a \in Agreements : agreement[a].phase \in phases}
Pending == In({"draft", "upcoming"})
Current == In({"current"})
Uncancelled == In({"draft", "upcoming", "current", "replaced", "ended"})
Activated == In({"current", "replaced", "ended"})

Bound(a, s) == member[a][s].row > 0
Member(a, s, n) == n > 0 /\ member[a][s] = [row |-> n, removed |-> FALSE]
InCurrent(s, n) == \E a \in Current : Member(a, s, n)
Live(s, n) == content[s][n].live
Working(s, n) == Live(s, n) /\ Uncancelled = {}

IsDue(a) == agreement[a].phase = "upcoming" /\ agreement[a].date <= today
Settled == \A a \in Agreements : ~IsDue(a)

Undecided(c) == c.state \in {"draft", "review"}
HasUndecided(row) == \E k \in DOMAIN row.cases : Undecided(row.cases[k])

Approvals(row) == {k \in DOMAIN row.cases : row.cases[k].state = "approved"}
LatestApproval(row) == IF Approvals(row) = {} THEN 0 ELSE Max(Approvals(row))

\* applicableDeviationSql
Applicable(row, k) ==
  /\ k = LatestApproval(row)
  /\ row.cases[k].through >= today
  /\ row.cases[k].ended = "no"

HasPermission(row) == \E k \in Approvals(row) : Applicable(row, k)

-----------------------------------------------------------------------------
(* Endings of approvals. *)

EndCase(c, kind) == IF c.ended = "no" THEN [c EXCEPT !.ended = kind] ELSE c

\* An actual ending of every applicable approval.
EndApplicable(row, kind) ==
  [row EXCEPT !.cases = [k \in DOMAIN row.cases |->
     IF Applicable(row, k) THEN EndCase(row.cases[k], kind) ELSE row.cases[k]]]

\* A planned one, unless agreement a has an open one.
PlanApplicable(row, a) ==
  [row EXCEPT !.cases = [k \in DOMAIN row.cases |->
     IF Applicable(row, k) THEN [row.cases[k] EXCEPT !.plan = a] ELSE row.cases[k]]]

CancelUndecided(row) ==
  [row EXCEPT !.cases = [k \in DOMAIN row.cases |->
     IF Undecided(row.cases[k]) THEN [row.cases[k] EXCEPT !.state = "cancelled"]
     ELSE row.cases[k]]]

\* cancelPlannedDeviationEndings
CancelPlans(row, a) ==
  [row EXCEPT !.cases = [k \in DOMAIN row.cases |->
     IF row.cases[k].plan = a THEN [row.cases[k] EXCEPT !.plan = 0] ELSE row.cases[k]]]

\* What activation does to the plans of an agreement.
CarryOutPlans(row, a) ==
  [row EXCEPT !.cases = [k \in DOMAIN row.cases |->
     IF row.cases[k].plan = a
     THEN [EndCase(row.cases[k], "content_replaced") EXCEPT !.plan = 0]
     ELSE row.cases[k]]]

FollowupOf(row) ==
  [status |-> row.status,
   review |-> [k \in DOMAIN row.cases |-> row.cases[k].state = "review"]]

\* snapshotAgreementFollowup
Snapshot(a) ==
  [frozen EXCEPT ![a] = [s \in Slots |->
     IF Bound(a, s) /\ frozen[a][s] = NoSnapshot THEN FollowupOf(content[s][member[a][s].row])
     ELSE frozen[a][s]]]

\* A copy of a row or its successor: Deviated becomes Included, no case goes along.
NewRow(live, owner, status) ==
  [live |-> live, owner |-> owner, cases |-> <<>>,
   status |-> IF status = "deviated" THEN "included" ELSE status]

Append1(s, row) == [content EXCEPT ![s] = Append(@, row)]
Room(s) == Len(content[s]) < MaxRows

-----------------------------------------------------------------------------
(* The working set, before the first agreement. *)

\* linkRequirementsToSpecification, createSpecificationLocalRequirement.
AddContent(s) ==
  /\ Uncancelled = {} /\ Room(s)
  /\ \A n \in DOMAIN content[s] : ~Live(s, n)
  /\ content' = Append1(s, NewRow(TRUE, 0, "included"))
  /\ UNCHANGED <<today, agreement, member, frozen, midnight>>

\* retireSpecificationApplications: no undecided case; approvals end now.
Retired(row) == [EndApplicable(row, "content_replaced") EXCEPT !.live = FALSE]

RemoveContent(s, n) ==
  LET row == content[s][n] IN
  /\ Working(s, n) /\ row.status = "included" /\ ~HasUndecided(row)
  /\ content' = [content EXCEPT ![s][n] = Retired(row)]
  /\ UNCHANGED <<today, agreement, member, frozen, midnight>>

\* updateSpecificationLocalRequirement, and adopt of a newer version.
ReplaceContent(s, n) ==
  LET row == content[s][n] IN
  /\ Working(s, n) /\ Room(s) /\ ~HasUndecided(row)
  /\ content' = [content EXCEPT ![s] =
       Append([@ EXCEPT ![n] = Retired(row)], NewRow(TRUE, 0, "included"))]
  /\ UNCHANGED <<today, agreement, member, frozen, midnight>>

\* Mutant: follow-up does not materialise an agreement that is due.
MayFollowUpUnsettled(s, n) == InCurrent(s, n) \/ Working(s, n)

\* assertApplicationFollowupAllowed
MayFollowUp(s, n) == Settled /\ (InCurrent(s, n) \/ Working(s, n))

\* updateSpecificationItemFields
FollowUp(s, n, status) ==
  /\ MayFollowUp(s, n)
  /\ content[s][n].status # status
  /\ status = "deviated" => HasPermission(content[s][n])
  /\ content' = [content EXCEPT ![s][n].status = status]
  /\ UNCHANGED <<today, agreement, member, frozen, midnight>>

-----------------------------------------------------------------------------
(* Deviations. *)

\* assertDeviationMutationAllowed
Reviewable(s, n) ==
  (\E a \in Current \cup Pending : Member(a, s, n)) \/ Working(s, n)

\* Mutant: a confirmed agreement does not reserve what it leaves behind.
NeverReserved(s, n) == FALSE

\* The upcoming agreement replaces or removes this content of the current one.
Reserved(s, n) == InCurrent(s, n) /\ \E u \in In({"upcoming"}) : ~Member(u, s, n)

\* assertRenewalTarget: the latest approval, unless it was closed.
RenewalTarget(row) ==
  LET k == LatestApproval(row) IN
  IF k > 0 /\ row.cases[k].ended = "closed" THEN 0 ELSE k

Opened == Cardinality({x \in Slots \X (1 .. MaxRows) \X (1 .. MaxCases) :
                         /\ x[2] \in DOMAIN content[x[1]]
                         /\ x[3] \in DOMAIN content[x[1]][x[2]].cases})

Requested(row) ==
  [row EXCEPT !.cases = Append(row.cases,
     [state |-> "draft", through |-> Forever, renews |-> RenewalTarget(row),
      plan |-> 0, ended |-> "no"])]

CreateDeviation(s, n) ==
  LET row == content[s][n] IN
  /\ Reviewable(s, n) /\ ~Reserved(s, n) /\ ~HasUndecided(row)
  /\ Len(row.cases) < MaxCases /\ Opened < MaxOpened
  /\ content' = [content EXCEPT ![s][n] = Requested(row)]
  /\ UNCHANGED <<today, agreement, member, frozen, midnight>>

Moved(row, k, to) == [row EXCEPT !.cases[k].state = to]

\* The guarded UPDATEs: requestReview, revertToDraft and the rejection.
MoveCase(s, n, k, from, to) ==
  /\ Reviewable(s, n)
  /\ content[s][n].cases[k].state = from
  /\ content' = [content EXCEPT ![s][n] = Moved(content[s][n], k, to)]
  /\ UNCHANGED <<today, agreement, member, frozen, midnight>>

\* recordDecision with preserveApprovalReplacement.
Approved(row, k, through) ==
  LET plans == {row.cases[j].plan : j \in DOMAIN row.cases} \ {0} IN
  [row EXCEPT !.cases = [j \in DOMAIN row.cases |->
     IF j = k
     THEN [row.cases[j] EXCEPT !.state = "approved", !.through = through,
                               !.plan = IF plans = {} THEN 0 ELSE Max(plans)]
     ELSE IF row.cases[j].state = "approved" THEN EndCase(row.cases[j], "superseded")
     ELSE row.cases[j]]]

ApproveDeviation(s, n, k, through) ==
  /\ Reviewable(s, n)
  /\ content[s][n].cases[k].state = "review"
  /\ through >= today
  /\ content' = [content EXCEPT ![s][n] = Approved(content[s][n], k, through)]
  /\ UNCHANGED <<today, agreement, member, frozen, midnight>>

\* cancel_deviation: a removed membership is enough.
CancelDeviation(s, n, k) ==
  /\ Live(s, n) \/ \E a \in Current \cup Pending : member[a][s].row = n
  /\ Undecided(content[s][n].cases[k])
  /\ content' = [content EXCEPT ![s][n] = Moved(content[s][n], k, "cancelled")]
  /\ UNCHANGED <<today, agreement, member, frozen, midnight>>

\* Mutant: an approval is closed while its renewal is under review.
ClosableAnyway(row, k) == Applicable(row, k)

Closable(row, k) == Applicable(row, k) /\ ~HasUndecided(row)

Closed(row, k) == [row EXCEPT !.cases[k] = EndCase(row.cases[k], "closed")]

\* closeApprovedDeviation
CloseDeviation(s, n, k) ==
  /\ Reviewable(s, n)
  /\ content[s][n].cases[k].state = "approved" /\ Closable(content[s][n], k)
  /\ content' = [content EXCEPT ![s][n] = Closed(content[s][n], k)]
  /\ UNCHANGED <<today, agreement, member, frozen, midnight>>

-----------------------------------------------------------------------------
(* Agreements. *)

NextAgreement == CHOOSE a \in In({"none"}) : \A b \in In({"none"}) : a <= b

FreeDate(a, date) == \A b \in Uncancelled \ {a} : agreement[b].date # date

\* Mutant: the content that the agreement leaves behind stays live.
CarriedOutOnly(u, rows) ==
  [s \in Slots |-> [n \in DOMAIN rows[s] |->
     [CarryOutPlans(rows[s][n], u) EXCEPT !.live = @ \/ Member(u, s, n)]]]

\* What activateDueAgreements makes of the content: agreement u's, and no other,
\* is live; u's planned endings take place.
CarriedOut(u, rows) ==
  [s \in Slots |-> [n \in DOMAIN rows[s] |->
     [CarryOutPlans(rows[s][n], u) EXCEPT !.live = Member(u, s, n)]]]

TakeEffect(u, rows, date) ==
  /\ agreement' = [a \in Agreements |->
       IF a = u THEN [agreement[u] EXCEPT !.phase = "current", !.date = date]
       ELSE IF a \in Current THEN [agreement[a] EXCEPT !.phase = "replaced"]
       ELSE agreement[a]]
  /\ frozen' = IF Current = {} THEN frozen ELSE Snapshot(CHOOSE a \in Current : TRUE)
  /\ content' = CarriedOut(u, rows)

Activate(u) ==
  /\ IsDue(u)
  /\ TakeEffect(u, content, agreement[u].date)
  /\ midnight' = [s \in Slots |-> <<>>]
  /\ UNCHANGED <<today, member>>

\* The first agreement binds the working set.
RegisterFirst(date) ==
  LET a == NextAgreement IN
  /\ Uncancelled = {} /\ In({"none"}) # {}
  /\ agreement' = [agreement EXCEPT ![a] =
       [phase |-> IF date > today THEN "upcoming" ELSE "current",
        date |-> date, previous |-> 0]]
  /\ member' = [member EXCEPT ![a] = [s \in Slots |->
       IF \E n \in DOMAIN content[s] : Live(s, n)
       THEN [row |-> CHOOSE n \in DOMAIN content[s] : Live(s, n), removed |-> FALSE]
       ELSE NoMember]]
  /\ UNCHANGED <<today, frozen, content, midnight>>

Preceding ==
  IF Current # {} THEN Max(Current)
  ELSE IF In({"ended"}) # {} THEN Max(In({"ended"})) ELSE 0

\* create_draft: the members of the preceding agreement, or copies of them
\* when that agreement has ended (copyAgreementRequirements).
CreateDraft(date) ==
  LET a == NextAgreement
      p == Preceding
      kept == {s \in Slots : p > 0 /\ Bound(p, s) /\ ~member[p][s].removed}
      copied == {s \in kept : agreement[p].phase = "ended"} IN
  /\ Pending = {} /\ p > 0 /\ In({"none"}) # {}
  /\ date >= today /\ date > agreement[p].date /\ FreeDate(a, date)
  /\ \A s \in copied : Room(s)
  /\ agreement' = [agreement EXCEPT ![a] = [phase |-> "draft", date |-> date, previous |-> p]]
  /\ member' = [member EXCEPT ![a] = [s \in Slots |->
       IF s \in copied THEN [row |-> Len(content[s]) + 1, removed |-> FALSE]
       ELSE IF s \in kept THEN member[p][s] ELSE NoMember]]
  /\ content' = [s \in Slots |->
       IF s \in copied
       THEN Append(content[s], NewRow(FALSE, a, content[s][member[p][s].row].status))
       ELSE content[s]]
  /\ UNCHANGED <<today, frozen, midnight>>

\* add_library, add_local; a removed membership still belongs to the draft.
AddToDraft(d, s) ==
  /\ ~Bound(d, s) /\ Room(s)
  /\ content' = Append1(s, NewRow(FALSE, d, "included"))
  /\ member' = [member EXCEPT ![d][s] = [row |-> Len(content[s]) + 1, removed |-> FALSE]]
  /\ UNCHANGED <<today, agreement, frozen, midnight>>

\* guardAgreementRequirementChange: on shared current content the ending waits
\* for the agreement, on the draft's own it is immediate.
Guarded(d, s, n) ==
  IF InCurrent(s, n) THEN PlanApplicable(content[s][n], d)
  ELSE EndApplicable(content[s][n], "content_replaced")

\* save_requirement, and adopt in a draft.
ChangeInDraft(d, s) ==
  LET n == member[d][s].row IN
  /\ Member(d, s, n) /\ ~HasUndecided(content[s][n]) /\ Room(s)
  /\ content' = [content EXCEPT ![s] =
       Append([@ EXCEPT ![n] = Guarded(d, s, n)], NewRow(FALSE, d, "included"))]
  /\ member' = [member EXCEPT ![d][s].row = Len(content[s]) + 1]
  /\ UNCHANGED <<today, agreement, frozen, midnight>>

RemoveFromDraft(d, s) ==
  LET n == member[d][s].row IN
  /\ Member(d, s, n) /\ ~HasUndecided(content[s][n])
  /\ content[s][n].status = "included"
  /\ content' = [content EXCEPT ![s][n] = Guarded(d, s, n)]
  /\ member' = [member EXCEPT ![d][s].removed = TRUE]
  /\ UNCHANGED <<today, agreement, frozen, midnight>>

\* previous_item_id: the membership of the preceding agreement the row came from.
PreviousRow(d, s) ==
  LET p == agreement[d].previous IN
  IF p > 0 /\ ~member[p][s].removed THEN member[p][s].row ELSE 0

\* Mutant: undoing a change keeps the endings that were planned for it.
KeepPlans(row, d) == row

Unplan(row, d) == CancelPlans(row, d)

\* undo_requirement
UndoInDraft(d, s) ==
  LET n == member[d][s].row
      old == PreviousRow(d, s)
      guard == ~member[d][s].removed /\ n # old
      copied == old > 0 /\ agreement[agreement[d].previous].phase = "ended"
      rows == [k \in DOMAIN content[s] |->
                 Unplan(IF k = n /\ guard THEN EndApplicable(content[s][k], "content_replaced")
                        ELSE content[s][k], d)] IN
  /\ n > 0 /\ (member[d][s].removed \/ n # old)
  /\ guard => ~HasUndecided(content[s][n])
  /\ copied => Room(s)
  /\ content' = [content EXCEPT ![s] =
       IF copied THEN Append(rows, NewRow(FALSE, d, content[s][old].status)) ELSE rows]
  /\ member' = [member EXCEPT ![d][s] =
       IF old = 0 THEN NoMember
       ELSE [row |-> IF copied THEN Len(content[s]) + 1 ELSE old, removed |-> FALSE]]
  /\ UNCHANGED <<today, agreement, frozen, midnight>>

\* discardAgreementDraft: the draft's own content, the last rows of a slot, goes
\* with its cases.
DiscardDraft(d) ==
  /\ content' = [s \in Slots |->
       [n \in {m \in DOMAIN content[s] : content[s][m].owner # d} |->
          CancelPlans(content[s][n], d)]]
  /\ member' = [member EXCEPT ![d] = [s \in Slots |-> NoMember]]
  /\ agreement' = [agreement EXCEPT ![d] = NoAgreement]
  /\ UNCHANGED <<today, frozen, midnight>>

\* readConfirmationDeviations: current content that the draft leaves behind.
LeftBehind(d) ==
  {x \in Slots \X (1 .. MaxRows) :
     /\ InCurrent(x[1], x[2]) /\ Bound(d, x[1])
     /\ PreviousRow(d, x[1]) = x[2] /\ ~Member(d, x[1], x[2])}

\* Mutant: confirmation trusts the checks made while the draft was edited.
NoRecheck(d, s, n) == content[s][n]

\* prepareAgreementConfirmation
Rechecked(d, s, n) ==
  IF <<s, n>> \in LeftBehind(d) THEN PlanApplicable(content[s][n], d) ELSE content[s][n]

ConfirmDraft(d) ==
  LET rows == [s \in Slots |-> [n \in DOMAIN content[s] |-> Rechecked(d, s, n)]] IN
  /\ agreement[d].date >= today
  /\ \A x \in LeftBehind(d) : ~HasUndecided(content[x[1]][x[2]])
  /\ IF agreement[d].date = today
     THEN TakeEffect(d, rows, today)
     ELSE /\ agreement' = [agreement EXCEPT ![d].phase = "upcoming"]
          /\ content' = rows
          /\ UNCHANGED frozen
  /\ UNCHANGED <<today, member, midnight>>

\* correctAgreement, for the date of an agreement that has not taken effect.
CorrectDate(a, date) ==
  /\ date # agreement[a].date /\ date >= today /\ FreeDate(a, date)
  /\ agreement[a].previous > 0 => date > agreement[agreement[a].previous].date
  /\ IF agreement[a].phase = "upcoming" /\ date = today
     THEN TakeEffect(a, content, date)
     ELSE /\ agreement' = [agreement EXCEPT ![a].date = date]
          /\ UNCHANGED <<frozen, content>>
  /\ UNCHANGED <<today, member, midnight>>

\* Without agreement u; undecided cases go, except on shared current content.
Freed(u, s, n) ==
  LET row == CancelPlans(content[s][n], u) IN
  IF member[u][s].row = n /\ ~InCurrent(s, n) THEN CancelUndecided(row) ELSE row

\* The first agreement's content stays with it.
Withdrawn(u, s, n) ==
  IF Activated = {} /\ Member(u, s, n)
  THEN [Freed(u, s, n) EXCEPT !.live = FALSE, !.owner = u] ELSE Freed(u, s, n)

\* cancelUpcomingAgreement: without an agreement before it, the working set
\* comes back as copies.
CancelUpcoming(u) ==
  LET rows == [s \in Slots |-> [n \in DOMAIN content[s] |-> Withdrawn(u, s, n)]]
      copied == {s \in Slots : Activated = {} /\ Bound(u, s) /\ ~member[u][s].removed} IN
  /\ \A s \in copied : Room(s)
  /\ frozen' = Snapshot(u)
  /\ content' = [s \in Slots |->
       IF s \in copied THEN Append(rows[s], NewRow(TRUE, 0, content[s][member[u][s].row].status))
       ELSE rows[s]]
  /\ agreement' = [agreement EXCEPT ![u].phase = "cancelled"]
  /\ UNCHANGED <<today, member, midnight>>

\* endCurrentAgreement, for one row.
EndedRow(a, s, n) ==
  IF member[a][s].row # n THEN content[s][n]
  ELSE [CancelUndecided(IF Member(a, s, n) THEN EndApplicable(content[s][n], "agreement_ended")
                        ELSE content[s][n]) EXCEPT !.live = FALSE]

EndAgreement(a) ==
  /\ Pending = {}
  /\ frozen' = Snapshot(a)
  /\ content' = [s \in Slots |-> [n \in DOMAIN content[s] |-> EndedRow(a, s, n)]]
  /\ agreement' = [agreement EXCEPT ![a].phase = "ended"]
  /\ UNCHANGED <<today, member, midnight>>

NextDay ==
  /\ today < MaxDay
  /\ today' = today + 1
  /\ midnight' =
       IF ~Settled THEN midnight
       ELSE [s \in Slots |->
         IF \E a \in In({"upcoming"}) : agreement[a].date = today + 1
         THEN [n \in DOMAIN content[s] |-> FollowupOf(content[s][n])] ELSE <<>>]
  /\ UNCHANGED <<agreement, member, frozen, content>>

OnContent(s) ==
  \/ AddContent(s)
  \/ \E n \in DOMAIN content[s] :
       \/ RemoveContent(s, n) \/ ReplaceContent(s, n) \/ CreateDeviation(s, n)
       \/ \E k \in DOMAIN content[s][n].cases :
            \/ MoveCase(s, n, k, "draft", "review") \/ MoveCase(s, n, k, "review", "draft")
            \/ MoveCase(s, n, k, "review", "rejected")
            \/ \E t \in {today, Forever} : ApproveDeviation(s, n, k, t)
            \/ CancelDeviation(s, n, k) \/ CloseDeviation(s, n, k)

OnAgreements ==
  \/ \E date \in Days : RegisterFirst(date) \/ CreateDraft(date)
  \/ \E d \in In({"draft"}) :
       \/ \E s \in Slots :
            AddToDraft(d, s) \/ ChangeInDraft(d, s) \/ RemoveFromDraft(d, s) \/ UndoInDraft(d, s)
       \/ DiscardDraft(d) \/ ConfirmDraft(d)
  \/ \E a \in Pending, date \in Days : CorrectDate(a, date)
  \/ \E u \in In({"upcoming"}) : CancelUpcoming(u)
  \/ \E a \in Current : EndAgreement(a)

AgreementNext ==
  \/ NextDay
  \/ \E u \in Agreements : Activate(u)
  \/ \E s \in Slots : \E n \in DOMAIN content[s], status \in Statuses : FollowUp(s, n, status)
  \/ Settled /\ (OnAgreements \/ \E s \in Slots : OnContent(s))

AgreementSpec == AgreementInit /\ [][AgreementNext]_agreementVars

-----------------------------------------------------------------------------
MembersOf(a) == {x \in Slots \X (1 .. MaxRows) : Member(a, x[1], x[2])}
Rows == {x \in Slots \X (1 .. MaxRows) : x[2] \in DOMAIN content[x[1]]}
LiveRows == {x \in Rows : Live(x[1], x[2])}

\* The content that is live is that of one agreement: the current one, or the
\* first while it is upcoming; after an end it is nothing.  In the working set
\* a requirement has one live row at most.
OneContent ==
  /\ \A a \in Current \cup (IF Activated = {} THEN In({"upcoming"}) ELSE {}) :
       LiveRows = MembersOf(a)
  /\ In({"ended"}) # {} /\ Current = {} => LiveRows = {}
  /\ \A x, y \in LiveRows : x[1] = y[1] => x = y

\* Once an agreement is confirmed, what it leaves behind has no undecided
\* deviation, and every approval that still applies there has its ending
\* planned, whatever was requested, approved, renewed, undone or corrected; and
\* no approval of what it keeps is planned to end with it.  Content that an
\* agreement had and the current one does not gives no permission any more and
\* has nothing to decide.
NothingLeftOpen ==
  /\ \A u \in In({"upcoming"}) :
       /\ \A a \in Current : \A x \in MembersOf(a) \ MembersOf(u) :
            LET row == content[x[1]][x[2]] IN
            /\ ~HasUndecided(row)
            /\ \A k \in Approvals(row) : Applicable(row, k) => row.cases[k].plan = u
       /\ \A x \in MembersOf(u) :
            \A k \in DOMAIN content[x[1]][x[2]].cases : content[x[1]][x[2]].cases[k].plan # u
  /\ \A a \in In({"replaced", "ended"}) : \A x \in MembersOf(a) :
       ~InCurrent(x[1], x[2]) =>
         ~HasUndecided(content[x[1]][x[2]]) /\ ~HasPermission(content[x[1]][x[2]])

\* A row has one undecided deviation at most, and a renewal under way is of the
\* approval that is the latest and has not been closed meanwhile.
RenewalsAreCurrent ==
  \A x \in Rows :
    LET row == content[x[1]][x[2]] IN
    \A k \in DOMAIN row.cases : Undecided(row.cases[k]) =>
      /\ k = Len(row.cases)
      /\ row.cases[k].renews = RenewalTarget(row)

\* What a replaced agreement froze is the follow-up at the midnight it was
\* replaced, however late that was noticed, and nothing frozen changes; a
\* decided deviation is never decided again and its ending is never taken back,
\* as long as its content exists.
HistoryStands ==
  [][/\ \A u \in Agreements : IsDue(u) /\ agreement'[u].phase = "current" =>
          \A a \in Current : \A x \in MembersOf(a) :
            frozen'[a][x[1]] = midnight[x[1]][x[2]]
     /\ \A a \in Agreements, s \in Slots :
          frozen[a][s] # NoSnapshot => frozen'[a][s] = frozen[a][s]
     /\ \A s \in Slots : \A n \in DOMAIN content[s] \cap DOMAIN content'[s] :
          \A k \in DOMAIN content[s][n].cases :
            LET c == content[s][n].cases[k]
                d == content'[s][n].cases[k] IN
            ~Undecided(c) => /\ d.state = c.state /\ d.through = c.through
                             /\ c.ended # "no" => d.ended = c.ended]_agreementVars

Due == {u \in Agreements : IsDue(u)}
NotYetDue == In({"upcoming"}) \ Due

Agreed == INSTANCE AgreedContent WITH
  Content <- Slots \X (1 .. MaxRows), LastDay <- MaxDay, day <- today,
  inForce <- IF Due # {} THEN MembersOf(CHOOSE u \in Due : TRUE) ELSE LiveRows,
  plan <- {[date |-> agreement[u].date, set |-> MembersOf(u)] : u \in NotYetDue},
  bound <- Activated \cup Due # {}

\* The content in force is the agreed one on every day (AgreedContent):
\* materialising an agreement late is a step nobody can see.
ImplementsAgreedContent == Agreed!Spec
=============================================================================
