-------------------------- MODULE AgreementProofs --------------------------
(***************************************************************************)
(* What the agreements of a specification guarantee for every number of    *)
(* requirements, agreements, rows, deviations and days.                    *)
(***************************************************************************)
EXTENDS SpecificationAgreements, FiniteSetTheorems, WellFoundedInduction, TLAPS

-----------------------------------------------------------------------------
(***************************************************************************)
(* Largest and smallest numbers.                                           *)
(***************************************************************************)
LEMMA Smallest ==
  ASSUME NEW S \in SUBSET Nat, S # {}
  PROVE  \E x \in S : \A y \in S : x <= y
<1>1. PICK x \in S : \A y \in S : ~(<<y, x>> \in OpToRel(<, Nat))
  BY NatLessThanWellFounded, WFMin
<1>2. \A y \in S : ~(y < x)
  BY <1>1 DEF OpToRel
<1> QED
  BY <1>2

LEMMA Largest ==
  ASSUME NEW n \in Nat, NEW S \in SUBSET (0 .. n), S # {}
  PROVE  Max(S) \in S /\ \A y \in S : y <= Max(S)
<1> DEFINE T == {n - x : x \in S}
<1>1. T \in SUBSET Nat /\ T # {}
  OBVIOUS
<1> HIDE DEF T
<1>2. PICK t \in T : \A y \in T : t <= y
  BY <1>1, Smallest
<1>3. PICK m \in S : t = n - m
  BY <1>2 DEF T
<1>4. \A y \in S : m >= y
  <2> TAKE y \in S
  <2>1. n - y \in T
    BY DEF T
  <2>2. n - m <= n - y
    BY <1>2, <1>3, <2>1
  <2> QED
    BY <2>2
<1>5. Max(S) \in S /\ \A y \in S : Max(S) >= y
  BY <1>3, <1>4 DEF Max
<1> QED
  BY <1>5

-----------------------------------------------------------------------------
(***************************************************************************)
(* Rows and their deviations.                                              *)
(***************************************************************************)
\* A row has one undecided deviation at most, the latest, and it renews the
\* latest approval, unless that was closed.
Renewing(row) ==
  \A k \in DOMAIN row.cases : Undecided(row.cases[k]) =>
    k = Len(row.cases) /\ row.cases[k].renews = RenewalTarget(row)

GoodRow == {row \in Row : Len(row.cases) <= MaxCases /\ Renewing(row)}

\* A decided deviation stays as decided, and ended as it ended.
CaseStands(c, d) ==
  ~Undecided(c) => /\ d.state = c.state /\ d.through = c.through
                   /\ c.ended # "no" => d.ended = c.ended

\* Nothing is approved, requested or closed.
CaseStep(c, d) ==
  /\ d \in Case /\ d.renews = c.renews
  /\ d.ended = "closed" <=> c.ended = "closed"
  /\ d.state = c.state \/ (Undecided(c) /\ d.state # "approved")
  /\ CaseStands(c, d)

Gentle(r, q) ==
  /\ q \in Row /\ Len(q.cases) = Len(r.cases)
  /\ \A k \in 1 .. Len(r.cases) : CaseStep(r.cases[k], q.cases[k])

Stands(r, q) ==
  \A k \in DOMAIN r.cases : k \in DOMAIN q.cases /\ CaseStands(r.cases[k], q.cases[k])

LEMMA RowParts ==
  ASSUME NEW r \in Row
  PROVE  /\ r.cases \in Seq(Case) /\ Len(r.cases) \in Nat
         /\ DOMAIN r.cases = 1 .. Len(r.cases)
         /\ \A k \in 1 .. Len(r.cases) : r.cases[k] \in Case
         /\ r.live \in BOOLEAN /\ r.owner \in 0 .. MaxAgreements /\ r.status \in Statuses
  BY DEF Row

LEMMA SameApprovals ==
  ASSUME NEW r \in Row, NEW q \in Row, Len(q.cases) = Len(r.cases),
         \A k \in 1 .. Len(r.cases) :
           /\ q.cases[k].state = "approved" <=> r.cases[k].state = "approved"
           /\ q.cases[k].ended = "closed" <=> r.cases[k].ended = "closed"
  PROVE  RenewalTarget(q) = RenewalTarget(r)
<1>1. Approvals(q) = Approvals(r)
  BY RowParts DEF Approvals
<1>2. LatestApproval(q) = LatestApproval(r)
  BY <1>1 DEF LatestApproval
<1>3. CASE Approvals(r) = {}
  BY <1>2, <1>3 DEF LatestApproval, RenewalTarget
<1>4. CASE Approvals(r) # {}
  <2>1. Approvals(r) \in SUBSET (0 .. Len(r.cases)) /\ Approvals(r) \subseteq 1 .. Len(r.cases)
    BY RowParts DEF Approvals
  <2>2. Max(Approvals(r)) \in Approvals(r)
    BY <1>4, <2>1, Largest, RowParts
  <2>3. LatestApproval(r) \in 1 .. Len(r.cases)
    BY <1>4, <2>1, <2>2 DEF LatestApproval
  <2> QED
    BY <1>2, <2>3 DEF RenewalTarget
<1> QED
  BY <1>3, <1>4

LEMMA GentleGood ==
  ASSUME NEW r \in GoodRow, NEW q, Gentle(r, q)
  PROVE  q \in GoodRow /\ Stands(r, q)
<1>1. r \in Row /\ q \in Row /\ Len(q.cases) = Len(r.cases) /\ Len(r.cases) <= MaxCases
  BY DEF Gentle, GoodRow
<1>2. /\ DOMAIN r.cases = 1 .. Len(r.cases) /\ DOMAIN q.cases = 1 .. Len(r.cases)
      /\ \A k \in 1 .. Len(r.cases) : r.cases[k] \in Case /\ q.cases[k] \in Case
  BY <1>1, RowParts
<1>3. \A k \in 1 .. Len(r.cases) : CaseStep(r.cases[k], q.cases[k])
  BY DEF Gentle
<1>4. RenewalTarget(q) = RenewalTarget(r)
  <2>1. \A k \in 1 .. Len(r.cases) :
          /\ q.cases[k].state = "approved" <=> r.cases[k].state = "approved"
          /\ q.cases[k].ended = "closed" <=> r.cases[k].ended = "closed"
    BY <1>3 DEF CaseStep, Undecided
  <2> QED
    BY <1>1, <2>1, SameApprovals
<1>5. Renewing(q)
  <2> SUFFICES ASSUME NEW k \in DOMAIN q.cases, Undecided(q.cases[k])
               PROVE  k = Len(q.cases) /\ q.cases[k].renews = RenewalTarget(q)
    BY DEF Renewing
  <2>1. Undecided(r.cases[k]) /\ q.cases[k].renews = r.cases[k].renews
    BY <1>2, <1>3 DEF CaseStep, Undecided
  <2> QED
    BY <1>1, <1>2, <1>4, <2>1 DEF GoodRow, Renewing
<1> QED
  BY <1>1, <1>2, <1>3, <1>5 DEF GoodRow, Stands, CaseStep

LEMMA GentleTwice ==
  ASSUME NEW r \in Row, NEW q, NEW p, Gentle(r, q), Gentle(q, p)
  PROVE  Gentle(r, p)
<1>1. \A k \in 1 .. Len(r.cases) : CaseStep(r.cases[k], p.cases[k])
  <2> TAKE k \in 1 .. Len(r.cases)
  <2>1. CaseStep(r.cases[k], q.cases[k]) /\ CaseStep(q.cases[k], p.cases[k])
    BY DEF Gentle
  <2> QED
    BY <2>1 DEF CaseStep, CaseStands, Undecided
<1> QED
  BY <1>1 DEF Gentle

LEMMA SameCase == ASSUME NEW c \in Case PROVE CaseStep(c, c)
  BY DEF CaseStep, CaseStands

LEMMA SameRow == ASSUME NEW r \in Row PROVE Gentle(r, r)
  BY SameCase, RowParts DEF Gentle

\* A row whose deviations are rewritten one by one.
LEMMA RewriteCases ==
  ASSUME NEW r \in Row, NEW f, f = [k \in DOMAIN r.cases |-> f[k]],
         \A k \in DOMAIN r.cases : CaseStep(r.cases[k], f[k])
  PROVE  LET q == [r EXCEPT !.cases = f]
         IN  Gentle(r, q) /\ q.live = r.live /\ q.owner = r.owner /\ q.status = r.status
<1> DEFINE q == [r EXCEPT !.cases = f]
<1>1. DOMAIN r.cases = 1 .. Len(r.cases) /\ Len(r.cases) \in Nat
  BY RowParts
<1>2. \A k \in 1 .. Len(r.cases) : f[k] \in Case
  BY <1>1 DEF CaseStep
<1>3. f \in Seq(Case) /\ Len(f) = Len(r.cases)
  BY <1>1, <1>2
<1>4. q.cases = f /\ q.live = r.live /\ q.owner = r.owner /\ q.status = r.status /\ q \in Row
  BY <1>3 DEF Row
<1> QED
  BY <1>1, <1>3, <1>4 DEF Gentle

\* A row rewritten beside its deviations.
LEMMA RewriteRow ==
  ASSUME NEW r \in Row, NEW q \in Row, q.cases = r.cases
  PROVE  Gentle(r, q)
  BY SameCase, RowParts DEF Gentle

\* The ways in which a row changes and keeps where it belongs.
Kept(r, q) == Gentle(r, q) /\ q.live = r.live /\ q.owner = r.owner

LEMMA EndedCase ==
  ASSUME NEW c \in Case, NEW kind \in {"content_replaced", "superseded", "agreement_ended"}
  PROVE  CaseStep(c, EndCase(c, kind))
<1>1. CASE c.ended = "no"
  BY <1>1 DEF EndCase, CaseStep, CaseStands, Case
<1>2. CASE c.ended # "no"
  BY <1>2, SameCase DEF EndCase
<1> QED
  BY <1>1, <1>2

LEMMA EndKeeps ==
  ASSUME NEW r \in Row, NEW kind \in {"content_replaced", "superseded", "agreement_ended"}
  PROVE  Kept(r, EndApplicable(r, kind)) /\ EndApplicable(r, kind).status = r.status
<1> DEFINE f == [k \in DOMAIN r.cases |->
                   IF Applicable(r, k) THEN EndCase(r.cases[k], kind) ELSE r.cases[k]]
<1>1. \A k \in DOMAIN r.cases : CaseStep(r.cases[k], f[k])
  <2> TAKE k \in DOMAIN r.cases
  <2>1. r.cases[k] \in Case
    BY RowParts
  <2> QED
    BY <2>1, EndedCase, SameCase
<1>2. f = [k \in DOMAIN r.cases |-> f[k]]
  OBVIOUS
<1>3. EndApplicable(r, kind) = [r EXCEPT !.cases = f]
  BY DEF EndApplicable
<1> HIDE DEF f
<1> QED
  BY <1>1, <1>2, <1>3, RewriteCases DEF Kept

LEMMA PlanKeeps ==
  ASSUME NEW r \in Row, NEW a \in Agreements
  PROVE  Kept(r, PlanApplicable(r, a))
<1> DEFINE f == [k \in DOMAIN r.cases |->
                   IF Applicable(r, k) THEN [r.cases[k] EXCEPT !.plan = a] ELSE r.cases[k]]
<1>1. \A k \in DOMAIN r.cases : CaseStep(r.cases[k], f[k])
  <2> TAKE k \in DOMAIN r.cases
  <2>1. r.cases[k] \in Case
    BY RowParts
  <2>2. CaseStep(r.cases[k], [r.cases[k] EXCEPT !.plan = a])
    BY <2>1 DEF CaseStep, CaseStands, Case, Agreements
  <2> QED
    BY <2>1, <2>2, SameCase
<1>2. f = [k \in DOMAIN r.cases |-> f[k]]
  OBVIOUS
<1>3. PlanApplicable(r, a) = [r EXCEPT !.cases = f]
  BY DEF PlanApplicable
<1> HIDE DEF f
<1> QED
  BY <1>1, <1>2, <1>3, RewriteCases DEF Kept

LEMMA CancelKeeps ==
  ASSUME NEW r \in Row
  PROVE  Kept(r, CancelUndecided(r))
<1> DEFINE f == [k \in DOMAIN r.cases |->
                   IF Undecided(r.cases[k]) THEN [r.cases[k] EXCEPT !.state = "cancelled"]
                   ELSE r.cases[k]]
<1>1. \A k \in DOMAIN r.cases : CaseStep(r.cases[k], f[k])
  <2> TAKE k \in DOMAIN r.cases
  <2>1. r.cases[k] \in Case
    BY RowParts
  <2>2. Undecided(r.cases[k]) => CaseStep(r.cases[k], [r.cases[k] EXCEPT !.state = "cancelled"])
    BY <2>1 DEF CaseStep, CaseStands, Case, Undecided
  <2> QED
    BY <2>1, <2>2, SameCase
<1>2. f = [k \in DOMAIN r.cases |-> f[k]]
  OBVIOUS
<1>3. CancelUndecided(r) = [r EXCEPT !.cases = f]
  BY DEF CancelUndecided
<1> HIDE DEF f
<1> QED
  BY <1>1, <1>2, <1>3, RewriteCases DEF Kept

LEMMA UnplanKeeps ==
  ASSUME NEW r \in Row, NEW a
  PROVE  Kept(r, CancelPlans(r, a)) /\ CancelPlans(r, a).status = r.status
<1> DEFINE f == [k \in DOMAIN r.cases |->
                   IF r.cases[k].plan = a THEN [r.cases[k] EXCEPT !.plan = 0] ELSE r.cases[k]]
<1>1. \A k \in DOMAIN r.cases : CaseStep(r.cases[k], f[k])
  <2> TAKE k \in DOMAIN r.cases
  <2>1. r.cases[k] \in Case
    BY RowParts
  <2>2. CaseStep(r.cases[k], [r.cases[k] EXCEPT !.plan = 0])
    BY <2>1, AgreementAssumption DEF CaseStep, CaseStands, Case
  <2> QED
    BY <2>1, <2>2, SameCase
<1>2. f = [k \in DOMAIN r.cases |-> f[k]]
  OBVIOUS
<1>3. CancelPlans(r, a) = [r EXCEPT !.cases = f]
  BY DEF CancelPlans
<1> HIDE DEF f
<1> QED
  BY <1>1, <1>2, <1>3, RewriteCases DEF Kept

LEMMA CarryOutKeeps ==
  ASSUME NEW r \in Row, NEW a
  PROVE  Kept(r, CarryOutPlans(r, a))
<1> DEFINE g(k) == [EndCase(r.cases[k], "content_replaced") EXCEPT !.plan = 0]
           f == [k \in DOMAIN r.cases |-> IF r.cases[k].plan = a THEN g(k) ELSE r.cases[k]]
<1>1. \A k \in DOMAIN r.cases : CaseStep(r.cases[k], f[k])
  <2> TAKE k \in DOMAIN r.cases
  <2>1. r.cases[k] \in Case
    BY RowParts
  <2>2. CaseStep(r.cases[k], EndCase(r.cases[k], "content_replaced"))
    BY <2>1, EndedCase
  <2>3. CaseStep(r.cases[k], g(k))
    BY <2>1, <2>2, AgreementAssumption DEF CaseStep, CaseStands, Case
  <2> QED
    BY <2>1, <2>3, SameCase
<1>2. f = [k \in DOMAIN r.cases |-> f[k]]
  OBVIOUS
<1>3. CarryOutPlans(r, a) = [r EXCEPT !.cases = f]
  BY DEF CarryOutPlans
<1> HIDE DEF f
<1> QED
  BY <1>1, <1>2, <1>3, RewriteCases DEF Kept

\* What every operation on a row guarantees.
Rewritten(r, q) == q \in GoodRow /\ Stands(r, q) /\ q.live = r.live /\ q.owner = r.owner

LEMMA KeptRewritten ==
  ASSUME NEW r \in GoodRow, NEW q, Kept(r, q)
  PROVE  Rewritten(r, q)
  BY GentleGood DEF Kept, Rewritten

\* One deviation rewritten.
LEMMA RewriteCase ==
  ASSUME NEW r \in Row, NEW k \in DOMAIN r.cases, NEW d \in Case
  PROVE  LET q == [r EXCEPT !.cases[k] = d]
         IN  /\ q \in Row /\ q.live = r.live /\ q.owner = r.owner
             /\ q.cases \in Seq(Case) /\ Len(q.cases) = Len(r.cases)
             /\ DOMAIN q.cases = DOMAIN r.cases
             /\ \A j \in DOMAIN r.cases : q.cases[j] = IF j = k THEN d ELSE r.cases[j]
<1> DEFINE f == [r.cases EXCEPT ![k] = d]
           q == [r EXCEPT !.cases[k] = d]
<1>1. f \in Seq(Case) /\ Len(f) = Len(r.cases) /\ DOMAIN f = DOMAIN r.cases
  BY RowParts
<1>2. q = [r EXCEPT !.cases = f]
  OBVIOUS
<1>3. q.cases = f /\ q.live = r.live /\ q.owner = r.owner /\ q.status = r.status /\ q \in Row
  BY <1>1, <1>2 DEF Row
<1>4. \A j \in DOMAIN r.cases : f[j] = IF j = k THEN d ELSE r.cases[j]
  BY RowParts
<1> QED
  BY <1>1, <1>3, <1>4

LEMMA MovedGood ==
  ASSUME NEW r \in GoodRow, NEW k \in DOMAIN r.cases, Undecided(r.cases[k]),
         NEW to \in {"draft", "review", "rejected", "cancelled"}
  PROVE  Rewritten(r, Moved(r, k, to))
<1> DEFINE d == [r.cases[k] EXCEPT !.state = to]
           q == [r EXCEPT !.cases[k] = d]
<1>1. r \in Row /\ r.cases[k] \in Case
  BY RowParts DEF GoodRow
<1>2. CaseStep(r.cases[k], d)
  BY <1>1 DEF CaseStep, CaseStands, Case
<1>3. d \in Case
  BY <1>2 DEF CaseStep
<1>4. Moved(r, k, to) = q
  BY <1>1 DEF Moved
<1> HIDE DEF d
<1>5. Kept(r, q)
  <2>1. \A j \in 1 .. Len(r.cases) : CaseStep(r.cases[j], q.cases[j])
    BY <1>1, <1>2, <1>3, RewriteCase, SameCase, RowParts
  <2> QED
    BY <1>1, <1>3, <2>1, RewriteCase DEF Kept, Gentle
<1> QED
  BY <1>4, <1>5, KeptRewritten

LEMMA ClosedGood ==
  ASSUME NEW r \in GoodRow, NEW k \in DOMAIN r.cases, ~HasUndecided(r)
  PROVE  Rewritten(r, Closed(r, k))
<1> DEFINE d == EndCase(r.cases[k], "closed")
           q == Closed(r, k)
<1>1. r \in Row /\ r.cases[k] \in Case /\ Len(r.cases) <= MaxCases
  BY RowParts DEF GoodRow
<1>2. d \in Case /\ d.state = r.cases[k].state /\ CaseStands(r.cases[k], d)
  BY <1>1 DEF EndCase, Case, CaseStands
<1>3. q = [r EXCEPT !.cases[k] = d]
  BY DEF Closed
<1> HIDE DEF d, q
<1>4. /\ q \in Row /\ q.live = r.live /\ q.owner = r.owner /\ Len(q.cases) = Len(r.cases)
      /\ DOMAIN q.cases = DOMAIN r.cases
      /\ \A j \in DOMAIN r.cases : q.cases[j] = IF j = k THEN d ELSE r.cases[j]
  BY <1>1, <1>2, <1>3, RewriteCase
<1>5. \A j \in DOMAIN q.cases : ~Undecided(q.cases[j])
  BY <1>2, <1>4 DEF HasUndecided, Undecided
<1>6. Stands(r, q)
  BY <1>2, <1>4 DEF Stands, CaseStands
<1>7. q \in GoodRow
  BY <1>1, <1>4, <1>5 DEF GoodRow, Renewing
<1> QED
  BY <1>4, <1>6, <1>7 DEF Rewritten, q

LEMMA ApprovalRange ==
  ASSUME NEW r \in Row
  PROVE  RenewalTarget(r) \in 0 .. Len(r.cases)
<1>1. CASE Approvals(r) = {}
  BY <1>1, RowParts DEF RenewalTarget, LatestApproval
<1>2. CASE Approvals(r) # {}
  <2>1. Approvals(r) \in SUBSET (0 .. Len(r.cases)) /\ Len(r.cases) \in Nat
    BY RowParts DEF Approvals
  <2>2. Max(Approvals(r)) \in 0 .. Len(r.cases)
    BY <1>2, <2>1, Largest
  <2> QED
    BY <1>2, <2>1, <2>2 DEF RenewalTarget, LatestApproval
<1> QED
  BY <1>1, <1>2

LEMMA RequestedGood ==
  ASSUME NEW r \in GoodRow, ~HasUndecided(r), Len(r.cases) < MaxCases
  PROVE  Rewritten(r, Requested(r))
<1> DEFINE c == [state |-> "draft", through |-> Forever, renews |-> RenewalTarget(r),
                 plan |-> 0, ended |-> "no"]
           f == Append(r.cases, c)
           q == Requested(r)
           n == Len(r.cases)
<1>1. r \in Row /\ r.cases \in Seq(Case) /\ n \in Nat /\ DOMAIN r.cases = 1 .. n
  BY RowParts DEF GoodRow
<1>2. c \in Case
  <2>1. RenewalTarget(r) \in 0 .. MaxCases
    BY <1>1, ApprovalRange, AgreementAssumption
  <2> QED
    BY <2>1, AgreementAssumption DEF Case
<1>3. f \in Seq(Case) /\ Len(f) = n + 1 /\ DOMAIN f = 1 .. n + 1 /\ f[n + 1] = c
      /\ \A k \in 1 .. n : f[k] = r.cases[k]
  BY <1>1, <1>2
<1>4. q = [r EXCEPT !.cases = f]
  BY DEF Requested
<1>5. c.state = "draft" /\ c.renews = RenewalTarget(r)
  OBVIOUS
<1> HIDE DEF c, f, q
<1>6. q \in Row /\ q.cases = f /\ q.live = r.live /\ q.owner = r.owner
  BY <1>1, <1>3, <1>4 DEF Row
<1>7. RenewalTarget(q) = RenewalTarget(r)
  <2>1. Approvals(q) = Approvals(r)
    BY <1>1, <1>3, <1>5, <1>6 DEF Approvals
  <2>2. LatestApproval(q) = LatestApproval(r)
    BY <2>1 DEF LatestApproval
  <2>3. CASE Approvals(r) = {}
    BY <2>2, <2>3 DEF LatestApproval, RenewalTarget
  <2>4. CASE Approvals(r) # {}
    <3>1. Approvals(r) \in SUBSET (0 .. n) /\ Approvals(r) \subseteq 1 .. n
      BY <1>1 DEF Approvals
    <3>2. LatestApproval(r) \in 1 .. n
      BY <1>1, <2>4, <3>1, Largest DEF LatestApproval
    <3> QED
      BY <1>3, <1>6, <2>2, <3>2 DEF RenewalTarget
  <2> QED
    BY <2>3, <2>4
<1>8. Renewing(q)
  BY <1>1, <1>3, <1>5, <1>6, <1>7 DEF Renewing, HasUndecided
<1>9. q \in GoodRow
  BY <1>1, <1>3, <1>6, <1>8, AgreementAssumption DEF GoodRow
<1>10. Stands(r, q)
  BY <1>1, <1>3, <1>6 DEF Stands, CaseStands
<1> QED
  BY <1>6, <1>9, <1>10 DEF Rewritten, q

LEMMA ApprovedGood ==
  ASSUME NEW r \in GoodRow, NEW k \in DOMAIN r.cases, Undecided(r.cases[k]),
         NEW through \in Days \cup {Forever}
  PROVE  Rewritten(r, Approved(r, k, through))
<1> DEFINE plans == {r.cases[j].plan : j \in DOMAIN r.cases} \ {0}
           plan == IF plans = {} THEN 0 ELSE Max(plans)
           e == [r.cases[k] EXCEPT !.state = "approved", !.through = through, !.plan = plan]
           f == [j \in DOMAIN r.cases |->
                   IF j = k THEN e
                   ELSE IF r.cases[j].state = "approved" THEN EndCase(r.cases[j], "superseded")
                   ELSE r.cases[j]]
           q == Approved(r, k, through)
<1>1. /\ r \in Row /\ DOMAIN r.cases = 1 .. Len(r.cases) /\ Len(r.cases) \in Nat
      /\ \A j \in DOMAIN r.cases : r.cases[j] \in Case
  BY RowParts DEF GoodRow
<1>2. plan \in 0 .. MaxAgreements
  <2>1. plans \in SUBSET (0 .. MaxAgreements) /\ MaxAgreements \in Nat
    BY <1>1, AgreementAssumption DEF Case
  <2> HIDE DEF plans
  <2>2. plans # {} => Max(plans) \in 0 .. MaxAgreements
    BY <2>1, Largest
  <2> QED
    BY <2>1, <2>2
<1>5. q = [r EXCEPT !.cases = f]
  BY DEF Approved
<1> HIDE DEF plan
<1>3. e \in Case /\ e.state = "approved"
  BY <1>1, <1>2 DEF Case
<1> HIDE DEF e
<1>4. \A j \in DOMAIN r.cases : f[j] \in Case /\ CaseStands(r.cases[j], f[j]) /\ ~Undecided(f[j])
  <2> TAKE j \in DOMAIN r.cases
  <2>1. CASE j = k
    BY <1>3, <2>1 DEF CaseStands, Undecided
  <2>2. CASE j # k
    <3>1. ~Undecided(r.cases[j])
      BY <1>1, <2>2 DEF GoodRow, Renewing
    <3>2. CaseStep(r.cases[j], EndCase(r.cases[j], "superseded"))
      BY <1>1, EndedCase
    <3>3. CaseStep(r.cases[j], r.cases[j])
      BY <1>1, SameCase
    <3> QED
      BY <2>2, <3>1, <3>2, <3>3 DEF CaseStep, Undecided
  <2> QED
    BY <2>1, <2>2
<1>10. f = [j \in DOMAIN r.cases |-> f[j]]
  OBVIOUS
<1> HIDE DEF f, q
<1>11. \A j \in 1 .. Len(r.cases) : f[j] \in Case
  BY <1>1, <1>4
<1>12. f = [j \in 1 .. Len(r.cases) |-> f[j]] /\ Len(r.cases) \in Nat
  BY <1>1, <1>10
<1>6. f \in Seq(Case) /\ Len(f) = Len(r.cases) /\ DOMAIN f = DOMAIN r.cases
  BY <1>1, <1>11, <1>12
<1>7. q \in Row /\ q.cases = f /\ q.live = r.live /\ q.owner = r.owner
  BY <1>1, <1>5, <1>6 DEF Row
<1>8. q \in GoodRow
  BY <1>4, <1>6, <1>7 DEF GoodRow, Renewing
<1>9. Stands(r, q)
  BY <1>4, <1>6, <1>7 DEF Stands
<1> QED
  BY <1>7, <1>8, <1>9 DEF Rewritten, q

LEMMA NewGood ==
  ASSUME NEW live \in BOOLEAN, NEW owner \in 0 .. MaxAgreements, NEW status \in Statuses
  PROVE  /\ NewRow(live, owner, status) \in GoodRow
         /\ NewRow(live, owner, status).live = live
         /\ NewRow(live, owner, status).owner = owner
<1> DEFINE q == NewRow(live, owner, status)
<1>1. q.cases = <<>> /\ q.live = live /\ q.owner = owner /\ q \in Row
  BY AgreementAssumption DEF NewRow, Row
<1> HIDE DEF q
<1> QED
  BY <1>1, AgreementAssumption DEF GoodRow, Renewing, q

-----------------------------------------------------------------------------
(***************************************************************************)
(* The invariant.                                                          *)
(***************************************************************************)
Contents ==
  /\ content \in [Slots -> Seq(GoodRow)]
  /\ \A s \in Slots : Len(content[s]) <= MaxRows

\* One agreement is pending and one current at most; a draft, and whatever took
\* effect, follows on an agreement that is current or ended.
PhasesFit(ag) ==
  /\ \A a, b \in Agreements :
       {ag[a].phase, ag[b].phase} \subseteq {"draft", "upcoming"} => a = b
  /\ \A a, b \in Agreements : ag[a].phase = "current" /\ ag[b].phase = "current" => a = b
  /\ \A a \in Agreements : ag[a].phase \in {"draft", "current", "replaced", "ended"} =>
       \E b \in Agreements : ag[b].phase \in {"current", "ended"}
  /\ \A a \in Agreements : ag[a].previous > 0 =>
       ag[ag[a].previous].phase \in {"current", "replaced", "ended"}

\* Content belongs to an agreement that exists; a draft's is the last of its
\* slot, and not live.
OwnersFit(ag, con) ==
  \A s \in Slots : \A n \in DOMAIN con[s] : con[s][n].owner > 0 =>
    /\ ag[con[s][n].owner].phase # "none"
    /\ ag[con[s][n].owner].phase = "draft" =>
         /\ ~con[s][n].live
         /\ \A m \in DOMAIN con[s] : m >= n => con[s][m].owner = con[s][n].owner

\* The content of a draft is bound by that draft only.
BindingsFit(ag, mem, con) ==
  \A a \in Agreements, s \in Slots : mem[a][s].row > 0 =>
    /\ mem[a][s].row \in DOMAIN con[s]
    /\ LET o == con[s][mem[a][s].row].owner IN o > 0 /\ ag[o].phase = "draft" => o = a

\* A snapshot is taken when an agreement leaves.
FrozenFits(ag, fr) ==
  \A a \in Agreements : ag[a].phase \in {"none", "draft", "upcoming", "current"} =>
    \A s \in Slots : fr[a][s] = NoSnapshot

\* While an agreement is due the follow-up is that of the midnight.
MidnightFits(ag, day, con, mid) ==
  \A u \in Agreements : ag[u].phase = "upcoming" /\ ag[u].date <= day =>
    \A s \in Slots : \A n \in DOMAIN con[s] : mid[s][n] = FollowupOf(con[s][n])

Reigns(ag, a) ==
  \/ ag[a].phase = "current"
  \/ ag[a].phase = "upcoming" /\ \A b \in Agreements : ag[b].phase \notin {"current", "replaced", "ended"}

\* OneContent, row by row.
LiveFits(ag, mem, con) ==
  /\ \A a \in Agreements : Reigns(ag, a) =>
       \A s \in Slots : \A n \in DOMAIN con[s] :
         con[s][n].live <=> mem[a][s] = [row |-> n, removed |-> FALSE]
  /\ /\ \E a \in Agreements : ag[a].phase = "ended"
     /\ \A a \in Agreements : ag[a].phase # "current"
     => \A s \in Slots : \A n \in DOMAIN con[s] : ~con[s][n].live
  /\ \A s \in Slots : \A n, m \in DOMAIN con[s] : con[s][n].live /\ con[s][m].live => n = m

Phases == PhasesFit(agreement)
Owners == OwnersFit(agreement, content)
Bindings == BindingsFit(agreement, member, content)
Snapshots == FrozenFits(agreement, frozen)
Midnights == MidnightFits(agreement, today, content, midnight)
Lives == LiveFits(agreement, member, content)

AgreementIInv ==
  AgreementTypeOK /\ Contents /\ Phases /\ Owners /\ Bindings /\ Snapshots /\ Midnights /\ Lives

-----------------------------------------------------------------------------
(***************************************************************************)
(* The content of a slot.                                                  *)
(***************************************************************************)
\* The new content has the old rows, in their places, and possibly more.
Extends(old, new) ==
  /\ new \in Seq(GoodRow) /\ Len(new) <= MaxRows
  /\ \A n \in DOMAIN old : n \in DOMAIN new /\ Stands(old[n], new[n])

SameOwners(old, new) == \A n \in DOMAIN old : new[n].owner = old[n].owner
SameLives(old, new) == \A n \in DOMAIN old : new[n].live = old[n].live

Added(old, new, owner, live) ==
  \A n \in DOMAIN new \ DOMAIN old :
    /\ new[n].owner = owner /\ new[n].live = live
    /\ \A m \in DOMAIN old : m < n

Quiet(old, new) ==
  Extends(old, new) /\ SameOwners(old, new) /\ SameLives(old, new) /\ DOMAIN new = DOMAIN old

LEMMA StandsSame == ASSUME NEW r PROVE Stands(r, r)
  BY DEF Stands, CaseStands

LEMMA MapRows ==
  ASSUME NEW S, NEW T, NEW old \in Seq(T), NEW f, f = [n \in DOMAIN old |-> f[n]],
         \A n \in DOMAIN old : f[n] \in S
  PROVE  f \in Seq(S) /\ Len(f) = Len(old) /\ DOMAIN f = DOMAIN old
<1>1. DOMAIN old = 1 .. Len(old) /\ Len(old) \in Nat
  OBVIOUS
<1>2. f = [n \in 1 .. Len(old) |-> f[n]] /\ \A n \in 1 .. Len(old) : f[n] \in S
  BY <1>1
<1> QED
  BY <1>1, <1>2

\* Every row rewritten.
LEMMA MapExtends ==
  ASSUME NEW old \in Seq(GoodRow), Len(old) <= MaxRows,
         NEW f, f = [n \in DOMAIN old |-> f[n]],
         \A n \in DOMAIN old : f[n] \in GoodRow /\ Stands(old[n], f[n])
  PROVE  Extends(old, f) /\ DOMAIN f = DOMAIN old /\ Len(f) = Len(old)
<1>1. f \in Seq(GoodRow) /\ Len(f) = Len(old) /\ DOMAIN f = DOMAIN old
  BY MapRows
<1> QED
  BY <1>1 DEF Extends

LEMMA MapQuiet ==
  ASSUME NEW old \in Seq(GoodRow), Len(old) <= MaxRows,
         NEW f, f = [n \in DOMAIN old |-> f[n]],
         \A n \in DOMAIN old : Rewritten(old[n], f[n])
  PROVE  Quiet(old, f) /\ Len(f) = Len(old)
  BY MapExtends DEF Rewritten, Quiet, SameOwners, SameLives

LEMMA SameQuiet ==
  ASSUME NEW old \in Seq(GoodRow), Len(old) <= MaxRows
  PROVE  Quiet(old, old)
  BY StandsSame DEF Quiet, Extends, SameOwners, SameLives

\* One row rewritten.
LEMMA SetRow ==
  ASSUME NEW old \in Seq(GoodRow), Len(old) <= MaxRows, NEW n \in DOMAIN old,
         NEW q \in GoodRow, Stands(old[n], q)
  PROVE  LET new == [old EXCEPT ![n] = q]
         IN  /\ Extends(old, new) /\ DOMAIN new = DOMAIN old /\ Len(new) = Len(old)
             /\ \A m \in DOMAIN old : new[m] = IF m = n THEN q ELSE old[m]
<1> DEFINE new == [old EXCEPT ![n] = q]
<1>1. new \in Seq(GoodRow) /\ DOMAIN new = DOMAIN old /\ Len(new) = Len(old)
  OBVIOUS
<1>2. \A m \in DOMAIN old : new[m] = IF m = n THEN q ELSE old[m]
  OBVIOUS
<1> QED
  BY <1>1, <1>2, StandsSame DEF Extends

LEMMA SetQuiet ==
  ASSUME NEW old \in Seq(GoodRow), Len(old) <= MaxRows, NEW n \in DOMAIN old,
         NEW q, Rewritten(old[n], q)
  PROVE  Quiet(old, [old EXCEPT ![n] = q])
  BY SetRow DEF Rewritten, Quiet, SameOwners, SameLives

\* A row added after the others.
LEMMA AddRow ==
  ASSUME NEW old, NEW mid, Extends(old, mid), DOMAIN mid = DOMAIN old,
         Len(mid) < MaxRows, NEW r \in GoodRow
  PROVE  LET new == Append(mid, r)
         IN  /\ Extends(old, new) /\ Added(old, new, r.owner, r.live)
             /\ DOMAIN new = DOMAIN old \cup {Len(mid) + 1} /\ Len(mid) + 1 \notin DOMAIN old
             /\ new[Len(mid) + 1] = r
             /\ \A n \in DOMAIN old : new[n] = mid[n]
<1> DEFINE new == Append(mid, r)
           l == Len(mid)
<1>1. /\ mid \in Seq(GoodRow) /\ l \in Nat /\ DOMAIN mid = 1 .. l
      /\ \A n \in DOMAIN old : Stands(old[n], mid[n])
  BY DEF Extends
<1>2. /\ new \in Seq(GoodRow) /\ Len(new) = l + 1 /\ DOMAIN new = 1 .. l + 1
      /\ new[l + 1] = r /\ \A n \in 1 .. l : new[n] = mid[n]
  BY <1>1
<1> HIDE DEF new, l
<1>3. Extends(old, new)
  BY <1>1, <1>2, AgreementAssumption DEF Extends, l
<1>4. Added(old, new, r.owner, r.live)
  BY <1>1, <1>2 DEF Added
<1> QED
  BY <1>1, <1>2, <1>3, <1>4 DEF new, l

-----------------------------------------------------------------------------
(***************************************************************************)
(* Steps that change content only.                                         *)
(***************************************************************************)
LEMMA ContentsStep ==
  ASSUME Contents, NEW new, new = [s \in Slots |-> new[s]],
         \A s \in Slots : Extends(content[s], new[s])
  PROVE  new \in [Slots -> Seq(GoodRow)] /\ \A s \in Slots : Len(new[s]) <= MaxRows
  BY DEF Extends

LEMMA RowsAreRows == Seq(GoodRow) \subseteq Seq(Row)
<1>1. GoodRow \subseteq Row
  BY DEF GoodRow
<1> QED
  BY <1>1

LEMMA ContentsTyped ==
  ASSUME NEW new \in [Slots -> Seq(GoodRow)]
  PROVE  new \in [Slots -> Seq(Row)]
  BY RowsAreRows

\* What the invariant says of a row.
LEMMA GoodContent ==
  ASSUME AgreementIInv, NEW s \in Slots
  PROVE  /\ content[s] \in Seq(GoodRow) /\ Len(content[s]) <= MaxRows
         /\ Len(content[s]) \in Nat /\ DOMAIN content[s] = 1 .. Len(content[s])
         /\ \A n \in DOMAIN content[s] :
              /\ content[s][n] \in GoodRow /\ content[s][n] \in Row
              /\ content[s][n].owner \in 0 .. MaxAgreements
              /\ content[s][n].status \in Statuses
<1>1. content[s] \in Seq(GoodRow) /\ Len(content[s]) <= MaxRows
  BY DEF AgreementIInv, Contents
<1>2. \A n \in DOMAIN content[s] : content[s][n] \in GoodRow
  BY <1>1
<1>3. \A n \in DOMAIN content[s] : content[s][n] \in Row
  BY <1>2 DEF GoodRow
<1> QED
  BY <1>1, <1>2, <1>3, RowParts

LEMMA NotDue ==
  ASSUME Settled, NEW a \in Agreements
  PROVE  ~(agreement[a].phase = "upcoming" /\ agreement[a].date <= today)
  BY DEF Settled, IsDue

\* Rows change and stay where they belong.
LEMMA QuietStep ==
  ASSUME AgreementIInv, Settled, content' = [s \in Slots |-> content'[s]],
         \A s \in Slots : Quiet(content[s], content'[s]),
         UNCHANGED <<today, agreement, member, frozen, midnight>>
  PROVE  AgreementIInv'
<1>1. \A s \in Slots : /\ Extends(content[s], content'[s]) /\ DOMAIN content'[s] = DOMAIN content[s]
                       /\ \A n \in DOMAIN content[s] :
                            /\ content'[s][n].owner = content[s][n].owner
                            /\ content'[s][n].live = content[s][n].live
  BY DEF Quiet, SameOwners, SameLives
<1>2. Contents'
  BY <1>1, ContentsStep DEF AgreementIInv, Contents
<1>3. AgreementTypeOK'
  BY <1>2, ContentsTyped DEF AgreementIInv, AgreementTypeOK, Contents
<1>4. Phases' /\ Snapshots'
  BY DEF AgreementIInv, Phases, Snapshots
<1>5. OwnersFit(agreement, content')
  BY <1>1 DEF AgreementIInv, Owners, OwnersFit
<1>6. BindingsFit(agreement, member, content')
  BY <1>1 DEF AgreementIInv, Bindings, BindingsFit
<1>7. MidnightFits(agreement, today, content', midnight)
  BY NotDue DEF MidnightFits
<1>8. LiveFits(agreement, member, content')
  BY <1>1 DEF AgreementIInv, Lives, LiveFits
<1> QED
  BY <1>2, <1>3, <1>4, <1>5, <1>6, <1>7, <1>8 DEF AgreementIInv, Owners, Bindings, Midnights, Lives

\* The working set changes.
LEMMA WorkingStep ==
  ASSUME AgreementIInv, Uncancelled = {}, content' = [s \in Slots |-> content'[s]],
         \A s \in Slots : /\ Extends(content[s], content'[s])
                          /\ SameOwners(content[s], content'[s])
                          /\ \A n \in DOMAIN content'[s] \ DOMAIN content[s] : content'[s][n].owner = 0
                          /\ \A n, m \in DOMAIN content'[s] :
                               content'[s][n].live /\ content'[s][m].live => n = m,
         UNCHANGED <<today, agreement, member, frozen, midnight>>
  PROVE  AgreementIInv'
<1>0. \A a \in Agreements : agreement[a].phase \in {"none", "cancelled"}
  BY DEF AgreementIInv, AgreementTypeOK, Uncancelled, In
<1>1. \A s \in Slots : \A n \in DOMAIN content[s] :
         n \in DOMAIN content'[s] /\ content'[s][n].owner = content[s][n].owner
  BY DEF Extends, SameOwners
<1>9. \A s \in Slots : \A n \in DOMAIN content[s] : content[s][n].owner \in 0 .. MaxAgreements
  BY GoodContent
<1>2. Contents'
  BY ContentsStep DEF AgreementIInv, Contents
<1>3. AgreementTypeOK'
  BY <1>2, ContentsTyped DEF AgreementIInv, AgreementTypeOK, Contents
<1>4. Phases' /\ Snapshots'
  BY DEF AgreementIInv, Phases, Snapshots
<1>5. OwnersFit(agreement, content')
  <2> SUFFICES ASSUME NEW s \in Slots, NEW n \in DOMAIN content'[s], content'[s][n].owner > 0
               PROVE  LET o == content'[s][n].owner IN
                        agreement[o].phase # "none" /\ agreement[o].phase # "draft"
    BY DEF OwnersFit
  <2>1. n \in DOMAIN content[s] /\ content'[s][n].owner = content[s][n].owner
    BY <1>1
  <2>2. content[s][n].owner \in Agreements
    BY <1>9, <2>1, AgreementAssumption DEF Agreements
  <2> QED
    BY <1>0, <2>1, <2>2 DEF AgreementIInv, Owners, OwnersFit
<1>6. BindingsFit(agreement, member, content')
  <2> SUFFICES ASSUME NEW a \in Agreements, NEW s \in Slots, member[a][s].row > 0
               PROVE  /\ member[a][s].row \in DOMAIN content'[s]
                      /\ LET o == content'[s][member[a][s].row].owner IN
                           o > 0 /\ agreement[o].phase = "draft" => o = a
    BY DEF BindingsFit
  <2>1. member[a][s].row \in DOMAIN content[s]
    BY DEF AgreementIInv, Bindings, BindingsFit
  <2>2. content[s][member[a][s].row].owner > 0
          => content[s][member[a][s].row].owner \in Agreements
    BY <1>9, <2>1, AgreementAssumption DEF Agreements
  <2> QED
    BY <1>0, <1>1, <2>1, <2>2
<1>7. MidnightFits(agreement, today, content', midnight)
  BY <1>0 DEF MidnightFits
<1>8. LiveFits(agreement, member, content')
  BY <1>0 DEF LiveFits, Reigns
<1> QED
  BY <1>2, <1>3, <1>4, <1>5, <1>6, <1>7, <1>8 DEF AgreementIInv, Owners, Bindings, Midnights, Lives

\* No step takes a decision back.
CasesStand ==
  \A s \in Slots : \A n \in DOMAIN content[s] \cap DOMAIN content'[s] :
    Stands(content[s][n], content'[s][n])

LEMMA ExtendsStands ==
  ASSUME \A s \in Slots : Extends(content[s], content'[s])
  PROVE  CasesStand
  BY DEF CasesStand, Extends

\* The content of one slot rewritten.
LEMMA OneSlot ==
  ASSUME AgreementIInv, NEW s \in Slots, NEW new, content' = [content EXCEPT ![s] = new]
  PROVE  /\ content' = [t \in Slots |-> content'[t]] /\ content'[s] = new
         /\ \A t \in Slots \ {s} : content'[t] = content[t] /\ Quiet(content[t], content'[t])
<1>1. content \in [Slots -> Seq(GoodRow)]
  BY DEF AgreementIInv, Contents
<1>2. \A t \in Slots : Quiet(content[t], content[t])
  BY GoodContent, SameQuiet
<1> QED
  BY <1>1, <1>2

LEMMA OneRow ==
  ASSUME AgreementIInv, Settled, NEW s \in Slots, NEW n \in DOMAIN content[s], NEW q,
         Rewritten(content[s][n], q), content' = [content EXCEPT ![s][n] = q],
         UNCHANGED <<today, agreement, member, frozen, midnight>>
  PROVE  AgreementIInv' /\ CasesStand /\ \A t \in Slots : Quiet(content[t], content'[t])
<1> DEFINE new == [content[s] EXCEPT ![n] = q]
<1>1. content' = [content EXCEPT ![s] = new]
  BY DEF AgreementIInv, Contents
<1>2. Quiet(content[s], new)
  BY GoodContent, SetQuiet
<1> HIDE DEF new
<1>3. content' = [t \in Slots |-> content'[t]] /\ \A t \in Slots : Quiet(content[t], content'[t])
  BY <1>1, <1>2, OneSlot
<1>4. AgreementIInv'
  BY <1>3, QuietStep
<1>5. CasesStand
  BY <1>3, ExtendsStands DEF Quiet
<1> QED
  BY <1>3, <1>4, <1>5

\* The follow-up and the deviations of a row.
OnRow(s, n) ==
  \/ \E status \in Statuses : FollowUp(s, n, status)
  \/ Settled /\ CreateDeviation(s, n)
  \/ /\ Settled
     /\ \E k \in DOMAIN content[s][n].cases :
          \/ MoveCase(s, n, k, "draft", "review") \/ MoveCase(s, n, k, "review", "draft")
          \/ MoveCase(s, n, k, "review", "rejected")
          \/ \E t \in {today, Forever} : ApproveDeviation(s, n, k, t)
          \/ CancelDeviation(s, n, k) \/ CloseDeviation(s, n, k)

LEMMA RowStep ==
  ASSUME AgreementIInv, NEW s \in Slots, NEW n \in DOMAIN content[s], OnRow(s, n)
  PROVE  AgreementIInv' /\ CasesStand /\ Settled /\ \A t \in Slots : Quiet(content[t], content'[t])
<1> DEFINE r == content[s][n]
<1>0. r \in GoodRow /\ r \in Row
  BY GoodContent
<1>1. UNCHANGED <<today, agreement, member, frozen, midnight>> /\ Settled
  BY DEF OnRow, FollowUp, MayFollowUp, CreateDeviation, MoveCase, ApproveDeviation,
         CancelDeviation, CloseDeviation
<1>2. \E q : Rewritten(r, q) /\ content' = [content EXCEPT ![s][n] = q]
  <2>1. CASE \E status \in Statuses : FollowUp(s, n, status)
    <3>1. PICK status \in Statuses : FollowUp(s, n, status)
      BY <2>1
    <3> DEFINE q == [r EXCEPT !.status = status]
    <3>2. q \in Row /\ q.cases = r.cases /\ q.live = r.live /\ q.owner = r.owner
      BY <1>0 DEF Row
    <3>3. content' = [content EXCEPT ![s][n] = q]
      BY <3>1 DEF FollowUp
    <3> HIDE DEF q
    <3>4. Kept(r, q)
      BY <1>0, <3>2, RewriteRow DEF Kept
    <3> QED
      BY <1>0, <3>3, <3>4, KeptRewritten
  <2>2. CASE CreateDeviation(s, n)
    BY <1>0, <2>2, RequestedGood DEF CreateDeviation
  <2>3. ASSUME NEW k \in DOMAIN r.cases, NEW from \in {"draft", "review"},
               NEW to \in {"draft", "review", "rejected"}, MoveCase(s, n, k, from, to)
        PROVE  \E q : Rewritten(r, q) /\ content' = [content EXCEPT ![s][n] = q]
    BY <1>0, <2>3, MovedGood DEF MoveCase, Undecided
  <2>4. ASSUME NEW k \in DOMAIN r.cases, NEW t \in {today, Forever}, ApproveDeviation(s, n, k, t)
        PROVE  \E q : Rewritten(r, q) /\ content' = [content EXCEPT ![s][n] = q]
    <3>1. t \in Days \cup {Forever}
      BY DEF AgreementIInv, AgreementTypeOK
    <3> QED
      BY <1>0, <2>4, <3>1, ApprovedGood DEF ApproveDeviation, Undecided
  <2>5. ASSUME NEW k \in DOMAIN r.cases, CancelDeviation(s, n, k)
        PROVE  \E q : Rewritten(r, q) /\ content' = [content EXCEPT ![s][n] = q]
    BY <1>0, <2>5, MovedGood DEF CancelDeviation
  <2>6. ASSUME NEW k \in DOMAIN r.cases, CloseDeviation(s, n, k)
        PROVE  \E q : Rewritten(r, q) /\ content' = [content EXCEPT ![s][n] = q]
    BY <1>0, <2>6, ClosedGood DEF CloseDeviation, Closable
  <2> QED
    BY <2>1, <2>2, <2>3, <2>4, <2>5, <2>6 DEF OnRow
<1> QED
  BY <1>1, <1>2, OneRow

-----------------------------------------------------------------------------
(***************************************************************************)
(* The working set.                                                        *)
(***************************************************************************)
LEMMA RetiredGood ==
  ASSUME NEW r \in GoodRow
  PROVE  /\ Retired(r) \in GoodRow /\ Stands(r, Retired(r))
         /\ Retired(r).owner = r.owner /\ Retired(r).live = FALSE
<1> DEFINE e == EndApplicable(r, "content_replaced")
<1>0. r \in Row
  BY DEF GoodRow
<1>1. Kept(r, e)
  BY <1>0, EndKeeps
<1>2. e \in Row
  BY <1>1 DEF Kept, Gentle
<1>3. Retired(r) = [e EXCEPT !.live = FALSE]
  BY DEF Retired
<1> HIDE DEF e
<1>4. Retired(r) \in Row /\ Retired(r).cases = e.cases /\ Retired(r).live = FALSE
      /\ Retired(r).owner = e.owner
  BY <1>2, <1>3 DEF Row
<1>5. Gentle(e, Retired(r))
  BY <1>2, <1>4, RewriteRow
<1>6. Gentle(r, Retired(r))
  BY <1>0, <1>1, <1>5, GentleTwice DEF Kept
<1> QED
  BY <1>1, <1>4, <1>6, GentleGood DEF Kept

LEMMA OneLive ==
  ASSUME AgreementIInv, NEW s \in Slots, NEW n \in DOMAIN content[s], NEW m \in DOMAIN content[s],
         content[s][n].live, content[s][m].live
  PROVE  n = m
  BY DEF AgreementIInv, Lives, LiveFits

OnWorkingSet(s) ==
  \/ AddContent(s)
  \/ \E n \in DOMAIN content[s] : RemoveContent(s, n) \/ ReplaceContent(s, n)

LEMMA WorkingSetStep ==
  ASSUME AgreementIInv, NEW s \in Slots, OnWorkingSet(s)
  PROVE  AgreementIInv' /\ CasesStand /\ Uncancelled = {}
<1> DEFINE old == content[s]
           NewOwners(new) == \A n \in DOMAIN new \ DOMAIN old : new[n].owner = 0
           Single(new) == \A n, m \in DOMAIN new : new[n].live /\ new[m].live => n = m
<1>0. /\ old \in Seq(GoodRow) /\ Len(old) <= MaxRows /\ Quiet(old, old)
      /\ \A n \in DOMAIN old : old[n] \in GoodRow
      /\ \A n, m \in DOMAIN old : old[n].live /\ old[m].live => n = m
  BY GoodContent, OneLive, SameQuiet
<1>1. UNCHANGED <<today, agreement, member, frozen, midnight>> /\ Uncancelled = {}
  BY DEF OnWorkingSet, AddContent, RemoveContent, ReplaceContent, Working
<1>2. \E new : /\ content' = [content EXCEPT ![s] = new] /\ Extends(old, new)
               /\ SameOwners(old, new) /\ NewOwners(new) /\ Single(new)
  <2> DEFINE r == NewRow(TRUE, 0, "included")
  <2>3. 0 \in 0 .. MaxAgreements /\ "included" \in Statuses
    BY AgreementAssumption
  <2>0. r \in GoodRow /\ r.live = TRUE /\ r.owner = 0
    BY <2>3, NewGood
  <2> HIDE DEF r
  <2>1. CASE AddContent(s)
    <3> DEFINE new == Append(old, r)
    <3>1. content' = [content EXCEPT ![s] = new] /\ \A n \in DOMAIN old : ~old[n].live
      BY <2>1 DEF AddContent, Append1, Live, r
    <3>2. Len(old) < MaxRows
      BY <2>1 DEF AddContent, Room
    <3>3. /\ Extends(old, new) /\ DOMAIN new = DOMAIN old \cup {Len(old) + 1}
          /\ Len(old) + 1 \notin DOMAIN old
          /\ new[Len(old) + 1] = r /\ \A n \in DOMAIN old : new[n] = old[n]
      BY <1>0, <2>0, <3>2, AddRow DEF Quiet
    <3> HIDE DEF new
    <3>4. SameOwners(old, new) /\ NewOwners(new) /\ Single(new)
      BY <2>0, <3>1, <3>3 DEF SameOwners
    <3> QED
      BY <3>1, <3>3, <3>4
  <2>2. ASSUME NEW n \in DOMAIN old, RemoveContent(s, n) \/ ReplaceContent(s, n)
        PROVE  \E new : /\ content' = [content EXCEPT ![s] = new] /\ Extends(old, new)
                        /\ SameOwners(old, new) /\ NewOwners(new) /\ Single(new)
    <3> DEFINE mid == [old EXCEPT ![n] = Retired(old[n])]
    <3>1. Retired(old[n]) \in GoodRow /\ Stands(old[n], Retired(old[n]))
          /\ Retired(old[n]).owner = old[n].owner /\ Retired(old[n]).live = FALSE
      BY <1>0, RetiredGood
    <3>2. /\ Extends(old, mid) /\ DOMAIN mid = DOMAIN old /\ Len(mid) = Len(old)
          /\ \A m \in DOMAIN old : mid[m] = IF m = n THEN Retired(old[n]) ELSE old[m]
      BY <1>0, <3>1, SetRow
    <3>3. old[n].live
      BY <2>2 DEF RemoveContent, ReplaceContent, Working, Live
    <3>4. \A m \in DOMAIN old : ~mid[m].live
      BY <1>0, <3>1, <3>2, <3>3
    <3>5. SameOwners(old, mid)
      BY <3>1, <3>2 DEF SameOwners
    <3>6. CASE RemoveContent(s, n)
      <4>1. content' = [content EXCEPT ![s] = mid]
        BY <3>6 DEF RemoveContent, AgreementIInv, Contents
      <4> QED
        BY <3>2, <3>4, <3>5, <4>1
    <3>7. CASE ReplaceContent(s, n)
      <4> DEFINE new == Append(mid, r)
      <4>1. content' = [content EXCEPT ![s] = new]
        BY <3>7 DEF ReplaceContent, r, AgreementIInv, Contents
      <4>2. Len(mid) < MaxRows
        BY <3>2, <3>7 DEF ReplaceContent, Room
      <4>3. /\ Extends(old, new) /\ DOMAIN new = DOMAIN old \cup {Len(mid) + 1}
            /\ Len(mid) + 1 \notin DOMAIN old
            /\ new[Len(mid) + 1] = r /\ \A m \in DOMAIN old : new[m] = mid[m]
        BY <2>0, <3>2, <4>2, AddRow
      <4> HIDE DEF new, mid
      <4>4. SameOwners(old, new) /\ NewOwners(new) /\ Single(new)
        BY <2>0, <3>4, <3>5, <4>3 DEF SameOwners
      <4> QED
        BY <4>1, <4>3, <4>4
    <3> QED
      BY <2>2, <3>6, <3>7
  <2> QED
    BY <2>1, <2>2 DEF OnWorkingSet
<1>3. PICK new : /\ content' = [content EXCEPT ![s] = new] /\ Extends(old, new)
                 /\ SameOwners(old, new) /\ NewOwners(new) /\ Single(new)
  BY <1>2
<1>4. /\ content' = [t \in Slots |-> content'[t]] /\ content'[s] = new
      /\ \A t \in Slots \ {s} : content'[t] = content[t] /\ Quiet(content[t], content'[t])
  BY <1>3, OneSlot
<1>5. \A t \in Slots : /\ Extends(content[t], content'[t]) /\ SameOwners(content[t], content'[t])
                       /\ \A n \in DOMAIN content'[t] \ DOMAIN content[t] : content'[t][n].owner = 0
                       /\ \A n, m \in DOMAIN content'[t] :
                            content'[t][n].live /\ content'[t][m].live => n = m
  <2> TAKE t \in Slots
  <2>1. CASE t = s
    BY <1>3, <1>4, <2>1
  <2>2. CASE t # s
    BY <1>4, <2>2, OneLive DEF Quiet
  <2> QED
    BY <2>1, <2>2
<1>6. AgreementIInv'
  BY <1>1, <1>4, <1>5, WorkingStep
<1>7. CasesStand
  BY <1>5, ExtendsStands
<1> QED
  BY <1>1, <1>6, <1>7

-----------------------------------------------------------------------------
(***************************************************************************)
(* Editing a draft.                                                        *)
(***************************************************************************)
Membership == [row : 0 .. MaxRows, removed : BOOLEAN]

LEMMA MembershipParts ==
  ASSUME NEW m \in Membership, NEW n \in 0 .. MaxRows
  PROVE  /\ [m EXCEPT !.row = n] \in Membership /\ [m EXCEPT !.row = n].row = n
         /\ [m EXCEPT !.removed = TRUE] \in Membership
         /\ [m EXCEPT !.removed = TRUE].row = m.row
  BY DEF Membership

\* Only the draft itself is pending, and nothing is due.
LEMMA OnlyDraft ==
  ASSUME AgreementIInv, NEW d \in Agreements, agreement[d].phase = "draft"
  PROVE  /\ \A a \in Agreements : agreement[a].phase \in {"draft", "upcoming"} => a = d
         /\ \E b \in Agreements : agreement[b].phase \in {"current", "ended"}
         /\ \A a \in Agreements : ~(agreement[a].phase = "upcoming")
<1>1. \A a \in Agreements : agreement[a].phase \in {"draft", "upcoming"} => a = d
  BY DEF AgreementIInv, Phases, PhasesFit
<1> QED
  BY <1>1 DEF AgreementIInv, Phases, PhasesFit

\* No other agreement reigns than before, and it has the members it had.
ReignKept(ag, mem) ==
  /\ \A a \in Agreements : Reigns(ag, a) =>
       Reigns(agreement, a) /\ \A s \in Slots : mem[a][s] = member[a][s]
  /\ /\ \E a \in Agreements : ag[a].phase = "ended"
     /\ \A a \in Agreements : ag[a].phase # "current"
     => /\ \E a \in Agreements : agreement[a].phase = "ended"
        /\ \A a \in Agreements : agreement[a].phase # "current"

\* No content becomes live.
NoNewLife(con) ==
  \A s \in Slots : \A n \in DOMAIN con[s] :
    \/ n \in DOMAIN content[s] /\ con[s][n].live = content[s][n].live
    \/ n \notin DOMAIN content[s] /\ n > 0 /\ ~con[s][n].live

LEMMA LivesKept ==
  ASSUME AgreementIInv, NEW ag, NEW mem, NEW con, ReignKept(ag, mem), NoNewLife(con)
  PROVE  LiveFits(ag, mem, con)
<1>1. ASSUME NEW a \in Agreements, Reigns(ag, a), NEW s \in Slots, NEW n \in DOMAIN con[s]
      PROVE  con[s][n].live <=> mem[a][s] = [row |-> n, removed |-> FALSE]
  <2>1. Reigns(agreement, a) /\ mem[a][s] = member[a][s]
    BY <1>1 DEF ReignKept
  <2>2. CASE n \in DOMAIN content[s]
    <3>1. con[s][n].live = content[s][n].live
      BY <1>1, <2>2 DEF NoNewLife
    <3>2. content[s][n].live <=> member[a][s] = [row |-> n, removed |-> FALSE]
      BY <2>1, <2>2 DEF AgreementIInv, Lives, LiveFits
    <3> QED
      BY <2>1, <3>1, <3>2
  <2>3. CASE n \notin DOMAIN content[s]
    <3>1. n > 0 /\ ~con[s][n].live
      BY <1>1, <2>3 DEF NoNewLife
    <3>2. member[a][s].row # n
      BY <2>3, <3>1 DEF AgreementIInv, Bindings, BindingsFit
    <3> QED
      BY <2>1, <3>1, <3>2
  <2> QED
    BY <2>2, <2>3
<1>2. (\E a \in Agreements : ag[a].phase = "ended")
      /\ (\A a \in Agreements : ag[a].phase # "current")
      => \A s \in Slots : \A n \in DOMAIN con[s] : ~con[s][n].live
  BY DEF AgreementIInv, Lives, LiveFits, ReignKept, NoNewLife
<1>3. \A s \in Slots : \A n, k \in DOMAIN con[s] : con[s][n].live /\ con[s][k].live => n = k
  BY OneLive DEF NoNewLife
<1> QED
  BY <1>1, <1>2, <1>3 DEF LiveFits

LEMMA DraftStep ==
  ASSUME AgreementIInv, NEW d \in Agreements, agreement[d].phase = "draft", NEW s \in Slots,
         NEW new, content' = [content EXCEPT ![s] = new],
         Extends(content[s], new), SameOwners(content[s], new), SameLives(content[s], new),
         Added(content[s], new, d, FALSE),
         NEW m \in Membership, member' = [member EXCEPT ![d][s] = m],
         m.row > 0 => /\ m.row \in DOMAIN new
                      /\ LET o == new[m.row].owner IN
                           o > 0 /\ agreement[o].phase = "draft" => o = d,
         UNCHANGED <<today, agreement, frozen, midnight>>
  PROVE  AgreementIInv' /\ CasesStand
<1> DEFINE old == content[s]
<1>0. /\ \A a \in Agreements : agreement[a].phase \in {"draft", "upcoming"} => a = d
      /\ \E b \in Agreements : agreement[b].phase \in {"current", "ended"}
      /\ \A a \in Agreements : ~(agreement[a].phase = "upcoming")
  BY OnlyDraft
<1>1. /\ content' = [t \in Slots |-> content'[t]] /\ content'[s] = new
      /\ \A t \in Slots \ {s} : content'[t] = content[t] /\ Quiet(content[t], content'[t])
  BY OneSlot
<1>2. \A t \in Slots : Extends(content[t], content'[t])
  BY <1>1 DEF Quiet
<1>3. /\ \A n \in DOMAIN old : /\ n \in DOMAIN new /\ new[n].owner = old[n].owner
                               /\ new[n].live = old[n].live
      /\ \A n \in DOMAIN new \ DOMAIN old :
           new[n].owner = d /\ new[n].live = FALSE /\ \A k \in DOMAIN old : k < n
  BY DEF Extends, SameOwners, SameLives, Added
<1>4. /\ member' \in [Agreements -> [Slots -> Membership]]
      /\ member'[d][s] = m
      /\ \A a \in Agreements, t \in Slots : a # d \/ t # s => member'[a][t] = member[a][t]
  <2>1. member \in [Agreements -> [Slots -> Membership]]
    BY DEF AgreementIInv, AgreementTypeOK, Membership
  <2> QED
    BY <2>1
<1>5. Contents'
  BY <1>1, <1>2, ContentsStep DEF AgreementIInv, Contents
<1>6. AgreementTypeOK'
  BY <1>4, <1>5, ContentsTyped DEF AgreementIInv, AgreementTypeOK, Contents, Membership
<1>7. Phases' /\ Snapshots'
  BY DEF AgreementIInv, Phases, Snapshots
<1>8. OwnersFit(agreement, content')
  <2> SUFFICES ASSUME NEW t \in Slots, NEW n \in DOMAIN content'[t], content'[t][n].owner > 0
               PROVE  LET o == content'[t][n].owner IN
                      /\ agreement[o].phase # "none"
                      /\ agreement[o].phase = "draft" =>
                           /\ ~content'[t][n].live
                           /\ \A k \in DOMAIN content'[t] : k >= n => content'[t][k].owner = o
    BY DEF OwnersFit
  <2>1. CASE t # s
    BY <1>1, <2>1 DEF AgreementIInv, Owners, OwnersFit
  <2>2. CASE t = s /\ n \notin DOMAIN old
    <3>1. content'[t] = new /\ new[n].owner = d /\ ~new[n].live
      BY <1>1, <1>3, <2>2
    <3>2. \A k \in DOMAIN new : k >= n => new[k].owner = d
      <4> TAKE k \in DOMAIN new
      <4>1. CASE k \in DOMAIN old
        <5>1. old \in Seq(GoodRow) /\ new \in Seq(GoodRow)
          BY GoodContent DEF Extends
        <5>2. k \in Int /\ n \in Int /\ k < n
          BY <1>1, <1>3, <2>2, <4>1, <5>1
        <5> QED
          BY <5>2
      <4>2. CASE k \notin DOMAIN old
        BY <1>3, <4>2
      <4> QED
        BY <4>1, <4>2
    <3> QED
      BY <3>1, <3>2
  <2>3. CASE t = s /\ n \in DOMAIN old
    <3>1. /\ old[n].owner > 0 /\ agreement[old[n].owner].phase # "none"
          /\ agreement[old[n].owner].phase = "draft" =>
               ~old[n].live /\ \A k \in DOMAIN old : k >= n => old[k].owner = old[n].owner
      BY <1>1, <1>3, <2>3 DEF AgreementIInv, Owners, OwnersFit
    <3>2. old[n].owner \in Agreements
      BY <2>3, <3>1, GoodContent, AgreementAssumption DEF Agreements
    <3>3. agreement[old[n].owner].phase = "draft" => old[n].owner = d
      BY <1>0, <3>2
    <3>4. content'[t] = new /\ new[n].owner = old[n].owner /\ new[n].live = old[n].live
      BY <1>1, <1>3, <2>3
    <3>5. agreement[old[n].owner].phase = "draft" =>
            \A k \in DOMAIN new : k >= n => new[k].owner = old[n].owner
      BY <1>3, <3>1, <3>3
    <3> QED
      BY <3>1, <3>4, <3>5
  <2> QED
    BY <2>1, <2>2, <2>3
<1>9. BindingsFit(agreement, member', content')
  <2> SUFFICES ASSUME NEW a \in Agreements, NEW t \in Slots, member'[a][t].row > 0
               PROVE  /\ member'[a][t].row \in DOMAIN content'[t]
                      /\ LET o == content'[t][member'[a][t].row].owner IN
                           o > 0 /\ agreement[o].phase = "draft" => o = a
    BY DEF BindingsFit
  <2>1. CASE a = d /\ t = s
    BY <1>1, <1>4, <2>1
  <2>2. CASE ~(a = d /\ t = s)
    <3>1. /\ member'[a][t] = member[a][t] /\ member[a][t].row \in DOMAIN content[t]
          /\ LET o == content[t][member[a][t].row].owner IN
               o > 0 /\ agreement[o].phase = "draft" => o = a
      BY <1>4, <2>2 DEF AgreementIInv, Bindings, BindingsFit
    <3>2. CASE t # s
      BY <1>1, <3>1, <3>2
    <3>3. CASE t = s
      <4>1. /\ member[a][t].row \in DOMAIN new
            /\ new[member[a][t].row].owner = old[member[a][t].row].owner
        BY <1>3, <3>1, <3>3
      <4> QED
        BY <1>1, <3>1, <3>3, <4>1
    <3> QED
      BY <3>2, <3>3
  <2> QED
    BY <2>1, <2>2
<1>10. MidnightFits(agreement, today, content', midnight)
  BY <1>0 DEF MidnightFits
<1>11. LiveFits(agreement, member', content')
  <2>1. ASSUME NEW t \in Slots, NEW n \in DOMAIN content'[t]
        PROVE  \/ n \in DOMAIN content[t] /\ content'[t][n].live = content[t][n].live
               \/ n \notin DOMAIN content[t] /\ n > 0 /\ ~content'[t][n].live
    <3>1. n > 0
      BY <1>2, <2>1 DEF Extends
    <3> QED
      BY <1>1, <1>3, <2>1, <3>1
  <2>2. NoNewLife(content')
    BY <2>1 DEF NoNewLife
  <2>3. ReignKept(agreement, member')
    BY <1>0, <1>4 DEF ReignKept, Reigns
  <2> QED
    BY <2>2, <2>3, LivesKept
<1> QED
  BY <1>2, <1>5, <1>6, <1>7, <1>8, <1>9, <1>10, <1>11, ExtendsStands
     DEF AgreementIInv, Owners, Bindings, Midnights, Lives

LEMMA KeptTwice ==
  ASSUME NEW r \in GoodRow, NEW q, NEW p, Kept(r, q), Kept(q, p)
  PROVE  Rewritten(r, p)
<1>1. r \in Row
  BY DEF GoodRow
<1>2. Kept(r, p)
  BY <1>1, GentleTwice DEF Kept
<1> QED
  BY <1>2, KeptRewritten

LEMMA GuardedKept ==
  ASSUME AgreementIInv, NEW d \in Agreements, NEW s \in Slots, NEW n \in DOMAIN content[s]
  PROVE  Rewritten(content[s][n], Guarded(d, s, n))
<1>1. content[s][n] \in GoodRow /\ content[s][n] \in Row
  BY GoodContent
<1>2. Kept(content[s][n], PlanApplicable(content[s][n], d))
  BY <1>1, PlanKeeps
<1>3. Kept(content[s][n], EndApplicable(content[s][n], "content_replaced"))
  BY <1>1, EndKeeps
<1>4. Kept(content[s][n], Guarded(d, s, n))
  BY <1>2, <1>3 DEF Guarded
<1> QED
  BY <1>1, <1>4, KeptRewritten

LEMMA BoundRow ==
  ASSUME AgreementIInv, NEW a \in Agreements, NEW s \in Slots
  PROVE  /\ member[a][s] \in Membership /\ member[a][s].row \in 0 .. MaxRows
         /\ member[a][s].row > 0 =>
              /\ member[a][s].row \in DOMAIN content[s]
              /\ LET o == content[s][member[a][s].row].owner IN
                   o > 0 /\ agreement[o].phase = "draft" => o = a
<1>1. member[a][s] \in Membership
  BY DEF AgreementIInv, AgreementTypeOK, Membership
<1> QED
  BY <1>1 DEF AgreementIInv, Bindings, BindingsFit, Membership

LEMMA PreviousFits ==
  ASSUME AgreementIInv, NEW d \in Agreements, NEW s \in Slots, PreviousRow(d, s) # 0
  PROVE  /\ agreement[d].previous \in Agreements
         /\ PreviousRow(d, s) = member[agreement[d].previous][s].row
         /\ PreviousRow(d, s) > 0 /\ PreviousRow(d, s) \in DOMAIN content[s]
         /\ LET o == content[s][PreviousRow(d, s)].owner IN
              o > 0 => agreement[o].phase # "draft"
<1> DEFINE p == agreement[d].previous
<1>1. p > 0 /\ p \in 0 .. MaxAgreements /\ PreviousRow(d, s) = member[p][s].row
  BY DEF PreviousRow, AgreementIInv, AgreementTypeOK
<1>2. p \in Agreements /\ agreement[p].phase # "draft"
  BY <1>1, AgreementAssumption DEF Agreements, AgreementIInv, Phases, PhasesFit
<1>3. PreviousRow(d, s) > 0
  BY <1>1, <1>2, BoundRow
<1> HIDE DEF p
<1>4. PreviousRow(d, s) \in DOMAIN content[s]
  BY <1>1, <1>2, <1>3, BoundRow
<1>5. LET o == content[s][PreviousRow(d, s)].owner IN o > 0 /\ agreement[o].phase = "draft" => o = p
  BY <1>1, <1>2, <1>3, BoundRow
<1> QED
  BY <1>1, <1>2, <1>3, <1>4, <1>5 DEF p

\* The draft gets a row of its own.
LEMMA DraftAdds ==
  ASSUME AgreementIInv, NEW d \in Agreements, agreement[d].phase = "draft", NEW s \in Slots,
         NEW mid, Quiet(content[s], mid), Len(mid) = Len(content[s]), Len(mid) < MaxRows,
         NEW status \in Statuses,
         content' = [content EXCEPT ![s] = Append(mid, NewRow(FALSE, d, status))],
         NEW m \in Membership, m.row = Len(content[s]) + 1,
         member' = [member EXCEPT ![d][s] = m],
         UNCHANGED <<today, agreement, frozen, midnight>>
  PROVE  AgreementIInv' /\ CasesStand
<1> DEFINE r == NewRow(FALSE, d, status)
           new == Append(mid, r)
<1>1. r \in GoodRow /\ r.live = FALSE /\ r.owner = d
  <2>1. d \in 0 .. MaxAgreements
    BY AgreementAssumption DEF Agreements
  <2> QED
    BY <2>1, NewGood
<1>5. content' = [content EXCEPT ![s] = new]
  OBVIOUS
<1> HIDE DEF r
<1>3. /\ Extends(content[s], new) /\ Added(content[s], new, r.owner, r.live)
      /\ DOMAIN new = DOMAIN content[s] \cup {Len(mid) + 1}
      /\ new[Len(mid) + 1] = r
      /\ \A n \in DOMAIN content[s] : new[n] = mid[n]
  BY <1>1, AddRow DEF Quiet
<1> HIDE DEF new
<1>4. SameOwners(content[s], new) /\ SameLives(content[s], new)
  BY <1>3 DEF Quiet, SameOwners, SameLives
<1>9. m.row \in DOMAIN new /\ new[m.row].owner = d
  BY <1>1, <1>3
<1>7. Added(content[s], new, d, FALSE)
  BY <1>1, <1>3
<1>6. m.row > 0 => /\ m.row \in DOMAIN new
                   /\ LET o == new[m.row].owner IN
                        o > 0 /\ agreement[o].phase = "draft" => o = d
  BY <1>9
<1>10. Extends(content[s], new)
  BY <1>3
<1> QED
  BY <1>4, <1>5, <1>6, <1>7, <1>10, DraftStep

\* The draft has no row of its own more.
LEMMA DraftRewrites ==
  ASSUME AgreementIInv, NEW d \in Agreements, agreement[d].phase = "draft", NEW s \in Slots,
         NEW new, Quiet(content[s], new), content' = [content EXCEPT ![s] = new],
         NEW m \in Membership, member' = [member EXCEPT ![d][s] = m],
         m.row > 0 => /\ m.row \in DOMAIN content[s]
                      /\ LET o == content[s][m.row].owner IN
                           o > 0 /\ agreement[o].phase = "draft" => o = d,
         UNCHANGED <<today, agreement, frozen, midnight>>
  PROVE  AgreementIInv' /\ CasesStand
<1>1. Extends(content[s], new) /\ SameOwners(content[s], new) /\ SameLives(content[s], new)
      /\ Added(content[s], new, d, FALSE) /\ DOMAIN new = DOMAIN content[s]
  BY DEF Quiet, Added
<1>2. m.row > 0 => /\ m.row \in DOMAIN new
                   /\ LET o == new[m.row].owner IN
                        o > 0 /\ agreement[o].phase = "draft" => o = d
  BY <1>1 DEF SameOwners
<1> QED
  BY <1>1, <1>2, DraftStep

LEMMA AddStep ==
  ASSUME AgreementIInv, NEW d \in Agreements, agreement[d].phase = "draft", NEW s \in Slots,
         AddToDraft(d, s)
  PROVE  AgreementIInv' /\ CasesStand
<1>1. Quiet(content[s], content[s]) /\ "included" \in Statuses
  BY GoodContent, SameQuiet, AgreementAssumption
<1>2. Len(content[s]) < MaxRows
  BY DEF AddToDraft, Room
<1>3. content' = [content EXCEPT ![s] = Append(content[s], NewRow(FALSE, d, "included"))]
  BY DEF AddToDraft, Append1, AgreementIInv, Contents
<1> DEFINE m == [row |-> Len(content[s]) + 1, removed |-> FALSE]
<1>4. member' = [member EXCEPT ![d][s] = m] /\ UNCHANGED <<today, agreement, frozen, midnight>>
  BY DEF AddToDraft
<1>5. m \in Membership /\ m.row = Len(content[s]) + 1
  BY <1>2, GoodContent, AgreementAssumption DEF Membership
<1> HIDE DEF m
<1> QED
  BY <1>1, <1>2, <1>3, <1>4, <1>5, DraftAdds

LEMMA ChangeStep ==
  ASSUME AgreementIInv, NEW d \in Agreements, agreement[d].phase = "draft", NEW s \in Slots,
         ChangeInDraft(d, s)
  PROVE  AgreementIInv' /\ CasesStand
<1> DEFINE n == member[d][s].row
           mid == [content[s] EXCEPT ![n] = Guarded(d, s, n)]
<1>1. n > 0 /\ member[d][s] = [row |-> n, removed |-> FALSE] /\ n \in DOMAIN content[s]
  BY BoundRow DEF ChangeInDraft, Member
<1>2. Rewritten(content[s][n], Guarded(d, s, n))
  BY <1>1, GuardedKept
<1>3. Quiet(content[s], mid) /\ Len(mid) = Len(content[s])
  BY <1>1, <1>2, GoodContent, SetQuiet
<1>4. content' = [content EXCEPT ![s] = Append(mid, NewRow(FALSE, d, "included"))]
  BY DEF ChangeInDraft, AgreementIInv, Contents
<1> DEFINE m == [member[d][s] EXCEPT !.row = Len(content[s]) + 1]
<1>5. member' = [member EXCEPT ![d][s] = m]
  BY DEF ChangeInDraft, AgreementIInv, AgreementTypeOK
<1>9. m \in Membership /\ m.row = Len(content[s]) + 1
  <2>1. Len(content[s]) + 1 \in 0 .. MaxRows
    BY GoodContent, AgreementAssumption DEF ChangeInDraft, Room
  <2> QED
    BY <2>1, BoundRow, MembershipParts
<1>6. Len(content[s]) < MaxRows /\ "included" \in Statuses
  BY AgreementAssumption DEF ChangeInDraft, Room
<1>7. UNCHANGED <<today, agreement, frozen, midnight>>
  BY DEF ChangeInDraft
<1> HIDE DEF mid, m
<1>8. Len(mid) < MaxRows
  BY <1>3, <1>6
<1> QED
  BY <1>3, <1>4, <1>5, <1>6, <1>7, <1>8, <1>9, DraftAdds

LEMMA RemoveStep ==
  ASSUME AgreementIInv, NEW d \in Agreements, agreement[d].phase = "draft", NEW s \in Slots,
         RemoveFromDraft(d, s)
  PROVE  AgreementIInv' /\ CasesStand
<1> DEFINE n == member[d][s].row
           new == [content[s] EXCEPT ![n] = Guarded(d, s, n)]
           m == [member[d][s] EXCEPT !.removed = TRUE]
<1>1. n > 0 /\ member[d][s] = [row |-> n, removed |-> FALSE] /\ n \in DOMAIN content[s]
      /\ n \in 0 .. MaxRows
  BY BoundRow DEF RemoveFromDraft, Member
<1>2. Rewritten(content[s][n], Guarded(d, s, n))
  BY <1>1, GuardedKept
<1>3. Quiet(content[s], new)
  BY <1>1, <1>2, GoodContent, SetQuiet
<1>4. content' = [content EXCEPT ![s] = new]
  BY DEF RemoveFromDraft, AgreementIInv, Contents
<1>5. member' = [member EXCEPT ![d][s] = m]
  BY DEF RemoveFromDraft, AgreementIInv, AgreementTypeOK
<1>6. m \in Membership /\ m.row = n
  BY <1>1, BoundRow, MembershipParts
<1>7. LET o == content[s][n].owner IN o > 0 /\ agreement[o].phase = "draft" => o = d
  BY <1>1, BoundRow
<1>8. UNCHANGED <<today, agreement, frozen, midnight>>
  BY DEF RemoveFromDraft
<1> HIDE DEF new, n, m
<1> QED
  BY <1>1, <1>3, <1>4, <1>5, <1>6, <1>7, <1>8, DraftRewrites

LEMMA UndoStep ==
  ASSUME AgreementIInv, NEW d \in Agreements, agreement[d].phase = "draft", NEW s \in Slots,
         UndoInDraft(d, s)
  PROVE  AgreementIInv' /\ CasesStand
<1> DEFINE n == member[d][s].row
           old == PreviousRow(d, s)
           guard == ~member[d][s].removed /\ n # old
           copied == old > 0 /\ agreement[agreement[d].previous].phase = "ended"
           row(k) == Unplan(IF k = n /\ guard THEN EndApplicable(content[s][k], "content_replaced")
                            ELSE content[s][k], d)
           rows == [k \in DOMAIN content[s] |-> row(k)]
<1>1. /\ copied => Room(s)
      /\ content' = [content EXCEPT ![s] =
           IF copied THEN Append(rows, NewRow(FALSE, d, content[s][old].status)) ELSE rows]
      /\ member' = [member EXCEPT ![d][s] =
           IF old = 0 THEN NoMember
           ELSE [row |-> IF copied THEN Len(content[s]) + 1 ELSE old, removed |-> FALSE]]
      /\ UNCHANGED <<today, agreement, frozen, midnight>>
  BY DEF UndoInDraft, AgreementIInv, Contents
<1>2. Quiet(content[s], rows) /\ Len(rows) = Len(content[s])
  <2>1. \A k \in DOMAIN content[s] : Rewritten(content[s][k], rows[k])
    <3> TAKE k \in DOMAIN content[s]
    <3>1. content[s][k] \in GoodRow /\ content[s][k] \in Row
      BY GoodContent
    <3> DEFINE q == IF k = n /\ guard THEN EndApplicable(content[s][k], "content_replaced")
                    ELSE content[s][k]
    <3>2. Kept(content[s][k], q)
      BY <3>1, EndKeeps, SameRow DEF Kept
    <3>3. q \in Row
      BY <3>2 DEF Kept, Gentle
    <3>4. rows[k] = CancelPlans(q, d)
      BY DEF Unplan
    <3> HIDE DEF q, rows
    <3>5. Kept(q, rows[k])
      BY <3>3, <3>4, UnplanKeeps
    <3> QED
      BY <3>1, <3>2, <3>5, KeptTwice
  <2>2. rows = [k \in DOMAIN content[s] |-> rows[k]]
    OBVIOUS
  <2> HIDE DEF rows
  <2> QED
    BY <2>1, <2>2, GoodContent, MapQuiet
<1>3. old # 0 => /\ old > 0 /\ old \in DOMAIN content[s]
                 /\ LET o == content[s][old].owner IN o > 0 => agreement[o].phase # "draft"
  BY PreviousFits
<1> HIDE DEF rows
<1>4. CASE copied
  <2>1. content[s][old].status \in Statuses /\ Len(rows) < MaxRows /\ old # 0
    BY <1>1, <1>2, <1>3, <1>4, GoodContent DEF Room
  <2> DEFINE m == [row |-> Len(content[s]) + 1, removed |-> FALSE]
  <2>2. content' = [content EXCEPT ![s] = Append(rows, NewRow(FALSE, d, content[s][old].status))]
        /\ member' = [member EXCEPT ![d][s] = m]
    BY <1>1, <1>4, <2>1
  <2>4. m \in Membership /\ m.row = Len(content[s]) + 1
    BY <1>2, <2>1, GoodContent, AgreementAssumption DEF Membership
  <2>3. UNCHANGED <<today, agreement, frozen, midnight>>
    BY <1>1
  <2> HIDE DEF old, copied, guard, n, m
  <2> QED
    BY <1>2, <2>1, <2>2, <2>3, <2>4, DraftAdds
<1>5. CASE ~copied
  <2> DEFINE m == IF old = 0 THEN NoMember ELSE [row |-> old, removed |-> FALSE]
  <2>1. content' = [content EXCEPT ![s] = rows] /\ member' = [member EXCEPT ![d][s] = m]
    BY <1>1, <1>5
  <2>2. m \in Membership
    BY <1>3, GoodContent, AgreementAssumption DEF Membership, NoMember
  <2>3. m.row > 0 => m.row = old /\ old # 0
    BY DEF NoMember
  <2> HIDE DEF m, old
  <2>4. m.row > 0 => /\ m.row \in DOMAIN content[s]
                     /\ LET o == content[s][m.row].owner IN
                          o > 0 /\ agreement[o].phase = "draft" => o = d
    BY <1>3, <2>3
  <2>5. UNCHANGED <<today, agreement, frozen, midnight>>
    BY <1>1
  <2> QED
    BY <1>2, <2>1, <2>2, <2>4, <2>5, DraftRewrites
<1> QED
  BY <1>4, <1>5

\* The rows that are not the draft's are the first of the slot.
LEMMA OwnRowsLast ==
  ASSUME AgreementIInv, NEW d \in Agreements, agreement[d].phase = "draft", NEW s \in Slots
  PROVE  \E k \in 0 .. Len(content[s]) :
           {m \in DOMAIN content[s] : content[s][m].owner # d} = 1 .. k
<1> DEFINE old == content[s]
           own == {n \in DOMAIN old : old[n].owner = d}
<1>1. DOMAIN old = 1 .. Len(old) /\ Len(old) \in Nat /\ d > 0 /\ own \in SUBSET Nat
  BY GoodContent DEF Agreements
<1>2. \A n \in own : \A m \in DOMAIN old : m >= n => m \in own
  BY <1>1 DEF AgreementIInv, Owners, OwnersFit
<1>3. \A m \in DOMAIN old : old[m].owner # d <=> m \notin own
  OBVIOUS
<1>4. own \subseteq DOMAIN old
  OBVIOUS
<1> HIDE DEF own
<1>5. CASE own = {}
  BY <1>1, <1>3, <1>5
<1>6. CASE own # {}
  <2>1. PICK f \in own : \A n \in own : f <= n
    BY <1>1, <1>6, Smallest
  <2>2. \A m \in DOMAIN old : m \notin own <=> m < f
    BY <1>1, <1>2, <1>4, <2>1
  <2>3. f - 1 \in 0 .. Len(old)
    BY <1>1, <1>4, <2>1
  <2>4. {m \in DOMAIN old : old[m].owner # d} = 1 .. f - 1
    BY <1>1, <1>3, <1>4, <2>1, <2>2
  <2> QED
    BY <2>3, <2>4
<1> QED
  BY <1>5, <1>6

LEMMA DiscardStep ==
  ASSUME AgreementIInv, NEW d \in Agreements, agreement[d].phase = "draft", DiscardDraft(d)
  PROVE  AgreementIInv' /\ CasesStand
<1>0. /\ \A a \in Agreements : agreement[a].phase \in {"draft", "upcoming"} => a = d
      /\ \E b \in Agreements : agreement[b].phase \in {"current", "ended"}
      /\ \A a \in Agreements : ~(agreement[a].phase = "upcoming")
  BY OnlyDraft
<1>1. \A s \in Slots :
        /\ content'[s] \in Seq(GoodRow) /\ Len(content'[s]) <= MaxRows
        /\ DOMAIN content'[s] = {m \in DOMAIN content[s] : content[s][m].owner # d}
        /\ \A n \in DOMAIN content'[s] : Rewritten(content[s][n], content'[s][n])
  <2> TAKE s \in Slots
  <2> DEFINE old == content[s]
             new == content'[s]
  <2>1. PICK k \in 0 .. Len(old) : {m \in DOMAIN old : old[m].owner # d} = 1 .. k
    BY OwnRowsLast
  <2>2. new = [n \in 1 .. k |-> CancelPlans(old[n], d)]
    BY <2>1 DEF DiscardDraft
  <2>3. \A n \in 1 .. k : n \in DOMAIN old /\ old[n] \in GoodRow
    BY <2>1, GoodContent
  <2>4. \A n \in 1 .. k : Rewritten(old[n], new[n])
    <3> TAKE n \in 1 .. k
    <3>1. old[n] \in GoodRow /\ old[n] \in Row /\ new[n] = CancelPlans(old[n], d)
      BY <2>2, <2>3 DEF GoodRow
    <3> QED
      BY <3>1, UnplanKeeps, KeptRewritten
  <2>5. \A n \in 1 .. k : new[n] \in GoodRow
    BY <2>4 DEF Rewritten
  <2>6. new = [n \in 1 .. k |-> new[n]] /\ k \in Nat /\ k <= MaxRows
    BY <2>1, <2>2, GoodContent, AgreementAssumption
  <2>7. new \in Seq(GoodRow) /\ Len(new) = k /\ DOMAIN new = 1 .. k
    BY <2>5, <2>6
  <2> QED
    BY <2>1, <2>4, <2>6, <2>7
<1>2. \A s \in Slots : \A n \in DOMAIN content'[s] :
        /\ n \in DOMAIN content[s] /\ content[s][n].owner # d
        /\ content'[s][n].owner = content[s][n].owner
        /\ content'[s][n].live = content[s][n].live
        /\ Stands(content[s][n], content'[s][n])
  BY <1>1 DEF Rewritten
<1>3. /\ agreement' = [agreement EXCEPT ![d] = NoAgreement]
      /\ member' = [member EXCEPT ![d] = [s \in Slots |-> NoMember]]
      /\ content' = [s \in Slots |-> content'[s]]
      /\ UNCHANGED <<today, frozen, midnight>>
  BY DEF DiscardDraft
<1>4. /\ \A a \in Agreements \ {d} : agreement'[a] = agreement[a] /\ member'[a] = member[a]
      /\ agreement'[d].phase = "none" /\ agreement'[d].previous = 0
      /\ \A s \in Slots : member'[d][s].row = 0
  BY <1>3 DEF AgreementIInv, AgreementTypeOK, NoAgreement, NoMember
<1>5. Contents'
  BY <1>1, <1>3 DEF Contents
<1>6. AgreementTypeOK'
  <2>1. member' \in [Agreements -> [Slots -> [row : 0 .. MaxRows, removed : BOOLEAN]]]
    <3>1. NoMember \in [row : 0 .. MaxRows, removed : BOOLEAN]
      BY AgreementAssumption DEF NoMember
    <3> QED
      BY <1>3, <3>1 DEF AgreementIInv, AgreementTypeOK
  <2>2. NoAgreement \in [phase : {"none", "draft", "upcoming", "current", "replaced", "ended", "cancelled"},
                         date : Days, previous : 0 .. MaxAgreements]
    BY AgreementAssumption DEF NoAgreement, Days
  <2>3. content' \in [Slots -> Seq(Row)]
    BY <1>5, ContentsTyped DEF Contents
  <2> QED
    BY <1>3, <2>1, <2>2, <2>3 DEF AgreementIInv, AgreementTypeOK
<1>7. PhasesFit(agreement')
  <2>1. \A a \in Agreements : agreement[a].previous # d \/ agreement[a].previous = 0
    BY DEF AgreementIInv, Phases, PhasesFit, Agreements
  <2>2. \A a \in Agreements : agreement[a].previous > 0 => agreement[a].previous \in Agreements
    BY AgreementAssumption DEF AgreementIInv, AgreementTypeOK, Agreements
  <2>3. \A a \in Agreements : agreement'[a].previous > 0 =>
           agreement'[agreement'[a].previous].phase \in {"current", "replaced", "ended"}
    BY <1>4, <2>1, <2>2 DEF AgreementIInv, Phases, PhasesFit
  <2>4. PICK b \in Agreements : b # d /\ agreement[b].phase \in {"current", "ended"}
    BY <1>0
  <2>5. agreement'[b].phase \in {"current", "ended"}
    BY <1>4, <2>4
  <2>6. \A a, c \in Agreements : agreement'[a].phase = "current" /\ agreement'[c].phase = "current" => a = c
    BY <1>4 DEF AgreementIInv, Phases, PhasesFit
  <2>7. \A a \in Agreements : agreement'[a].phase \notin {"draft", "upcoming"}
    BY <1>0, <1>4
  <2> QED
    BY <2>3, <2>5, <2>6, <2>7 DEF PhasesFit
<1>8. OwnersFit(agreement', content')
  <2> SUFFICES ASSUME NEW s \in Slots, NEW n \in DOMAIN content'[s], content'[s][n].owner > 0
               PROVE  LET o == content'[s][n].owner IN
                        agreement'[o].phase # "none" /\ agreement'[o].phase # "draft"
    BY DEF OwnersFit
  <2> DEFINE o == content[s][n].owner
  <2>1. content'[s][n].owner = o /\ o > 0 /\ o # d /\ agreement[o].phase # "none"
    BY <1>2 DEF AgreementIInv, Owners, OwnersFit
  <2>2. o \in Agreements
    BY <1>2, <2>1, GoodContent, AgreementAssumption DEF Agreements
  <2> QED
    BY <1>0, <1>4, <2>1, <2>2
<1>9. BindingsFit(agreement', member', content')
  <2> SUFFICES ASSUME NEW a \in Agreements, NEW s \in Slots, member'[a][s].row > 0
               PROVE  /\ member'[a][s].row \in DOMAIN content'[s]
                      /\ LET o == content'[s][member'[a][s].row].owner IN
                           o > 0 /\ agreement'[o].phase = "draft" => o = a
    BY DEF BindingsFit
  <2> DEFINE n == member[a][s].row
             o == content[s][n].owner
  <2>1. a # d /\ member'[a][s] = member[a][s] /\ n > 0
    BY <1>4
  <2>2. n \in DOMAIN content[s] /\ (o > 0 /\ agreement[o].phase = "draft" => o = a)
    BY <2>1 DEF AgreementIInv, Bindings, BindingsFit
  <2>3. o # d
    BY <2>1, <2>2 DEF Agreements
  <2>4. n \in DOMAIN content'[s] /\ content'[s][n].owner = o
    BY <1>1, <1>2, <2>2, <2>3
  <2>5. o > 0 => o \in Agreements
    BY <2>2, GoodContent, AgreementAssumption DEF Agreements
  <2>6. ~(o > 0 /\ agreement'[o].phase = "draft")
    BY <1>0, <1>4, <2>3, <2>5
  <2> QED
    BY <2>1, <2>4, <2>6
<1>10. FrozenFits(agreement', frozen)
  BY <1>4 DEF AgreementIInv, Snapshots, FrozenFits
<1>11. MidnightFits(agreement', today, content', midnight)
  BY <1>0, <1>4 DEF MidnightFits
<1>12. LiveFits(agreement', member', content')
  <2>1. \A a \in Agreements : agreement'[a].phase # "upcoming"
    BY <1>0, <1>4
  <2>2. ASSUME NEW a \in Agreements, Reigns(agreement', a), NEW s \in Slots,
               NEW n \in DOMAIN content'[s]
        PROVE  content'[s][n].live <=> member'[a][s] = [row |-> n, removed |-> FALSE]
    <3>1. agreement[a].phase = "current" /\ member'[a][s] = member[a][s]
      BY <1>4, <2>1, <2>2 DEF Reigns
    <3>2. content[s][n].live <=> member[a][s] = [row |-> n, removed |-> FALSE]
      BY <1>2, <3>1 DEF AgreementIInv, Lives, LiveFits, Reigns
    <3> QED
      BY <1>2, <3>1, <3>2
  <2>3. (\E a \in Agreements : agreement'[a].phase = "ended")
        /\ (\A a \in Agreements : agreement'[a].phase # "current")
        => \A s \in Slots : \A n \in DOMAIN content'[s] : ~content'[s][n].live
    BY <1>2, <1>4 DEF AgreementIInv, Lives, LiveFits
  <2>4. \A s \in Slots : \A n, k \in DOMAIN content'[s] :
          content'[s][n].live /\ content'[s][k].live => n = k
    BY <1>2, OneLive
  <2> QED
    BY <2>2, <2>3, <2>4 DEF LiveFits
<1>13. CasesStand
  BY <1>2 DEF CasesStand
<1> QED
  BY <1>3, <1>5, <1>6, <1>7, <1>8, <1>9, <1>10, <1>11, <1>12, <1>13
     DEF AgreementIInv, Phases, Owners, Bindings, Snapshots, Midnights, Lives

-----------------------------------------------------------------------------
(***************************************************************************)
(* Registering agreements.                                                 *)
(***************************************************************************)
LEMMA NextIsFree ==
  ASSUME In({"none"}) # {}
  PROVE  NextAgreement \in Agreements /\ agreement[NextAgreement].phase = "none"
<1>1. In({"none"}) \in SUBSET Nat
  BY DEF In, Agreements
<1>2. \E x \in In({"none"}) : \A y \in In({"none"}) : x <= y
  BY <1>1, Smallest
<1>3. NextAgreement \in In({"none"})
  BY <1>2 DEF NextAgreement
<1> QED
  BY <1>3 DEF In

LEMMA PrecedingFits ==
  ASSUME Preceding > 0
  PROVE  /\ Preceding \in Agreements /\ agreement[Preceding].phase \in {"current", "ended"}
         /\ agreement[Preceding].phase = "ended" => Current = {}
<1>1. MaxAgreements \in Nat
  BY AgreementAssumption
<1>2. \A P : In(P) \in SUBSET (0 .. MaxAgreements)
  BY <1>1 DEF In, Agreements
<1>3. CASE Current # {}
  <2>1. Max(Current) \in Current /\ Preceding = Max(Current)
    BY <1>1, <1>2, <1>3, Largest DEF Current, Preceding
  <2> QED
    BY <2>1 DEF Current, In
<1>4. CASE Current = {}
  <2>1. In({"ended"}) # {}
    BY <1>4 DEF Preceding
  <2>2. Max(In({"ended"})) \in In({"ended"}) /\ Preceding = Max(In({"ended"}))
    BY <1>1, <1>2, <1>4, <2>1, Largest DEF Preceding
  <2> QED
    BY <1>4, <2>2 DEF In
<1> QED
  BY <1>3, <1>4

LEMMA CreateDraftStep ==
  ASSUME AgreementIInv, NEW date \in Days, CreateDraft(date)
  PROVE  AgreementIInv' /\ CasesStand
<1> DEFINE a == NextAgreement
           p == Preceding
           kept == {s \in Slots : p > 0 /\ Bound(p, s) /\ ~member[p][s].removed}
           copied == {s \in kept : agreement[p].phase = "ended"}
           fresh == [phase |-> "draft", date |-> date, previous |-> p]
           row(s) == NewRow(FALSE, a, content[s][member[p][s].row].status)
           m(s) == IF s \in copied THEN [row |-> Len(content[s]) + 1, removed |-> FALSE]
                   ELSE IF s \in kept THEN member[p][s] ELSE NoMember
<1>1. /\ p > 0 /\ In({"none"}) # {} /\ Pending = {}
      /\ \A s \in copied : Len(content[s]) < MaxRows
      /\ agreement' = [agreement EXCEPT ![a] = fresh]
      /\ member' = [member EXCEPT ![a] = [s \in Slots |-> m(s)]]
      /\ content' = [s \in Slots |-> IF s \in copied THEN Append(content[s], row(s)) ELSE content[s]]
      /\ UNCHANGED <<today, frozen, midnight>>
  BY DEF CreateDraft, Room
<1>2. /\ a \in Agreements /\ agreement[a].phase = "none"
      /\ p \in Agreements /\ agreement[p].phase \in {"current", "ended"}
  BY <1>1, NextIsFree, PrecedingFits
<1>3. a # p /\ \A b \in Agreements : agreement[b].phase \notin {"draft", "upcoming"}
  BY <1>1, <1>2 DEF Pending, In
<1>4. \A s \in kept : /\ s \in Slots /\ member[p][s].row > 0 /\ member[p][s].row \in DOMAIN content[s]
                      /\ member[p][s] \in Membership
  BY <1>2, BoundRow DEF Bound
<1>5. \A s \in copied : row(s) \in GoodRow /\ row(s).live = FALSE /\ row(s).owner = a
  <2> TAKE s \in copied
  <2>1. content[s][member[p][s].row].status \in Statuses
    BY <1>4, GoodContent
  <2>2. a \in 0 .. MaxAgreements
    BY <1>2, AgreementAssumption DEF Agreements
  <2> QED
    BY <2>1, <2>2, NewGood
<1>6. \A s \in Slots : m(s) \in Membership
  BY <1>1, <1>4, GoodContent, AgreementAssumption DEF Membership, NoMember
<1>7. /\ agreement' \in [Agreements -> [phase : {"none", "draft", "upcoming", "current", "replaced",
                                                 "ended", "cancelled"},
                                        date : Days, previous : 0 .. MaxAgreements]]
      /\ agreement'[a] = fresh /\ \A b \in Agreements \ {a} : agreement'[b] = agreement[b]
  <2>1. p \in 0 .. MaxAgreements
    BY <1>2, AgreementAssumption DEF Agreements
  <2> HIDE DEF p, a
  <2> QED
    BY <1>1, <1>2, <2>1 DEF AgreementIInv, AgreementTypeOK
<1>8. /\ member' \in [Agreements -> [Slots -> Membership]]
      /\ \A s \in Slots : member'[a][s] = m(s)
      /\ \A b \in Agreements \ {a} : member'[b] = member[b]
  <2> HIDE DEF a, m
  <2> QED
    BY <1>1, <1>2, <1>6 DEF AgreementIInv, AgreementTypeOK, Membership
<1>9. \A s \in Slots :
        /\ Extends(content[s], content'[s])
        /\ SameOwners(content[s], content'[s]) /\ SameLives(content[s], content'[s])
        /\ Added(content[s], content'[s], a, FALSE)
        /\ s \in copied => Len(content[s]) + 1 \in DOMAIN content'[s]
                           /\ content'[s][Len(content[s]) + 1].owner = a
  <2> TAKE s \in Slots
  <2>1. Quiet(content[s], content[s])
    BY GoodContent, SameQuiet
  <2>2. CASE s \notin copied
    <3>1. content'[s] = content[s]
      BY <1>1, <2>2
    <3> QED
      BY <2>1, <2>2, <3>1 DEF Quiet, Added
  <2>3. CASE s \in copied
    <3> DEFINE r == row(s)
               new == Append(content[s], r)
    <3>1. content'[s] = new /\ r \in GoodRow /\ r.live = FALSE /\ r.owner = a
          /\ Len(content[s]) < MaxRows
      BY <1>1, <1>5, <2>3
    <3> HIDE DEF r, a
    <3>2. /\ Extends(content[s], new) /\ Added(content[s], new, r.owner, r.live)
          /\ DOMAIN new = DOMAIN content[s] \cup {Len(content[s]) + 1}
          /\ new[Len(content[s]) + 1] = r
          /\ \A n \in DOMAIN content[s] : new[n] = content[s][n]
      BY <2>1, <3>1, AddRow DEF Quiet
    <3>3. SameOwners(content[s], new) /\ SameLives(content[s], new)
      BY <3>2 DEF SameOwners, SameLives
    <3> HIDE DEF new
    <3> QED
      BY <3>1, <3>2, <3>3
  <2> QED
    BY <2>2, <2>3
<1>10. \A s \in Slots :
         /\ \A n \in DOMAIN content[s] : /\ n \in DOMAIN content'[s]
                                         /\ content'[s][n].owner = content[s][n].owner
                                         /\ content'[s][n].live = content[s][n].live
         /\ \A n \in DOMAIN content'[s] : /\ n > 0 /\ n \in Nat
                                          /\ n \notin DOMAIN content[s] =>
                                               /\ content'[s][n].owner = a /\ ~content'[s][n].live
                                               /\ \A k \in DOMAIN content[s] : k < n
  <2> TAKE s \in Slots
  <2>2. content'[s] \in Seq(GoodRow)
    BY <1>9 DEF Extends
  <2>1. \A n \in DOMAIN content'[s] : n > 0 /\ n \in Nat
    BY <2>2
  <2> QED
    BY <1>9, <2>1 DEF Extends, SameOwners, SameLives, Added
<1>11. \A s \in Slots : \A n \in DOMAIN content[s] : content[s][n].owner > 0 =>
          /\ content[s][n].owner \in Agreements /\ content[s][n].owner # a
          /\ agreement'[content[s][n].owner].phase \notin {"none", "draft"}
  <2> TAKE s \in Slots
  <2> TAKE n \in DOMAIN content[s]
  <2> HAVE content[s][n].owner > 0
  <2>1. content[s][n].owner \in Agreements
    BY GoodContent, AgreementAssumption DEF Agreements
  <2>2. agreement[content[s][n].owner].phase # "none"
    BY DEF AgreementIInv, Owners, OwnersFit
  <2> QED
    BY <1>2, <1>3, <1>7, <2>1, <2>2
<1>12. /\ content' = [s \in Slots |-> content'[s]] /\ UNCHANGED <<today, frozen, midnight>>
       /\ a \in Nat /\ a > 0
  BY <1>1, <1>2 DEF Agreements
<1>13. fresh.phase = "draft" /\ fresh.previous = p
  OBVIOUS
<1>14. \A s \in Slots : m(s).row > 0 =>
         \/ s \in copied /\ m(s).row = Len(content[s]) + 1
         \/ s \in kept /\ m(s).row = member[p][s].row
  BY DEF NoMember
<1> HIDE DEF a, p, m, fresh, copied, kept
<1>15. Contents'
  BY <1>9, <1>12, ContentsStep DEF AgreementIInv, Contents
<1>16. AgreementTypeOK'
  BY <1>7, <1>8, <1>12, <1>15, ContentsTyped DEF AgreementIInv, AgreementTypeOK, Contents, Membership
<1>17. PhasesFit(agreement')
  <2>1. \A b, c \in Agreements :
          {agreement'[b].phase, agreement'[c].phase} \subseteq {"draft", "upcoming"} => b = c
    BY <1>3, <1>7, <1>13
  <2>2. \A b, c \in Agreements : agreement'[b].phase = "current" /\ agreement'[c].phase = "current" => b = c
    BY <1>7, <1>13 DEF AgreementIInv, Phases, PhasesFit
  <2>3. p \in Agreements /\ agreement'[p].phase \in {"current", "ended"}
    BY <1>2, <1>3, <1>7
  <2>4. ASSUME NEW b \in Agreements, agreement'[b].previous > 0
        PROVE  agreement'[agreement'[b].previous].phase \in {"current", "replaced", "ended"}
    <3>1. CASE b = a
      BY <1>7, <1>13, <2>3, <3>1
    <3>2. CASE b # a
      <4>1. agreement'[b].previous = agreement[b].previous
        BY <1>7, <3>2
      <4>2. agreement[b].previous \in Agreements
        BY <2>4, <4>1, AgreementAssumption DEF Agreements, AgreementIInv, AgreementTypeOK
      <4>3. agreement[agreement[b].previous].phase \in {"current", "replaced", "ended"}
        BY <2>4, <4>1 DEF AgreementIInv, Phases, PhasesFit
      <4> QED
        BY <1>2, <1>7, <4>1, <4>2, <4>3
    <3> QED
      BY <3>1, <3>2
  <2> QED
    BY <2>1, <2>2, <2>3, <2>4 DEF PhasesFit
<1>18. OwnersFit(agreement', content')
  <2> SUFFICES ASSUME NEW s \in Slots, NEW n \in DOMAIN content'[s], content'[s][n].owner > 0
               PROVE  LET o == content'[s][n].owner IN
                      /\ agreement'[o].phase # "none"
                      /\ agreement'[o].phase = "draft" =>
                           /\ ~content'[s][n].live
                           /\ \A k \in DOMAIN content'[s] : k >= n => content'[s][k].owner = o
    BY DEF OwnersFit
  <2>1. CASE n \in DOMAIN content[s]
    BY <1>10, <1>11, <2>1
  <2>2. CASE n \notin DOMAIN content[s]
    <3>1. content'[s][n].owner = a /\ ~content'[s][n].live /\ n \in Nat
      BY <1>10, <2>2
    <3>2. \A k \in DOMAIN content'[s] : k >= n => content'[s][k].owner = a
      <4> TAKE k \in DOMAIN content'[s]
      <4>1. k \in Nat /\ (k \in DOMAIN content[s] => k < n)
        BY <1>10, <2>2
      <4> QED
        BY <1>10, <3>1, <4>1
    <3> QED
      BY <1>7, <1>13, <3>1, <3>2
  <2> QED
    BY <2>1, <2>2
<1>19. BindingsFit(agreement', member', content')
  <2> SUFFICES ASSUME NEW b \in Agreements, NEW s \in Slots, member'[b][s].row > 0
               PROVE  /\ member'[b][s].row \in DOMAIN content'[s]
                      /\ LET o == content'[s][member'[b][s].row].owner IN
                           o > 0 /\ agreement'[o].phase = "draft" => o = b
    BY DEF BindingsFit
  <2>1. ASSUME NEW n \in DOMAIN content[s], member'[b][s].row = n
        PROVE  /\ n \in DOMAIN content'[s]
               /\ LET o == content'[s][n].owner IN o > 0 /\ agreement'[o].phase = "draft" => o = b
    BY <1>10, <1>11
  <2>2. CASE b # a
    <3>1. member'[b][s] = member[b][s] /\ member[b][s].row \in DOMAIN content[s]
      BY <1>8, <2>2, BoundRow
    <3> QED
      BY <2>1, <3>1
  <2>3. CASE b = a
    <3>1. member'[b][s] = m(s)
      BY <1>8, <2>3
    <3>2. CASE s \in copied /\ m(s).row = Len(content[s]) + 1
      BY <1>9, <2>3, <3>1, <3>2
    <3>3. CASE s \in kept /\ m(s).row = member[p][s].row
      BY <1>4, <2>1, <3>1, <3>3
    <3> QED
      BY <1>14, <3>1, <3>2, <3>3
  <2> QED
    BY <2>2, <2>3
<1>20. FrozenFits(agreement', frozen)
  BY <1>2, <1>7, <1>13 DEF AgreementIInv, Snapshots, FrozenFits
<1>21. MidnightFits(agreement', today, content', midnight)
  BY <1>3, <1>7, <1>13 DEF MidnightFits
<1>22. LiveFits(agreement', member', content')
  <2>1. NoNewLife(content')
    BY <1>10 DEF NoNewLife
  <2>2. ReignKept(agreement', member')
    BY <1>2, <1>3, <1>7, <1>8, <1>13 DEF ReignKept, Reigns
  <2> QED
    BY <2>1, <2>2, LivesKept
<1>23. CasesStand
  BY <1>9, ExtendsStands
<1> QED
  BY <1>12, <1>15, <1>16, <1>17, <1>18, <1>19, <1>20, <1>21, <1>22, <1>23
     DEF AgreementIInv, Phases, Owners, Bindings, Snapshots, Midnights, Lives

LEMMA RegisterFirstStep ==
  ASSUME AgreementIInv, NEW date \in Days, RegisterFirst(date)
  PROVE  AgreementIInv' /\ CasesStand
<1> DEFINE a == NextAgreement
           fresh == [phase |-> IF date > today THEN "upcoming" ELSE "current",
                     date |-> date, previous |-> 0]
           some(s) == \E n \in DOMAIN content[s] : Live(s, n)
           first(s) == CHOOSE n \in DOMAIN content[s] : Live(s, n)
           m(s) == IF some(s) THEN [row |-> first(s), removed |-> FALSE] ELSE NoMember
<1>1. /\ Uncancelled = {} /\ In({"none"}) # {}
      /\ agreement' = [agreement EXCEPT ![a] = fresh]
      /\ member' = [member EXCEPT ![a] = [s \in Slots |-> m(s)]]
      /\ UNCHANGED <<today, frozen, content, midnight>>
  BY DEF RegisterFirst
<1>2. a \in Agreements /\ agreement[a].phase = "none"
  BY <1>1, NextIsFree
<1>3. \A b \in Agreements : agreement[b].phase \in {"none", "cancelled"}
  BY <1>1 DEF AgreementIInv, AgreementTypeOK, Uncancelled, In
<1>4. \A s \in Slots : some(s) => first(s) \in DOMAIN content[s] /\ content[s][first(s)].live
  BY DEF Live
<1>5. \A s \in Slots : m(s) \in Membership
  <2> TAKE s \in Slots
  <2>1. CASE some(s)
    <3>1. first(s) \in 0 .. MaxRows
      BY <1>4, <2>1, GoodContent, AgreementAssumption
    <3> HIDE DEF first
    <3> QED
      BY <2>1, <3>1 DEF Membership
  <2>2. CASE ~some(s)
    BY <2>2, AgreementAssumption DEF Membership, NoMember
  <2> QED
    BY <2>1, <2>2
<1>6. /\ agreement' \in [Agreements -> [phase : {"none", "draft", "upcoming", "current", "replaced",
                                                 "ended", "cancelled"},
                                        date : Days, previous : 0 .. MaxAgreements]]
      /\ agreement'[a] = fresh /\ \A b \in Agreements \ {a} : agreement'[b] = agreement[b]
  <2>1. 0 \in 0 .. MaxAgreements
    BY AgreementAssumption
  <2> HIDE DEF a
  <2> QED
    BY <1>1, <1>2, <2>1 DEF AgreementIInv, AgreementTypeOK
<1>7. /\ member' \in [Agreements -> [Slots -> Membership]]
      /\ \A s \in Slots : member'[a][s] = m(s)
      /\ \A b \in Agreements \ {a} : member'[b] = member[b]
  <2> HIDE DEF a, m
  <2> QED
    BY <1>1, <1>2, <1>5 DEF AgreementIInv, AgreementTypeOK, Membership
<1>8. /\ fresh.phase \in {"upcoming", "current"} /\ fresh.previous = 0
      /\ fresh.phase = "upcoming" => fresh.date > today
  OBVIOUS
<1>9. \A s \in Slots : \A n \in DOMAIN content[s] :
        content[s][n].live <=> m(s) = [row |-> n, removed |-> FALSE]
  <2> TAKE s \in Slots
  <2> TAKE n \in DOMAIN content[s]
  <2>1. n > 0
    BY GoodContent
  <2>2. CASE some(s)
    <3>1. m(s) = [row |-> first(s), removed |-> FALSE]
      BY <2>2
    <3>4. first(s) \in DOMAIN content[s] /\ content[s][first(s)].live
      BY <1>4, <2>2
    <3> HIDE DEF first, m, some
    <3>2. content[s][n].live <=> n = first(s)
      BY <3>4, OneLive
    <3>8. ASSUME m(s) = [row |-> n, removed |-> FALSE] PROVE n = first(s)
      <4>1. m(s).row = n /\ m(s).row = first(s)
        BY <3>1, <3>8
      <4> QED
        BY <4>1
    <3>3. m(s) = [row |-> n, removed |-> FALSE] <=> n = first(s)
      BY <3>1, <3>8
    <3> QED
      BY <3>2, <3>3
  <2>3. CASE ~some(s)
    BY <2>1, <2>3 DEF NoMember, Live
  <2> QED
    BY <2>2, <2>3
<1>10. \A s \in Slots : m(s).row > 0 => m(s).row \in DOMAIN content[s]
  BY <1>4 DEF NoMember
<1> HIDE DEF a, m, fresh, some, first
<1>11. \A b \in Agreements : agreement'[b].phase \in {"none", "cancelled"} \/ b = a
  BY <1>3, <1>6
<1>12. Contents'
  BY <1>1 DEF AgreementIInv, Contents
<1>13. AgreementTypeOK'
  BY <1>1, <1>6, <1>7 DEF AgreementIInv, AgreementTypeOK, Membership
<1>14. PhasesFit(agreement')
  <2>1. ASSUME NEW b \in Agreements, agreement'[b].previous > 0
        PROVE  FALSE
    <3>1. b # a
      BY <1>6, <1>8, <2>1
    <3>2. agreement'[b].previous = agreement[b].previous
      BY <1>6, <3>1
    <3>3. agreement[b].previous \in Agreements
      BY <2>1, <3>2, AgreementAssumption DEF Agreements, AgreementIInv, AgreementTypeOK
    <3>4. agreement[agreement[b].previous].phase \in {"current", "replaced", "ended"}
      BY <2>1, <3>2 DEF AgreementIInv, Phases, PhasesFit
    <3> QED
      BY <1>3, <3>3, <3>4
  <2>2. \A b, c \in Agreements :
          {agreement'[b].phase, agreement'[c].phase} \subseteq {"draft", "upcoming"} => b = c
    BY <1>11
  <2>3. \A b, c \in Agreements : agreement'[b].phase = "current" /\ agreement'[c].phase = "current" => b = c
    BY <1>11
  <2>4. \A b \in Agreements : agreement'[b].phase \in {"draft", "current", "replaced", "ended"} =>
          agreement'[b].phase \in {"current", "ended"}
    BY <1>6, <1>8, <1>11
  <2> QED
    BY <2>1, <2>2, <2>3, <2>4 DEF PhasesFit
<1>15. \A s \in Slots : \A n \in DOMAIN content[s] : content[s][n].owner > 0 =>
         agreement'[content[s][n].owner].phase \notin {"none", "draft"}
  <2> TAKE s \in Slots
  <2> TAKE n \in DOMAIN content[s]
  <2> HAVE content[s][n].owner > 0
  <2>1. content[s][n].owner \in Agreements
    BY GoodContent, AgreementAssumption DEF Agreements
  <2>2. agreement[content[s][n].owner].phase # "none"
    BY DEF AgreementIInv, Owners, OwnersFit
  <2> QED
    BY <1>2, <1>3, <1>6, <2>1, <2>2
<1>16. OwnersFit(agreement', content)
  BY <1>15 DEF OwnersFit
<1>17. BindingsFit(agreement', member', content)
  <2> SUFFICES ASSUME NEW b \in Agreements, NEW s \in Slots, member'[b][s].row > 0
               PROVE  member'[b][s].row \in DOMAIN content[s]
    BY <1>15 DEF BindingsFit
  <2>1. CASE b = a
    BY <1>7, <1>10, <2>1
  <2>2. CASE b # a
    BY <1>7, <2>2, BoundRow
  <2> QED
    BY <2>1, <2>2
<1>18. FrozenFits(agreement', frozen)
  BY <1>2, <1>6 DEF AgreementIInv, Snapshots, FrozenFits
<1>19. MidnightFits(agreement', today, content, midnight)
  <2> SUFFICES ASSUME NEW u \in Agreements, agreement'[u].phase = "upcoming",
                      agreement'[u].date <= today
               PROVE  FALSE
    BY DEF MidnightFits
  <2>1. fresh.phase = "upcoming" /\ fresh.date <= today
    BY <1>6, <1>11
  <2>2. fresh.date \in Int /\ today \in Int
    BY DEF fresh, Days, AgreementIInv, AgreementTypeOK
  <2> QED
    BY <1>8, <2>1, <2>2
<1>20. LiveFits(agreement', member', content)
  <2>1. \A b \in Agreements : Reigns(agreement', b) => b = a
    BY <1>11 DEF Reigns
  <2>2. \A b \in Agreements : Reigns(agreement', b) =>
          \A s \in Slots : \A n \in DOMAIN content[s] :
            content[s][n].live <=> member'[b][s] = [row |-> n, removed |-> FALSE]
    <3> SUFFICES ASSUME NEW b \in Agreements, Reigns(agreement', b), NEW s \in Slots,
                        NEW n \in DOMAIN content[s]
                 PROVE  content[s][n].live <=> member'[b][s] = [row |-> n, removed |-> FALSE]
      OBVIOUS
    <3>1. member'[b][s] = m(s)
      BY <1>7, <2>1
    <3>2. content[s][n].live <=> m(s) = [row |-> n, removed |-> FALSE]
      BY <1>9
    <3> QED
      BY <3>1, <3>2
  <2>3. \A b \in Agreements : agreement'[b].phase # "ended"
    BY <1>6, <1>8, <1>11
  <2>4. \A s \in Slots : \A n, k \in DOMAIN content[s] : content[s][n].live /\ content[s][k].live => n = k
    BY OneLive
  <2> QED
    BY <2>2, <2>3, <2>4 DEF LiveFits
<1>21. CasesStand
  BY <1>1, StandsSame DEF CasesStand
<1> QED
  BY <1>1, <1>12, <1>13, <1>14, <1>16, <1>17, <1>18, <1>19, <1>20, <1>21
     DEF AgreementIInv, Phases, Owners, Bindings, Snapshots, Midnights, Lives

-----------------------------------------------------------------------------
(***************************************************************************)
(* An agreement takes effect.                                              *)
(***************************************************************************)
Followup == [status : Statuses \cup {"none"}, review : Seq(BOOLEAN)]

LEMMA FollowupTyped ==
  ASSUME NEW r \in Row
  PROVE  FollowupOf(r) \in Followup
<1> DEFINE f == [k \in DOMAIN r.cases |-> r.cases[k].state = "review"]
<1>1. DOMAIN r.cases = 1 .. Len(r.cases) /\ Len(r.cases) \in Nat /\ r.status \in Statuses
  BY RowParts
<1>2. f \in Seq(BOOLEAN)
  BY <1>1
<1>3. FollowupOf(r) = [status |-> r.status, review |-> f]
  BY DEF FollowupOf
<1> HIDE DEF f
<1> QED
  BY <1>1, <1>2, <1>3 DEF Followup

LEMMA SnapshotFits ==
  ASSUME AgreementIInv, NEW c \in Agreements
  PROVE  /\ Snapshot(c) \in [Agreements -> [Slots -> Followup]]
         /\ \A a \in Agreements \ {c} : Snapshot(c)[a] = frozen[a]
         /\ \A s \in Slots : frozen[c][s] # NoSnapshot => Snapshot(c)[c][s] = frozen[c][s]
         /\ \A s \in Slots : Bound(c, s) /\ frozen[c][s] = NoSnapshot =>
              Snapshot(c)[c][s] = FollowupOf(content[s][member[c][s].row])
<1> DEFINE g == [s \in Slots |->
                   IF Bound(c, s) /\ frozen[c][s] = NoSnapshot
                   THEN FollowupOf(content[s][member[c][s].row]) ELSE frozen[c][s]]
<1>1. frozen \in [Agreements -> [Slots -> Followup]]
  BY DEF AgreementIInv, AgreementTypeOK, Followup
<1>2. \A s \in Slots : g[s] \in Followup
  <2> TAKE s \in Slots
  <2>1. CASE Bound(c, s)
    <3>1. content[s][member[c][s].row] \in Row
      BY <2>1, BoundRow, GoodContent DEF Bound
    <3>2. FollowupOf(content[s][member[c][s].row]) \in Followup
      BY <3>1, FollowupTyped
    <3> QED
      BY <1>1, <3>2
  <2>2. CASE ~Bound(c, s)
    BY <1>1, <2>2
  <2> QED
    BY <2>1, <2>2
<1>3. g \in [Slots -> Followup]
  BY <1>2
<1>4. Snapshot(c) = [frozen EXCEPT ![c] = g]
  BY DEF Snapshot
<1>5. \A s \in Slots : frozen[c][s] # NoSnapshot => g[s] = frozen[c][s]
  OBVIOUS
<1>6. \A s \in Slots : Bound(c, s) /\ frozen[c][s] = NoSnapshot =>
        g[s] = FollowupOf(content[s][member[c][s].row])
  OBVIOUS
<1> HIDE DEF g
<1> QED
  BY <1>1, <1>3, <1>4, <1>5, <1>6

\* Content that becomes live or ceases to be.
LEMMA SetLive ==
  ASSUME NEW r \in GoodRow, NEW q, Kept(r, q), NEW live \in BOOLEAN
  PROVE  LET p == [q EXCEPT !.live = live]
         IN  p \in GoodRow /\ Stands(r, p) /\ p.live = live /\ p.owner = r.owner
<1> DEFINE p == [q EXCEPT !.live = live]
<1>1. r \in Row /\ q \in Row /\ q.owner = r.owner /\ Gentle(r, q)
  BY DEF Kept, Gentle, GoodRow
<1>2. p \in Row /\ p.cases = q.cases /\ p.live = live /\ p.owner = q.owner
  BY <1>1 DEF Row
<1> HIDE DEF p
<1>3. Gentle(q, p)
  BY <1>1, <1>2, RewriteRow
<1>4. Gentle(r, p)
  BY <1>1, <1>3, GentleTwice
<1> QED
  BY <1>1, <1>2, <1>4, GentleGood DEF p

LEMMA TakeEffectStep ==
  ASSUME AgreementIInv, NEW u \in Agreements, agreement[u].phase \in {"draft", "upcoming"},
         NEW date \in Days, NEW rows,
         \A s \in Slots : DOMAIN rows[s] = DOMAIN content[s],
         \A s \in Slots : \A n \in DOMAIN content[s] : Kept(content[s][n], rows[s][n]),
         TakeEffect(u, rows, date), UNCHANGED <<today, member>>
  PROVE  /\ AgreementIInv' /\ CasesStand
         /\ \A a \in Agreements, s \in Slots :
              frozen[a][s] # NoSnapshot => frozen'[a][s] = frozen[a][s]
         /\ \A a \in Current, s \in Slots : Bound(a, s) =>
              frozen'[a][s] = FollowupOf(content[s][member[a][s].row])
<1> DEFINE c == CHOOSE a \in Current : TRUE
<1>0. \A a \in Agreements : agreement[a].phase \in {"draft", "upcoming"} => a = u
  BY DEF AgreementIInv, Phases, PhasesFit
<1>1. /\ agreement' = [a \in Agreements |->
           IF a = u THEN [agreement[u] EXCEPT !.phase = "current", !.date = date]
           ELSE IF a \in Current THEN [agreement[a] EXCEPT !.phase = "replaced"]
           ELSE agreement[a]]
      /\ frozen' = IF Current = {} THEN frozen ELSE Snapshot(c)
      /\ content' = CarriedOut(u, rows)
  BY DEF TakeEffect
<1>2. \A s \in Slots :
        /\ Extends(content[s], content'[s]) /\ DOMAIN content'[s] = DOMAIN content[s]
        /\ \A n \in DOMAIN content[s] : /\ content'[s][n].owner = content[s][n].owner
                                        /\ content'[s][n].live = Member(u, s, n)
  <2> TAKE s \in Slots
  <2> DEFINE new == content'[s]
  <2>1. new = [n \in DOMAIN content[s] |->
                 [CarryOutPlans(rows[s][n], u) EXCEPT !.live = Member(u, s, n)]]
    BY <1>1 DEF CarriedOut
  <2>2. \A n \in DOMAIN content[s] :
          /\ new[n] \in GoodRow /\ Stands(content[s][n], new[n])
          /\ new[n].owner = content[s][n].owner /\ new[n].live = Member(u, s, n)
    <3> TAKE n \in DOMAIN content[s]
    <3>1. content[s][n] \in GoodRow /\ content[s][n] \in Row
      BY GoodContent
    <3>2. Kept(content[s][n], rows[s][n]) /\ rows[s][n] \in Row
      BY DEF Kept, Gentle
    <3> DEFINE q == CarryOutPlans(rows[s][n], u)
    <3>3. Kept(rows[s][n], q)
      BY <3>2, CarryOutKeeps
    <3> HIDE DEF q
    <3>4. Kept(content[s][n], q)
      BY <3>1, <3>2, <3>3, GentleTwice DEF Kept
    <3>5. Member(u, s, n) \in BOOLEAN
      BY DEF Member
    <3>6. new[n] = [q EXCEPT !.live = Member(u, s, n)]
      BY <2>1 DEF q
    <3> QED
      BY <3>1, <3>4, <3>5, <3>6, SetLive
  <2>3. new = [n \in DOMAIN content[s] |-> new[n]]
    BY <2>1
  <2> HIDE DEF new
  <2>4. Extends(content[s], new) /\ DOMAIN new = DOMAIN content[s]
    BY <2>2, <2>3, GoodContent, MapExtends
  <2> QED
    BY <2>2, <2>4 DEF new
<1>3. content' = [s \in Slots |-> content'[s]]
  BY <1>1 DEF CarriedOut
<1>4. /\ agreement' \in [Agreements -> [phase : {"none", "draft", "upcoming", "current", "replaced",
                                                 "ended", "cancelled"},
                                        date : Days, previous : 0 .. MaxAgreements]]
      /\ agreement'[u].phase = "current"
      /\ \A a \in Agreements \ {u} : agreement'[a].phase =
           IF agreement[a].phase = "current" THEN "replaced" ELSE agreement[a].phase
      /\ \A a \in Agreements : agreement'[a].previous = agreement[a].previous
  <2>1. \A a \in Agreements : a \in Current <=> agreement[a].phase = "current"
    BY DEF Current, In
  <2>2. agreement \in [Agreements -> [phase : {"none", "draft", "upcoming", "current", "replaced",
                                               "ended", "cancelled"},
                                      date : Days, previous : 0 .. MaxAgreements]]
    BY DEF AgreementIInv, AgreementTypeOK
  <2>3. \A a \in Agreements : agreement'[a] =
           IF a = u THEN [agreement[u] EXCEPT !.phase = "current", !.date = date]
           ELSE IF a \in Current THEN [agreement[a] EXCEPT !.phase = "replaced"]
           ELSE agreement[a]
    BY <1>1
  <2>4. agreement' = [a \in Agreements |-> agreement'[a]]
    BY <1>1
  <2>5. \A a \in Agreements :
          /\ agreement'[a] \in [phase : {"none", "draft", "upcoming", "current", "replaced",
                                         "ended", "cancelled"},
                                date : Days, previous : 0 .. MaxAgreements]
          /\ a = u => agreement'[a].phase = "current"
          /\ a # u => agreement'[a].phase =
               IF agreement[a].phase = "current" THEN "replaced" ELSE agreement[a].phase
          /\ agreement'[a].previous = agreement[a].previous
    <3> TAKE a \in Agreements
    <3>1. CASE a = u
      BY <2>2, <2>3, <3>1
    <3>2. CASE a # u /\ a \in Current
      BY <2>1, <2>2, <2>3, <3>2
    <3>3. CASE a # u /\ a \notin Current
      BY <2>1, <2>2, <2>3, <3>3
    <3> QED
      BY <3>1, <3>2, <3>3
  <2> QED
    BY <2>4, <2>5
<1>5. ASSUME Current # {}
      PROVE  /\ c \in Agreements /\ agreement[c].phase = "current" /\ c # u
             /\ \A a \in Current : a = c
  <2>1. c \in Current
    BY <1>5
  <2> QED
    BY <2>1 DEF Current, In, AgreementIInv, Phases, PhasesFit
<1>6. /\ frozen' \in [Agreements -> [Slots -> Followup]]
      /\ \A a \in Agreements : agreement[a].phase # "current" => frozen'[a] = frozen[a]
      /\ \A a \in Agreements, s \in Slots :
           frozen[a][s] # NoSnapshot => frozen'[a][s] = frozen[a][s]
      /\ \A a \in Current, s \in Slots : Bound(a, s) =>
           frozen'[a][s] = FollowupOf(content[s][member[a][s].row])
  <2>1. CASE Current = {}
    BY <1>1, <2>1 DEF AgreementIInv, AgreementTypeOK, Followup
  <2>2. CASE Current # {}
    <3> HIDE DEF c
    <3>1. frozen' = Snapshot(c) /\ c \in Agreements /\ agreement[c].phase = "current"
          /\ \A a \in Current : a = c
      BY <1>1, <1>5, <2>2
    <3>2. \A s \in Slots : frozen[c][s] = NoSnapshot
      BY <3>1 DEF AgreementIInv, Snapshots, FrozenFits
    <3>3. /\ frozen' \in [Agreements -> [Slots -> Followup]]
          /\ \A a \in Agreements \ {c} : frozen'[a] = frozen[a]
          /\ \A s \in Slots : frozen[c][s] # NoSnapshot => frozen'[c][s] = frozen[c][s]
          /\ \A s \in Slots : Bound(c, s) /\ frozen[c][s] = NoSnapshot =>
               frozen'[c][s] = FollowupOf(content[s][member[c][s].row])
      BY <3>1, SnapshotFits
    <3>4. \A a \in Agreements : agreement[a].phase # "current" => frozen'[a] = frozen[a]
      BY <3>1, <3>3
    <3>5. \A a \in Agreements, s \in Slots :
            frozen[a][s] # NoSnapshot => frozen'[a][s] = frozen[a][s]
      BY <3>3
    <3>6. \A a \in Current, s \in Slots : Bound(a, s) =>
            frozen'[a][s] = FollowupOf(content[s][member[a][s].row])
      BY <3>1, <3>2, <3>3
    <3> QED
      BY <3>3, <3>4, <3>5, <3>6
  <2> QED
    BY <2>1, <2>2
<1> HIDE DEF c
<1>7. \A a \in Agreements : agreement'[a].phase \notin {"draft", "upcoming"}
  BY <1>0, <1>4
<1>8. Contents'
  BY <1>2, <1>3, ContentsStep DEF AgreementIInv, Contents
<1>9. AgreementTypeOK'
  BY <1>4, <1>6, <1>8, ContentsTyped DEF AgreementIInv, AgreementTypeOK, Contents, Followup
<1>10. PhasesFit(agreement')
  <2>1. \A a, b \in Agreements : agreement'[a].phase = "current" /\ agreement'[b].phase = "current" => a = b
    BY <1>4
  <2>2. ASSUME NEW a \in Agreements, agreement'[a].previous > 0
        PROVE  agreement'[agreement'[a].previous].phase \in {"current", "replaced", "ended"}
    <3>1. agreement[a].previous \in Agreements /\ agreement'[a].previous = agreement[a].previous
      BY <1>4, <2>2, AgreementAssumption DEF Agreements, AgreementIInv, AgreementTypeOK
    <3>2. agreement[agreement[a].previous].phase \in {"current", "replaced", "ended"}
      BY <2>2, <3>1 DEF AgreementIInv, Phases, PhasesFit
    <3> QED
      BY <1>4, <3>1, <3>2
  <2> QED
    BY <1>4, <1>7, <2>1, <2>2 DEF PhasesFit
<1>11. \A s \in Slots : \A n \in DOMAIN content'[s] : content'[s][n].owner > 0 =>
         agreement'[content'[s][n].owner].phase \notin {"none", "draft"}
  <2> TAKE s \in Slots
  <2> TAKE n \in DOMAIN content'[s]
  <2> HAVE content'[s][n].owner > 0
  <2>1. n \in DOMAIN content[s] /\ content'[s][n].owner = content[s][n].owner
    BY <1>2
  <2>2. content[s][n].owner \in Agreements
    BY <2>1, GoodContent, AgreementAssumption DEF Agreements
  <2>3. agreement[content[s][n].owner].phase # "none"
    BY <2>1 DEF AgreementIInv, Owners, OwnersFit
  <2> QED
    BY <1>4, <1>7, <2>1, <2>2, <2>3
<1>12. OwnersFit(agreement', content')
  BY <1>11 DEF OwnersFit
<1>13. BindingsFit(agreement', member, content')
  <2> SUFFICES ASSUME NEW b \in Agreements, NEW s \in Slots, member[b][s].row > 0
               PROVE  member[b][s].row \in DOMAIN content'[s]
    BY <1>11 DEF BindingsFit
  <2> QED
    BY <1>2, BoundRow
<1>14. FrozenFits(agreement', frozen')
  <2> SUFFICES ASSUME NEW a \in Agreements,
                      agreement'[a].phase \in {"none", "draft", "upcoming", "current"},
                      NEW s \in Slots
               PROVE  frozen'[a][s] = NoSnapshot
    BY DEF FrozenFits
  <2>1. agreement[a].phase \in {"none", "draft", "upcoming"}
    BY <1>4, <1>7
  <2> QED
    BY <1>6, <2>1 DEF AgreementIInv, Snapshots, FrozenFits
<1>15. MidnightFits(agreement', today, content', midnight')
  BY <1>7 DEF MidnightFits
<1>16. LiveFits(agreement', member, content')
  <2>1. \A a \in Agreements : Reigns(agreement', a) => a = u
    BY <1>4, <1>7 DEF Reigns
  <2>2. ASSUME NEW s \in Slots, NEW n \in DOMAIN content'[s]
        PROVE  content'[s][n].live <=> member[u][s] = [row |-> n, removed |-> FALSE]
    <3>1. n > 0 /\ content'[s][n].live = Member(u, s, n)
      BY <1>2, <2>2, GoodContent
    <3> QED
      BY <3>1 DEF Member
  <2>3. ASSUME NEW s \in Slots, NEW n \in DOMAIN content'[s], NEW k \in DOMAIN content'[s],
               content'[s][n].live, content'[s][k].live
        PROVE  n = k
    <3>1. member[u][s] = [row |-> n, removed |-> FALSE]
      BY <2>2, <2>3
    <3>2. member[u][s] = [row |-> k, removed |-> FALSE]
      BY <2>2, <2>3
    <3>3. member[u][s].row = n
      BY <3>1
    <3>4. member[u][s].row = k
      BY <3>2
    <3> QED
      BY <3>3, <3>4
  <2> QED
    BY <1>4, <2>1, <2>2, <2>3 DEF LiveFits
<1>17. CasesStand
  BY <1>2, ExtendsStands
<1> QED
  BY <1>6, <1>8, <1>9, <1>10, <1>12, <1>13, <1>14, <1>15, <1>16, <1>17
     DEF AgreementIInv, Phases, Owners, Bindings, Snapshots, Midnights, Lives

\* What a draft's confirmation makes of a row.
LEMMA RecheckedKept ==
  ASSUME AgreementIInv, NEW d \in Agreements, NEW s \in Slots, NEW n \in DOMAIN content[s]
  PROVE  Kept(content[s][n], Rechecked(d, s, n))
<1>1. content[s][n] \in GoodRow /\ content[s][n] \in Row
  BY GoodContent
<1>2. Kept(content[s][n], PlanApplicable(content[s][n], d))
  BY <1>1, PlanKeeps
<1>3. Kept(content[s][n], content[s][n])
  BY <1>1, RewriteRow DEF Kept
<1> QED
  BY <1>2, <1>3 DEF Rechecked

\* The date or the phase of one agreement, and nothing else of the agreements.
LEMMA PhaseSet ==
  ASSUME AgreementIInv, NEW d \in Agreements,
         NEW phase \in {"none", "draft", "upcoming", "current", "replaced", "ended", "cancelled"},
         agreement' = [agreement EXCEPT ![d].phase = phase]
  PROVE  /\ agreement' \in [Agreements ->
              [phase : {"none", "draft", "upcoming", "current", "replaced", "ended", "cancelled"},
               date : Days, previous : 0 .. MaxAgreements]]
         /\ agreement'[d].phase = phase
         /\ \A a \in Agreements \ {d} : agreement'[a].phase = agreement[a].phase
         /\ \A a \in Agreements : /\ agreement'[a].date = agreement[a].date
                                  /\ agreement'[a].previous = agreement[a].previous
<1> DEFINE q == [agreement[d] EXCEPT !.phase = phase]
<1>1. agreement \in [Agreements ->
        [phase : {"none", "draft", "upcoming", "current", "replaced", "ended", "cancelled"},
         date : Days, previous : 0 .. MaxAgreements]]
  BY DEF AgreementIInv, AgreementTypeOK
<1>2. agreement' = [agreement EXCEPT ![d] = q]
  BY <1>1
<1>3. /\ q \in [phase : {"none", "draft", "upcoming", "current", "replaced", "ended", "cancelled"},
                date : Days, previous : 0 .. MaxAgreements]
      /\ q.phase = phase /\ q.date = agreement[d].date /\ q.previous = agreement[d].previous
  BY <1>1
<1> HIDE DEF q
<1> QED
  BY <1>1, <1>2, <1>3

\* What an agreement follows on has taken effect.
LEMMA PrecededBy ==
  ASSUME AgreementIInv, NEW a \in Agreements, agreement[a].previous > 0
  PROVE  /\ agreement[a].previous \in Agreements
         /\ agreement[agreement[a].previous].phase \in {"current", "replaced", "ended"}
<1>1. agreement[a].previous \in 0 .. MaxAgreements
  BY DEF AgreementIInv, AgreementTypeOK
<1>2. agreement[a].previous \in Agreements
  BY <1>1, AgreementAssumption DEF Agreements
<1> QED
  BY <1>2 DEF AgreementIInv, Phases, PhasesFit

LEMMA ConfirmStep ==
  ASSUME AgreementIInv, Settled, NEW d \in Agreements, agreement[d].phase = "draft", ConfirmDraft(d)
  PROVE  /\ AgreementIInv' /\ CasesStand
         /\ \A a \in Agreements, s \in Slots :
              frozen[a][s] # NoSnapshot => frozen'[a][s] = frozen[a][s]
<1> DEFINE rows == [s \in Slots |-> [n \in DOMAIN content[s] |-> Rechecked(d, s, n)]]
<1>1. /\ UNCHANGED <<today, member, midnight>> /\ agreement[d].date >= today
      /\ IF agreement[d].date = today
         THEN TakeEffect(d, rows, today)
         ELSE /\ agreement' = [agreement EXCEPT ![d].phase = "upcoming"]
              /\ content' = rows
              /\ UNCHANGED frozen
  BY DEF ConfirmDraft
<1>2. \A s \in Slots : DOMAIN rows[s] = DOMAIN content[s] /\ rows[s] = [n \in DOMAIN content[s] |-> rows[s][n]]
  OBVIOUS
<1>3. \A s \in Slots : \A n \in DOMAIN content[s] : Kept(content[s][n], rows[s][n])
  BY RecheckedKept
<1>4. rows = [s \in Slots |-> rows[s]]
  OBVIOUS
<1> HIDE DEF rows
<1>5. CASE agreement[d].date = today
  <2>1. today \in Days
    BY DEF AgreementIInv, AgreementTypeOK
  <2> QED
    BY <1>1, <1>2, <1>3, <1>5, <2>1, TakeEffectStep
<1>6. CASE agreement[d].date # today
  <2>1. /\ agreement' = [agreement EXCEPT ![d].phase = "upcoming"]
        /\ content' = rows /\ UNCHANGED <<today, member, frozen, midnight>>
    BY <1>1, <1>6
  <2>2. /\ \A a \in Agreements : agreement[a].phase \in {"draft", "upcoming"} => a = d
        /\ \E b \in Agreements : agreement[b].phase \in {"current", "ended"}
    BY OnlyDraft
  <2>3. /\ agreement' \in [Agreements ->
              [phase : {"none", "draft", "upcoming", "current", "replaced", "ended", "cancelled"},
               date : Days, previous : 0 .. MaxAgreements]]
        /\ agreement'[d].phase = "upcoming"
        /\ \A a \in Agreements \ {d} : agreement'[a].phase = agreement[a].phase
        /\ \A a \in Agreements : /\ agreement'[a].date = agreement[a].date
                                 /\ agreement'[a].previous = agreement[a].previous
    BY <2>1, PhaseSet
  <2>4. \A s \in Slots : Quiet(content[s], rows[s])
    <3> TAKE s \in Slots
    <3>1. \A n \in DOMAIN content[s] : Rewritten(content[s][n], rows[s][n])
      BY <1>3, GoodContent, KeptRewritten
    <3> QED
      BY <1>2, <3>1, GoodContent, MapQuiet
  <2>5. \A s \in Slots : /\ Extends(content[s], content'[s]) /\ DOMAIN content'[s] = DOMAIN content[s]
                         /\ \A n \in DOMAIN content[s] :
                              /\ content'[s][n].owner = content[s][n].owner
                              /\ content'[s][n].live = content[s][n].live
    BY <2>1, <2>4 DEF Quiet, SameOwners, SameLives
  <2>6. content' = [s \in Slots |-> content'[s]]
    BY <1>4, <2>1
  <2>7. Contents'
    BY <2>5, <2>6, ContentsStep DEF AgreementIInv, Contents
  <2>8. AgreementTypeOK'
    BY <2>1, <2>3, <2>7, ContentsTyped DEF AgreementIInv, AgreementTypeOK, Contents
  <2>9. \A a \in Agreements : /\ agreement'[a].phase # "draft"
                              /\ agreement[a].phase # "none" => agreement'[a].phase # "none"
                              /\ agreement'[a].phase = "upcoming" => a = d
    BY <2>2, <2>3
  <2>10. PhasesFit(agreement')
    <3>1. \A a, b \in Agreements :
            {agreement'[a].phase, agreement'[b].phase} \subseteq {"draft", "upcoming"} => a = b
      BY <2>9
    <3>2. \A a, b \in Agreements :
            agreement'[a].phase = "current" /\ agreement'[b].phase = "current" => a = b
      BY <2>3 DEF AgreementIInv, Phases, PhasesFit
    <3>3. \E b \in Agreements : agreement'[b].phase \in {"current", "ended"}
      BY <2>2, <2>3
    <3>4. ASSUME NEW a \in Agreements, agreement'[a].previous > 0
          PROVE  agreement'[agreement'[a].previous].phase \in {"current", "replaced", "ended"}
      <4>1. agreement'[a].previous = agreement[a].previous /\ agreement[a].previous > 0
        BY <2>3, <3>4
      <4>2. /\ agreement[a].previous \in Agreements
            /\ agreement[agreement[a].previous].phase \in {"current", "replaced", "ended"}
        BY <4>1, PrecededBy
      <4>3. agreement[a].previous # d
        BY <4>2
      <4> QED
        BY <2>3, <4>1, <4>2, <4>3
    <3> QED
      BY <3>1, <3>2, <3>3, <3>4 DEF PhasesFit
  <2>11. \A s \in Slots : \A n \in DOMAIN content'[s] : content'[s][n].owner > 0 =>
           agreement'[content'[s][n].owner].phase \notin {"none", "draft"}
    <3> TAKE s \in Slots
    <3> TAKE n \in DOMAIN content'[s]
    <3> HAVE content'[s][n].owner > 0
    <3>1. n \in DOMAIN content[s] /\ content'[s][n].owner = content[s][n].owner
      BY <2>5
    <3>2. content[s][n].owner \in Agreements
      BY <3>1, GoodContent, AgreementAssumption DEF Agreements
    <3>3. agreement[content[s][n].owner].phase # "none"
      BY <3>1 DEF AgreementIInv, Owners, OwnersFit
    <3> QED
      BY <2>9, <3>1, <3>2, <3>3
  <2>12. OwnersFit(agreement', content')
    BY <2>11 DEF OwnersFit
  <2>13. BindingsFit(agreement', member, content')
    <3> SUFFICES ASSUME NEW b \in Agreements, NEW s \in Slots, member[b][s].row > 0
                 PROVE  member[b][s].row \in DOMAIN content'[s]
      BY <2>11 DEF BindingsFit
    <3> QED
      BY <2>5, BoundRow
  <2>14. FrozenFits(agreement', frozen)
    BY <2>3 DEF AgreementIInv, Snapshots, FrozenFits
  <2>15. MidnightFits(agreement', today, content', midnight)
    <3>1. ~(agreement[d].date <= today)
      BY <1>1, <1>6 DEF AgreementIInv, AgreementTypeOK, Days
    <3> QED
      BY <2>3, <2>9, <3>1 DEF MidnightFits
  <2>16. LiveFits(agreement', member, content')
    <3>1. \A a \in Agreements : Reigns(agreement', a) => agreement'[a].phase = "current"
      BY <2>2, <2>3 DEF Reigns
    <3>2. ReignKept(agreement', member)
      BY <2>2, <2>3, <3>1 DEF ReignKept, Reigns
    <3>3. NoNewLife(content')
      BY <2>5 DEF NoNewLife
    <3> QED
      BY <3>2, <3>3, LivesKept
  <2>17. CasesStand
    BY <2>5, ExtendsStands
  <2> QED
    BY <2>1, <2>7, <2>8, <2>10, <2>12, <2>13, <2>14, <2>15, <2>16, <2>17
       DEF AgreementIInv, Phases, Owners, Bindings, Snapshots, Midnights, Lives
<1> QED
  BY <1>5, <1>6

\* An agreement that is due takes effect as things stood at its midnight.
LEMMA ActivateStep ==
  ASSUME AgreementIInv, NEW u \in Agreements, Activate(u)
  PROVE  /\ AgreementIInv' /\ CasesStand
         /\ \A a \in Agreements, s \in Slots :
              frozen[a][s] # NoSnapshot => frozen'[a][s] = frozen[a][s]
         /\ \A a \in Current, s \in Slots : Bound(a, s) =>
              frozen'[a][s] = midnight[s][member[a][s].row]
<1>1. /\ agreement[u].phase = "upcoming" /\ agreement[u].date <= today
      /\ TakeEffect(u, content, agreement[u].date) /\ UNCHANGED <<today, member>>
  BY DEF Activate, IsDue
<1>2. agreement[u].date \in Days
  BY DEF AgreementIInv, AgreementTypeOK
<1>3. \A s \in Slots : \A n \in DOMAIN content[s] : Kept(content[s][n], content[s][n])
  <2> TAKE s \in Slots
  <2> TAKE n \in DOMAIN content[s]
  <2> QED
    BY GoodContent, RewriteRow DEF Kept
<1>4. /\ AgreementIInv' /\ CasesStand
      /\ \A a \in Agreements, s \in Slots :
           frozen[a][s] # NoSnapshot => frozen'[a][s] = frozen[a][s]
      /\ \A a \in Current, s \in Slots : Bound(a, s) =>
           frozen'[a][s] = FollowupOf(content[s][member[a][s].row])
  <2> DEFINE rows == content
             date == agreement[u].date
  <2>1. /\ \A s \in Slots : DOMAIN rows[s] = DOMAIN content[s]
        /\ \A s \in Slots : \A n \in DOMAIN content[s] : Kept(content[s][n], rows[s][n])
        /\ TakeEffect(u, rows, date) /\ UNCHANGED <<today, member>>
        /\ agreement[u].phase \in {"draft", "upcoming"}
    BY <1>1, <1>3
  <2>2. date \in Days
    BY <1>2
  <2> HIDE DEF rows, date
  <2> QED
    BY <2>1, <2>2, TakeEffectStep
<1>5. \A s \in Slots : \A n \in DOMAIN content[s] : midnight[s][n] = FollowupOf(content[s][n])
  BY <1>1 DEF AgreementIInv, Midnights, MidnightFits
<1>6. ASSUME NEW a \in Current, NEW s \in Slots, Bound(a, s)
      PROVE  frozen'[a][s] = midnight[s][member[a][s].row]
  <2>1. a \in Agreements /\ member[a][s].row > 0
    BY <1>6 DEF Current, In, Bound
  <2>2. member[a][s].row \in DOMAIN content[s]
    BY <2>1, BoundRow
  <2> QED
    BY <1>4, <1>5, <1>6, <2>2
<1> QED
  BY <1>4, <1>6

\* The date of an agreement that has not taken effect is corrected.
LEMMA CorrectStep ==
  ASSUME AgreementIInv, Settled, NEW a \in Pending, NEW date \in Days, CorrectDate(a, date)
  PROVE  /\ AgreementIInv' /\ CasesStand
         /\ \A b \in Agreements, s \in Slots :
              frozen[b][s] # NoSnapshot => frozen'[b][s] = frozen[b][s]
<1>0. a \in Agreements /\ agreement[a].phase \in {"draft", "upcoming"}
  BY DEF Pending, In
<1>1. /\ date >= today /\ UNCHANGED <<today, member, midnight>>
      /\ IF agreement[a].phase = "upcoming" /\ date = today
         THEN TakeEffect(a, content, date)
         ELSE agreement' = [agreement EXCEPT ![a].date = date] /\ UNCHANGED <<frozen, content>>
  BY DEF CorrectDate
<1>2. CASE agreement[a].phase = "upcoming" /\ date = today
  <2> DEFINE rows == content
  <2>1. \A s \in Slots : DOMAIN rows[s] = DOMAIN content[s]
    OBVIOUS
  <2>2. \A s \in Slots : \A n \in DOMAIN content[s] : Kept(content[s][n], rows[s][n])
    <3> TAKE s \in Slots
    <3> TAKE n \in DOMAIN content[s]
    <3> QED
      BY GoodContent, RewriteRow DEF Kept
  <2>3. TakeEffect(a, rows, date) /\ UNCHANGED <<today, member>>
    BY <1>1, <1>2
  <2> HIDE DEF rows
  <2> QED
    BY <1>0, <2>1, <2>2, <2>3, TakeEffectStep
<1>3. CASE ~(agreement[a].phase = "upcoming" /\ date = today)
  <2> DEFINE q == [agreement[a] EXCEPT !.date = date]
  <2>1. agreement' = [agreement EXCEPT ![a] = q] /\ UNCHANGED <<today, member, frozen, content, midnight>>
    BY <1>1, <1>3
  <2>2. agreement \in [Agreements ->
          [phase : {"none", "draft", "upcoming", "current", "replaced", "ended", "cancelled"},
           date : Days, previous : 0 .. MaxAgreements]]
    BY DEF AgreementIInv, AgreementTypeOK
  <2>3. /\ q \in [phase : {"none", "draft", "upcoming", "current", "replaced", "ended", "cancelled"},
                  date : Days, previous : 0 .. MaxAgreements]
        /\ q.phase = agreement[a].phase /\ q.date = date /\ q.previous = agreement[a].previous
    BY <1>0, <2>2
  <2> HIDE DEF q
  <2>4. /\ agreement' \in [Agreements ->
             [phase : {"none", "draft", "upcoming", "current", "replaced", "ended", "cancelled"},
              date : Days, previous : 0 .. MaxAgreements]]
        /\ agreement'[a].date = date
        /\ \A b \in Agreements : /\ agreement'[b].phase = agreement[b].phase
                                 /\ agreement'[b].previous = agreement[b].previous
    BY <1>0, <2>1, <2>2, <2>3
  <2>5. Contents' /\ AgreementTypeOK'
    BY <2>1, <2>4 DEF AgreementIInv, AgreementTypeOK, Contents
  <2>6. PhasesFit(agreement')
    <3>1. \A b \in Agreements : agreement'[b].previous > 0 =>
            agreement'[agreement'[b].previous].phase \in {"current", "replaced", "ended"}
      BY <2>4, PrecededBy
    <3> QED
      BY <2>4, <3>1 DEF AgreementIInv, Phases, PhasesFit
  <2>7. \A s \in Slots : \A n \in DOMAIN content[s] : content[s][n].owner > 0 =>
          content[s][n].owner \in Agreements
    BY GoodContent, AgreementAssumption DEF Agreements
  <2>8. OwnersFit(agreement', content)
    BY <2>4, <2>7 DEF AgreementIInv, Owners, OwnersFit
  <2>9. BindingsFit(agreement', member, content)
    <3> SUFFICES ASSUME NEW b \in Agreements, NEW s \in Slots, member[b][s].row > 0
                 PROVE  /\ member[b][s].row \in DOMAIN content[s]
                        /\ LET o == content[s][member[b][s].row].owner IN
                             o > 0 /\ agreement'[o].phase = "draft" => o = b
      BY DEF BindingsFit
    <3>1. /\ member[b][s].row \in DOMAIN content[s]
          /\ LET o == content[s][member[b][s].row].owner IN
               o > 0 /\ agreement[o].phase = "draft" => o = b
      BY BoundRow
    <3>2. content[s][member[b][s].row].owner > 0 => content[s][member[b][s].row].owner \in Agreements
      BY <2>7, <3>1
    <3> QED
      BY <2>4, <3>1, <3>2
  <2>10. FrozenFits(agreement', frozen)
    BY <2>4 DEF AgreementIInv, Snapshots, FrozenFits
  <2>11. MidnightFits(agreement', today, content, midnight)
    <3> SUFFICES ASSUME NEW u \in Agreements, agreement'[u].phase = "upcoming",
                        agreement'[u].date <= today
                 PROVE  FALSE
      BY DEF MidnightFits
    <3>1. agreement[u].phase = "upcoming"
      BY <2>4
    <3>2. u = a
      BY <1>0, <3>1 DEF AgreementIInv, Phases, PhasesFit
    <3>3. date # today
      BY <1>3, <3>1, <3>2
    <3> QED
      BY <1>1, <2>4, <3>2, <3>3 DEF AgreementIInv, AgreementTypeOK, Days
  <2>12. LiveFits(agreement', member, content)
    <3>1. \A b \in Agreements : Reigns(agreement', b) => Reigns(agreement, b)
      BY <2>4 DEF Reigns
    <3> QED
      BY <2>4, <3>1 DEF AgreementIInv, Lives, LiveFits
  <2>13. CasesStand
    BY <2>1, StandsSame DEF CasesStand
  <2> QED
    BY <2>1, <2>5, <2>6, <2>8, <2>9, <2>10, <2>11, <2>12, <2>13
       DEF AgreementIInv, Phases, Owners, Bindings, Snapshots, Midnights, Lives
<1> QED
  BY <1>2, <1>3

\* The day ends: nothing is due yet, or the same agreement is.
LEMMA NextDayStep ==
  ASSUME AgreementIInv, NextDay
  PROVE  /\ AgreementIInv' /\ CasesStand
         /\ UNCHANGED <<agreement, member, frozen, content>>
<1>1. /\ today < MaxDay /\ today' = today + 1 /\ UNCHANGED <<agreement, member, frozen, content>>
      /\ midnight' = IF ~Settled THEN midnight
           ELSE [s \in Slots |->
             IF \E a \in In({"upcoming"}) : agreement[a].date = today + 1
             THEN [n \in DOMAIN content[s] |-> FollowupOf(content[s][n])] ELSE <<>>]
  BY DEF NextDay
<1>2. today' \in Days
  BY <1>1, AgreementAssumption DEF AgreementIInv, AgreementTypeOK, Days
<1>3. MidnightFits(agreement, today', content, midnight')
  <2> SUFFICES ASSUME NEW u \in Agreements, agreement[u].phase = "upcoming",
                      agreement[u].date <= today', NEW s \in Slots, NEW n \in DOMAIN content[s]
               PROVE  midnight'[s][n] = FollowupOf(content[s][n])
    BY DEF MidnightFits
  <2>1. CASE Settled
    <3>1. agreement[u].date = today + 1
      BY <1>1, <2>1, NotDue DEF AgreementIInv, AgreementTypeOK, Days
    <3>2. u \in In({"upcoming"})
      BY DEF In
    <3> QED
      BY <1>1, <2>1, <3>1, <3>2
  <2>2. CASE ~Settled
    <3>1. PICK v \in Agreements : agreement[v].phase = "upcoming" /\ agreement[v].date <= today
      BY <2>2 DEF Settled, IsDue
    <3>2. v = u
      BY <3>1 DEF AgreementIInv, Phases, PhasesFit
    <3> QED
      BY <1>1, <2>2, <3>1 DEF AgreementIInv, Midnights, MidnightFits
  <2> QED
    BY <2>1, <2>2
<1>4. CasesStand
  BY <1>1, StandsSame DEF CasesStand
<1>5. AgreementTypeOK' /\ Contents' /\ Phases' /\ Owners' /\ Bindings' /\ Snapshots' /\ Lives'
  BY <1>1, <1>2 DEF AgreementIInv, AgreementTypeOK, Contents, Phases, Owners, Bindings, Snapshots,
                    Lives
<1> QED
  BY <1>1, <1>3, <1>4, <1>5 DEF AgreementIInv, Midnights

\* The current agreement ends: its content is not live any more.
LEMMA EndStep ==
  ASSUME AgreementIInv, NEW a \in Current, EndAgreement(a)
  PROVE  /\ AgreementIInv' /\ CasesStand
         /\ \A b \in Agreements, s \in Slots :
              frozen[b][s] # NoSnapshot => frozen'[b][s] = frozen[b][s]
<1>0. a \in Agreements /\ agreement[a].phase = "current"
  BY DEF Current, In
<1>1. /\ Pending = {} /\ frozen' = Snapshot(a) /\ UNCHANGED <<today, member, midnight>>
      /\ content' = [s \in Slots |-> [n \in DOMAIN content[s] |-> EndedRow(a, s, n)]]
      /\ agreement' = [agreement EXCEPT ![a].phase = "ended"]
  BY DEF EndAgreement
<1>2. \A b \in Agreements : agreement[b].phase \notin {"draft", "upcoming"}
  BY <1>1 DEF Pending, In
<1>3. /\ agreement' \in [Agreements ->
            [phase : {"none", "draft", "upcoming", "current", "replaced", "ended", "cancelled"},
             date : Days, previous : 0 .. MaxAgreements]]
      /\ agreement'[a].phase = "ended"
      /\ \A b \in Agreements \ {a} : agreement'[b].phase = agreement[b].phase
      /\ \A b \in Agreements : /\ agreement'[b].date = agreement[b].date
                               /\ agreement'[b].previous = agreement[b].previous
  BY <1>0, <1>1, PhaseSet
<1>4. \A b \in Agreements : /\ agreement'[b].phase \notin {"draft", "upcoming"}
                            /\ agreement'[b].phase # "current"
  BY <1>0, <1>2, <1>3 DEF AgreementIInv, Phases, PhasesFit
<1>5. ASSUME NEW s \in Slots, NEW n \in DOMAIN content[s]
      PROVE  /\ EndedRow(a, s, n) \in GoodRow /\ Stands(content[s][n], EndedRow(a, s, n))
             /\ EndedRow(a, s, n).owner = content[s][n].owner
             /\ EndedRow(a, s, n).live = FALSE
  <2> DEFINE r == content[s][n]
  <2>1. r \in GoodRow /\ r \in Row
    BY <1>5, GoodContent
  <2>2. CASE member[a][s].row # n
    <3>1. EndedRow(a, s, n) = r
      BY <2>2 DEF EndedRow
    <3>2. Reigns(agreement, a)
      BY <1>0 DEF Reigns
    <3>3. r.live <=> member[a][s] = [row |-> n, removed |-> FALSE]
      BY <1>0, <1>5, <3>2 DEF AgreementIInv, Lives, LiveFits
    <3>4. r.live \in BOOLEAN
      BY <2>1 DEF Row
    <3>5. r.live = FALSE
      BY <2>2, <3>3, <3>4
    <3> QED
      BY <2>1, <3>1, <3>5, StandsSame
  <2>3. CASE member[a][s].row = n
    <3> DEFINE e == IF Member(a, s, n) THEN EndApplicable(r, "agreement_ended") ELSE r
               q == CancelUndecided(e)
    <3>1. Kept(r, EndApplicable(r, "agreement_ended"))
      BY <2>1, EndKeeps
    <3>2. Kept(r, r)
      BY <2>1, RewriteRow DEF Kept
    <3>3. Kept(r, e)
      BY <3>1, <3>2
    <3>4. e \in Row
      BY <3>3 DEF Kept, Gentle
    <3> DEFINE off == FALSE
               p == EndedRow(a, s, n)
    <3>7. p = [q EXCEPT !.live = off] /\ off \in BOOLEAN
      BY <2>3 DEF EndedRow
    <3> HIDE DEF e
    <3>5. Kept(e, q)
      BY <3>4, CancelKeeps
    <3> HIDE DEF q
    <3>6. Kept(r, q)
      BY <2>1, <3>3, <3>5, GentleTwice DEF Kept
    <3> HIDE DEF off, p
    <3>8. p \in GoodRow /\ Stands(r, p) /\ p.live = off /\ p.owner = r.owner
      BY <2>1, <3>6, <3>7, SetLive
    <3> QED
      BY <3>8 DEF off, p
  <2> QED
    BY <2>2, <2>3
<1>6. \A s \in Slots :
        /\ Extends(content[s], content'[s]) /\ DOMAIN content'[s] = DOMAIN content[s]
        /\ \A n \in DOMAIN content[s] : /\ content'[s][n].owner = content[s][n].owner
                                        /\ content'[s][n].live = FALSE
  <2> TAKE s \in Slots
  <2> DEFINE new == content'[s]
  <2>1. new = [n \in DOMAIN content[s] |-> EndedRow(a, s, n)]
    BY <1>1
  <2>2. /\ new = [n \in DOMAIN content[s] |-> new[n]]
        /\ \A n \in DOMAIN content[s] :
             /\ new[n] \in GoodRow /\ Stands(content[s][n], new[n])
             /\ new[n].owner = content[s][n].owner /\ new[n].live = FALSE
    BY <1>5, <2>1
  <2> HIDE DEF new
  <2>3. Extends(content[s], new) /\ DOMAIN new = DOMAIN content[s]
    BY <2>2, GoodContent, MapExtends
  <2> QED
    BY <2>2, <2>3 DEF new
<1>7. content' = [s \in Slots |-> content'[s]]
  BY <1>1
<1>8. /\ frozen' \in [Agreements -> [Slots -> Followup]]
      /\ \A b \in Agreements \ {a} : frozen'[b] = frozen[b]
      /\ \A s \in Slots : frozen[a][s] # NoSnapshot => frozen'[a][s] = frozen[a][s]
  BY <1>0, <1>1, SnapshotFits
<1>9. Contents'
  BY <1>6, <1>7, ContentsStep DEF AgreementIInv, Contents
<1>10. AgreementTypeOK'
  BY <1>1, <1>3, <1>8, <1>9, ContentsTyped DEF AgreementIInv, AgreementTypeOK, Contents, Followup
<1>11. PhasesFit(agreement')
  <2>1. ASSUME NEW b \in Agreements, agreement'[b].previous > 0
        PROVE  agreement'[agreement'[b].previous].phase \in {"current", "replaced", "ended"}
    <3>1. agreement'[b].previous = agreement[b].previous /\ agreement[b].previous > 0
      BY <1>3, <2>1
    <3>2. /\ agreement[b].previous \in Agreements
          /\ agreement[agreement[b].previous].phase \in {"current", "replaced", "ended"}
      BY <3>1, PrecededBy
    <3> QED
      BY <1>3, <3>1, <3>2
  <2> QED
    BY <1>0, <1>3, <1>4, <2>1 DEF PhasesFit
<1>12. \A s \in Slots : \A n \in DOMAIN content'[s] : content'[s][n].owner > 0 =>
         agreement'[content'[s][n].owner].phase \notin {"none", "draft"}
  <2> TAKE s \in Slots
  <2> TAKE n \in DOMAIN content'[s]
  <2> HAVE content'[s][n].owner > 0
  <2>1. n \in DOMAIN content[s] /\ content'[s][n].owner = content[s][n].owner
    BY <1>6
  <2>2. content[s][n].owner \in Agreements
    BY <2>1, GoodContent, AgreementAssumption DEF Agreements
  <2>3. agreement[content[s][n].owner].phase # "none"
    BY <2>1 DEF AgreementIInv, Owners, OwnersFit
  <2> QED
    BY <1>3, <1>4, <2>1, <2>2, <2>3
<1>13. OwnersFit(agreement', content')
  BY <1>12 DEF OwnersFit
<1>14. BindingsFit(agreement', member, content')
  <2> SUFFICES ASSUME NEW b \in Agreements, NEW s \in Slots, member[b][s].row > 0
               PROVE  member[b][s].row \in DOMAIN content'[s]
    BY <1>12 DEF BindingsFit
  <2> QED
    BY <1>6, BoundRow
<1>15. FrozenFits(agreement', frozen')
  <2> SUFFICES ASSUME NEW b \in Agreements,
                      agreement'[b].phase \in {"none", "draft", "upcoming", "current"},
                      NEW s \in Slots
               PROVE  frozen'[b][s] = NoSnapshot
    BY DEF FrozenFits
  <2>1. b # a /\ agreement[b].phase = "none"
    BY <1>3, <1>4
  <2> QED
    BY <1>8, <2>1 DEF AgreementIInv, Snapshots, FrozenFits
<1>16. MidnightFits(agreement', today, content', midnight)
  BY <1>4 DEF MidnightFits
<1>17. LiveFits(agreement', member, content')
  BY <1>4, <1>6 DEF LiveFits, Reigns
<1>18. CasesStand
  BY <1>6, ExtendsStands
<1>19. \A b \in Agreements, s \in Slots :
         frozen[b][s] # NoSnapshot => frozen'[b][s] = frozen[b][s]
  BY <1>8
<1> QED
  BY <1>1, <1>9, <1>10, <1>11, <1>13, <1>14, <1>15, <1>16, <1>17, <1>18, <1>19
     DEF AgreementIInv, Phases, Owners, Bindings, Snapshots, Midnights, Lives

LEMMA FreedKept ==
  ASSUME AgreementIInv, NEW u \in Agreements, NEW s \in Slots, NEW n \in DOMAIN content[s]
  PROVE  Kept(content[s][n], Freed(u, s, n))
<1> DEFINE r == content[s][n]
           q == CancelPlans(r, u)
<1>1. r \in GoodRow /\ r \in Row
  BY GoodContent
<1>2. Kept(r, q)
  BY <1>1, UnplanKeeps
<1>3. q \in Row
  BY <1>2 DEF Kept, Gentle
<1>4. Freed(u, s, n) = q \/ Freed(u, s, n) = CancelUndecided(q)
  BY DEF Freed
<1> HIDE DEF q
<1>5. Kept(q, CancelUndecided(q))
  BY <1>3, CancelKeeps
<1>6. Kept(r, CancelUndecided(q))
  BY <1>1, <1>2, <1>5, GentleTwice DEF Kept
<1> QED
  BY <1>2, <1>4, <1>6

\* What cancelling agreement u makes of a row.
LEMMA WithdrawnRow ==
  ASSUME AgreementIInv, NEW u \in Agreements, NEW s \in Slots, NEW n \in DOMAIN content[s]
  PROVE  LET p == Withdrawn(u, s, n) IN
           /\ p \in GoodRow /\ Stands(content[s][n], p)
           /\ p.owner = content[s][n].owner \/ p.owner = u
           /\ IF Activated = {} /\ Member(u, s, n) THEN p.live = FALSE
              ELSE p.live = content[s][n].live
<1> DEFINE r == content[s][n]
           q == Freed(u, s, n)
           p == Withdrawn(u, s, n)
<1>1. r \in GoodRow
  BY GoodContent
<1>2. Kept(r, q)
  BY FreedKept
<1>3. CASE Activated = {} /\ Member(u, s, n)
  <2>1. p = [q EXCEPT !.live = FALSE, !.owner = u]
    BY <1>3 DEF Withdrawn
  <2>2. u \in 0 .. MaxAgreements
    BY AgreementAssumption DEF Agreements
  <2>3. r \in Row /\ q \in Row /\ Gentle(r, q)
    BY <1>1, <1>2 DEF Kept, Gentle, GoodRow
  <2> HIDE DEF p, q
  <2>4. p \in Row /\ p.cases = q.cases /\ p.live = FALSE /\ p.owner = u
    BY <2>1, <2>2, <2>3 DEF Row
  <2>5. Gentle(q, p)
    BY <2>3, <2>4, RewriteRow
  <2>6. Gentle(r, p)
    BY <2>3, <2>5, GentleTwice
  <2>7. p \in GoodRow /\ Stands(r, p)
    BY <1>1, <2>6, GentleGood
  <2> QED
    BY <1>3, <2>4, <2>7 DEF p
<1>4. CASE ~(Activated = {} /\ Member(u, s, n))
  <2>1. p = q
    BY <1>4 DEF Withdrawn
  <2> HIDE DEF p, q
  <2>2. Rewritten(r, p)
    BY <1>1, <1>2, <2>1, KeptRewritten
  <2>3. p \in GoodRow /\ Stands(r, p) /\ p.live = r.live /\ p.owner = r.owner
    BY <2>2 DEF Rewritten
  <2> QED
    BY <1>4, <2>3 DEF p
<1> QED
  BY <1>3, <1>4

\* An agreement is cancelled before it takes effect.
LEMMA CancelStep ==
  ASSUME AgreementIInv, NEW u \in In({"upcoming"}), CancelUpcoming(u)
  PROVE  /\ AgreementIInv' /\ CasesStand
         /\ \A b \in Agreements, s \in Slots :
              frozen[b][s] # NoSnapshot => frozen'[b][s] = frozen[b][s]
<1> DEFINE rows == [s \in Slots |-> [n \in DOMAIN content[s] |-> Withdrawn(u, s, n)]]
           copied == {s \in Slots : Activated = {} /\ Bound(u, s) /\ ~member[u][s].removed}
           copy(s) == NewRow(TRUE, 0, content[s][member[u][s].row].status)
<1>0. u \in Agreements /\ agreement[u].phase = "upcoming"
  BY DEF In
<1>1. /\ \A s \in copied : Room(s)
      /\ frozen' = Snapshot(u) /\ UNCHANGED <<today, member, midnight>>
      /\ content' = [s \in Slots |-> IF s \in copied THEN Append(rows[s], copy(s)) ELSE rows[s]]
      /\ agreement' = [agreement EXCEPT ![u].phase = "cancelled"]
  BY DEF CancelUpcoming
<1>2. \A b \in Agreements : agreement[b].phase \in {"draft", "upcoming"} => b = u
  BY <1>0 DEF AgreementIInv, Phases, PhasesFit
<1>3. /\ agreement' \in [Agreements ->
            [phase : {"none", "draft", "upcoming", "current", "replaced", "ended", "cancelled"},
             date : Days, previous : 0 .. MaxAgreements]]
      /\ agreement'[u].phase = "cancelled"
      /\ \A b \in Agreements \ {u} : agreement'[b].phase = agreement[b].phase
      /\ \A b \in Agreements : /\ agreement'[b].date = agreement[b].date
                               /\ agreement'[b].previous = agreement[b].previous
  BY <1>0, <1>1, PhaseSet
<1>4. \A b \in Agreements : agreement'[b].phase \notin {"draft", "upcoming"}
  BY <1>2, <1>3
<1>5. \A s \in Slots :
        /\ Extends(content[s], rows[s]) /\ DOMAIN rows[s] = DOMAIN content[s]
        /\ Len(rows[s]) = Len(content[s])
        /\ \A n \in DOMAIN content[s] :
             /\ rows[s][n].owner = content[s][n].owner \/ rows[s][n].owner = u
             /\ IF Activated = {} /\ Member(u, s, n) THEN rows[s][n].live = FALSE
                ELSE rows[s][n].live = content[s][n].live
  <2> TAKE s \in Slots
  <2> DEFINE new == rows[s]
  <2>1. /\ new = [n \in DOMAIN content[s] |-> new[n]]
        /\ \A n \in DOMAIN content[s] :
             /\ new[n] \in GoodRow /\ Stands(content[s][n], new[n])
             /\ new[n].owner = content[s][n].owner \/ new[n].owner = u
             /\ IF Activated = {} /\ Member(u, s, n) THEN new[n].live = FALSE
                ELSE new[n].live = content[s][n].live
    BY <1>0, WithdrawnRow
  <2> HIDE DEF new
  <2>2. Extends(content[s], new) /\ DOMAIN new = DOMAIN content[s] /\ Len(new) = Len(content[s])
    BY <2>1, GoodContent, MapExtends
  <2> QED
    BY <2>1, <2>2 DEF new
<1>6. \A s \in copied : copy(s) \in GoodRow /\ copy(s).live = TRUE /\ copy(s).owner = 0
  <2> TAKE s \in copied
  <2>1. s \in Slots /\ member[u][s].row > 0
    BY DEF Bound
  <2>2. member[u][s].row \in DOMAIN content[s]
    BY <1>0, <2>1, BoundRow
  <2>3. content[s][member[u][s].row].status \in Statuses /\ 0 \in 0 .. MaxAgreements
    BY <2>1, <2>2, GoodContent, AgreementAssumption
  <2> QED
    BY <2>3, NewGood
<1> HIDE DEF rows, copy
<1>7. ASSUME NEW s \in copied
      PROVE  /\ content'[s] = Append(rows[s], copy(s)) /\ s \in Slots /\ Activated = {}
             /\ Extends(content[s], content'[s])
             /\ DOMAIN content'[s] = DOMAIN content[s] \cup {Len(content[s]) + 1}
             /\ Len(content[s]) + 1 \notin DOMAIN content[s]
             /\ content'[s][Len(content[s]) + 1] = copy(s)
             /\ \A n \in DOMAIN content[s] : content'[s][n] = rows[s][n]
  <2>1. s \in Slots /\ Activated = {} /\ content'[s] = Append(rows[s], copy(s))
    BY <1>1
  <2>2. Len(rows[s]) < MaxRows
    BY <1>1, <1>5, <2>1 DEF Room
  <2> QED
    BY <1>5, <1>6, <2>1, <2>2, AddRow
<1>8. ASSUME NEW s \in Slots \ copied PROVE content'[s] = rows[s]
  BY <1>1
<1>9. content' = [s \in Slots |-> content'[s]]
  BY <1>1
<1> HIDE DEF copied
<1>10. \A s \in Slots :
         /\ Extends(content[s], content'[s]) /\ DOMAIN content[s] \subseteq DOMAIN content'[s]
         /\ \A n \in DOMAIN content[s] : content'[s][n] = rows[s][n]
         /\ \A n \in DOMAIN content'[s] : /\ content'[s][n].owner > 0 => n \in DOMAIN content[s]
                                          /\ n \notin DOMAIN content[s] =>
                                               s \in copied /\ n = Len(content[s]) + 1
  <2> TAKE s \in Slots
  <2>1. CASE s \in copied
    BY <1>6, <1>7, <2>1
  <2>2. CASE s \notin copied
    BY <1>5, <1>8, <2>2
  <2> QED
    BY <2>1, <2>2
<1>11. Contents'
  BY <1>9, <1>10, ContentsStep DEF AgreementIInv, Contents
<1>12. /\ frozen' \in [Agreements -> [Slots -> Followup]]
       /\ \A b \in Agreements \ {u} : frozen'[b] = frozen[b]
       /\ \A s \in Slots : frozen[u][s] # NoSnapshot => frozen'[u][s] = frozen[u][s]
  BY <1>0, <1>1, SnapshotFits
<1>13. AgreementTypeOK'
  BY <1>1, <1>3, <1>11, <1>12, ContentsTyped DEF AgreementIInv, AgreementTypeOK, Contents, Followup
<1>14. PhasesFit(agreement')
  <2>1. ASSUME NEW b \in Agreements, agreement'[b].previous > 0
        PROVE  agreement'[agreement'[b].previous].phase \in {"current", "replaced", "ended"}
    <3>1. agreement'[b].previous = agreement[b].previous /\ agreement[b].previous > 0
      BY <1>3, <2>1
    <3>2. /\ agreement[b].previous \in Agreements
          /\ agreement[agreement[b].previous].phase \in {"current", "replaced", "ended"}
      BY <3>1, PrecededBy
    <3>3. agreement[b].previous # u
      BY <1>0, <3>2
    <3> QED
      BY <1>3, <3>1, <3>2, <3>3
  <2>2. \A b, c \in Agreements :
          agreement'[b].phase = "current" /\ agreement'[c].phase = "current" => b = c
    BY <1>3 DEF AgreementIInv, Phases, PhasesFit
  <2>3. ASSUME NEW b \in Agreements, agreement'[b].phase \in {"current", "replaced", "ended"}
        PROVE  \E c \in Agreements : agreement'[c].phase \in {"current", "ended"}
    <3>1. agreement[b].phase \in {"current", "replaced", "ended"}
      BY <1>3, <2>3
    <3>2. PICK c \in Agreements : agreement[c].phase \in {"current", "ended"}
      BY <3>1 DEF AgreementIInv, Phases, PhasesFit
    <3> QED
      BY <1>0, <1>3, <3>2
  <2> QED
    BY <1>4, <2>1, <2>2, <2>3 DEF PhasesFit
<1>15. \A s \in Slots : \A n \in DOMAIN content'[s] : content'[s][n].owner > 0 =>
         agreement'[content'[s][n].owner].phase \notin {"none", "draft"}
  <2> TAKE s \in Slots
  <2> TAKE n \in DOMAIN content'[s]
  <2> HAVE content'[s][n].owner > 0
  <2>1. n \in DOMAIN content[s] /\ content'[s][n] = rows[s][n]
    BY <1>10
  <2>2. CASE content'[s][n].owner = u
    BY <1>3, <2>2
  <2>3. CASE content'[s][n].owner # u
    <3>1. content'[s][n].owner = content[s][n].owner
      BY <1>5, <2>1, <2>3
    <3>2. content[s][n].owner \in Agreements
      BY <2>1, <3>1, GoodContent, AgreementAssumption DEF Agreements
    <3>3. agreement[content[s][n].owner].phase # "none"
      BY <2>1, <3>1 DEF AgreementIInv, Owners, OwnersFit
    <3> QED
      BY <1>3, <1>4, <3>1, <3>2, <3>3
  <2> QED
    BY <2>2, <2>3
<1>16. OwnersFit(agreement', content')
  BY <1>15 DEF OwnersFit
<1>17. BindingsFit(agreement', member, content')
  <2> SUFFICES ASSUME NEW b \in Agreements, NEW s \in Slots, member[b][s].row > 0
               PROVE  member[b][s].row \in DOMAIN content'[s]
    BY <1>15 DEF BindingsFit
  <2> QED
    BY <1>10, BoundRow
<1>18. FrozenFits(agreement', frozen')
  <2> SUFFICES ASSUME NEW b \in Agreements,
                      agreement'[b].phase \in {"none", "draft", "upcoming", "current"},
                      NEW s \in Slots
               PROVE  frozen'[b][s] = NoSnapshot
    BY DEF FrozenFits
  <2>1. b # u /\ agreement[b].phase \in {"none", "current"}
    BY <1>3, <1>4
  <2> QED
    BY <1>12, <2>1 DEF AgreementIInv, Snapshots, FrozenFits
<1>19. MidnightFits(agreement', today, content', midnight)
  BY <1>4 DEF MidnightFits
<1>20. LiveFits(agreement', member, content')
  <2>1. CASE Activated # {}
    <3>1. PICK c \in Agreements : agreement[c].phase \in {"current", "replaced", "ended"}
      BY <2>1 DEF Activated, In
    <3>2. ReignKept(agreement', member)
      <4>1. \A b \in Agreements : Reigns(agreement', b) =>
              agreement'[b].phase = "current" /\ agreement[b].phase = "current"
        BY <1>3, <1>4 DEF Reigns
      <4>2. \A b \in Agreements : agreement'[b].phase = "ended" => agreement[b].phase = "ended"
        BY <1>3
      <4>3. \A b \in Agreements : agreement[b].phase = "current" => agreement'[b].phase = "current"
        BY <1>0, <1>3
      <4> QED
        BY <4>1, <4>2, <4>3 DEF ReignKept, Reigns
    <3>3. \A s \in Slots : content'[s] = rows[s]
      BY <1>7, <1>8, <2>1
    <3>4. NoNewLife(content')
      BY <1>5, <2>1, <3>3 DEF NoNewLife
    <3> QED
      BY <3>2, <3>4, LivesKept
  <2>2. CASE Activated = {}
    <3>1. \A b \in Agreements : /\ agreement[b].phase \notin {"current", "replaced", "ended"}
                                /\ agreement'[b].phase \notin {"current", "ended"}
      BY <1>3, <2>2 DEF Activated, In
    <3>2. \A b \in Agreements : ~Reigns(agreement', b)
      BY <1>4, <3>1 DEF Reigns
    <3>3. Reigns(agreement, u)
      BY <1>0, <3>1 DEF Reigns
    <3>4. \A s \in Slots : \A n \in DOMAIN content[s] : ~content'[s][n].live
      <4> TAKE s \in Slots
      <4> TAKE n \in DOMAIN content[s]
      <4>1. content[s][n].live <=> member[u][s] = [row |-> n, removed |-> FALSE]
        BY <1>0, <3>3 DEF AgreementIInv, Lives, LiveFits
      <4>2. content'[s][n] = rows[s][n] /\ n > 0
        BY <1>10, GoodContent
      <4>3. CASE Member(u, s, n)
        BY <1>5, <2>2, <4>2, <4>3
      <4>4. CASE ~Member(u, s, n)
        <5>1. ~content[s][n].live
          BY <4>1, <4>2, <4>4 DEF Member
        <5>2. rows[s][n].live = content[s][n].live
          BY <1>5, <4>4
        <5> QED
          BY <4>2, <5>1, <5>2
      <4> QED
        BY <4>3, <4>4
    <3>5. \A s \in Slots : \A n, m \in DOMAIN content'[s] :
            content'[s][n].live /\ content'[s][m].live => n = m
      BY <1>10, <3>4
    <3> QED
      BY <3>1, <3>2, <3>5 DEF LiveFits
  <2> QED
    BY <2>1, <2>2
<1>21. CasesStand
  BY <1>10, ExtendsStands
<1>22. \A b \in Agreements, s \in Slots :
         frozen[b][s] # NoSnapshot => frozen'[b][s] = frozen[b][s]
  BY <1>12
<1> QED
  BY <1>1, <1>11, <1>13, <1>14, <1>16, <1>17, <1>18, <1>19, <1>20, <1>21, <1>22
     DEF AgreementIInv, Phases, Owners, Bindings, Snapshots, Midnights, Lives

-----------------------------------------------------------------------------
(***************************************************************************)
(* The theorems.                                                           *)
(***************************************************************************)
FrozenStands ==
  \A a \in Agreements, s \in Slots : frozen[a][s] # NoSnapshot => frozen'[a][s] = frozen[a][s]

FrozenAsAtMidnight ==
  \A u \in Agreements : IsDue(u) /\ agreement'[u].phase = "current" =>
    \A a \in Current : \A x \in MembersOf(a) : frozen'[a][x[1]] = midnight[x[1]][x[2]]

LEMMA NothingDue ==
  ASSUME Settled PROVE FrozenAsAtMidnight
  BY DEF Settled, FrozenAsAtMidnight

LEMMA AgreementsInit ==
  ASSUME AgreementInit PROVE AgreementIInv
<1>1. /\ today = 0 /\ agreement = [a \in Agreements |-> NoAgreement]
      /\ member = [a \in Agreements |-> [s \in Slots |-> NoMember]]
      /\ frozen = [a \in Agreements |-> [s \in Slots |-> NoSnapshot]]
      /\ content = [s \in Slots |-> <<>>]
  BY DEF AgreementInit
<1>2. \A s \in Slots : content[s] = <<>> /\ content[s] \in Seq(GoodRow) /\ content[s] \in Seq(Row)
                       /\ Len(content[s]) = 0 /\ DOMAIN content[s] = {}
  BY <1>1
<1>3. Contents
  BY <1>1, <1>2, AgreementAssumption DEF Contents
<1>4. /\ today \in Days
      /\ agreement \in [Agreements ->
           [phase : {"none", "draft", "upcoming", "current", "replaced", "ended", "cancelled"},
            date : Days, previous : 0 .. MaxAgreements]]
  BY <1>1, AgreementAssumption DEF NoAgreement, Days
<1>5. member \in [Agreements -> [Slots -> [row : 0 .. MaxRows, removed : BOOLEAN]]]
  BY <1>1, AgreementAssumption DEF NoMember
<1>6. frozen \in [Agreements -> [Slots -> [status : Statuses \cup {"none"}, review : Seq(BOOLEAN)]]]
  BY <1>1 DEF NoSnapshot
<1>7. AgreementTypeOK
  BY <1>1, <1>2, <1>4, <1>5, <1>6 DEF AgreementTypeOK
<1>8. \A a \in Agreements : agreement[a].phase = "none" /\ agreement[a].previous = 0
  BY <1>1 DEF NoAgreement
<1>9. Phases
  BY <1>8 DEF Phases, PhasesFit
<1>10. Owners /\ Midnights
  BY <1>2, <1>8 DEF Owners, OwnersFit, Midnights, MidnightFits
<1>11. Bindings
  BY <1>1 DEF Bindings, BindingsFit, NoMember
<1>12. Snapshots
  BY <1>1 DEF Snapshots, FrozenFits
<1>13. Lives
  BY <1>2, <1>8 DEF Lives, LiveFits, Reigns
<1> QED
  BY <1>3, <1>7, <1>9, <1>10, <1>11, <1>12, <1>13 DEF AgreementIInv

LEMMA AgreementsStep ==
  ASSUME AgreementIInv, AgreementNext
  PROVE  AgreementIInv' /\ CasesStand /\ FrozenStands /\ FrozenAsAtMidnight
<1>1. CASE NextDay
  <2>1. \A u \in Agreements : IsDue(u) => agreement'[u].phase # "current"
    BY <1>1, NextDayStep DEF IsDue
  <2> QED
    BY <1>1, <2>1, NextDayStep DEF FrozenStands, FrozenAsAtMidnight
<1>2. ASSUME NEW u \in Agreements, Activate(u)
      PROVE  AgreementIInv' /\ CasesStand /\ FrozenStands /\ FrozenAsAtMidnight
  <2>1. ASSUME NEW a \in Current, NEW x \in MembersOf(a)
        PROVE  frozen'[a][x[1]] = midnight[x[1]][x[2]]
    <3>1. x[1] \in Slots /\ Member(a, x[1], x[2])
      BY DEF MembersOf
    <3>2. member[a][x[1]].row = x[2] /\ Bound(a, x[1])
      BY <3>1 DEF Member, Bound
    <3> QED
      BY <1>2, <3>1, <3>2, ActivateStep
  <2> QED
    BY <1>2, <2>1, ActivateStep DEF FrozenStands, FrozenAsAtMidnight
<1>3. ASSUME NEW s \in Slots, NEW n \in DOMAIN content[s], OnRow(s, n)
      PROVE  AgreementIInv' /\ CasesStand /\ FrozenStands /\ FrozenAsAtMidnight
  <2>1. UNCHANGED frozen
    BY <1>3 DEF OnRow, FollowUp, CreateDeviation, MoveCase, ApproveDeviation, CancelDeviation,
                CloseDeviation
  <2> QED
    BY <1>3, <2>1, RowStep, NothingDue DEF FrozenStands
<1>4. ASSUME Settled, NEW s \in Slots, OnWorkingSet(s)
      PROVE  AgreementIInv' /\ CasesStand /\ FrozenStands /\ FrozenAsAtMidnight
  <2>1. UNCHANGED frozen
    BY <1>4 DEF OnWorkingSet, AddContent, RemoveContent, ReplaceContent
  <2> QED
    BY <1>4, <2>1, WorkingSetStep, NothingDue DEF FrozenStands
<1>5. ASSUME Settled, OnAgreements
      PROVE  AgreementIInv' /\ CasesStand /\ FrozenStands /\ FrozenAsAtMidnight
  <2>1. ASSUME NEW date \in Days, RegisterFirst(date)
        PROVE  AgreementIInv' /\ CasesStand /\ FrozenStands
    BY <2>1, RegisterFirstStep DEF RegisterFirst, FrozenStands
  <2>2. ASSUME NEW date \in Days, CreateDraft(date)
        PROVE  AgreementIInv' /\ CasesStand /\ FrozenStands
    BY <2>2, CreateDraftStep DEF CreateDraft, FrozenStands
  <2>3. ASSUME NEW d \in In({"draft"}), NEW s \in Slots,
               AddToDraft(d, s) \/ ChangeInDraft(d, s) \/ RemoveFromDraft(d, s) \/ UndoInDraft(d, s)
        PROVE  AgreementIInv' /\ CasesStand /\ FrozenStands
    <3>1. d \in Agreements /\ agreement[d].phase = "draft"
      BY DEF In
    <3>2. UNCHANGED frozen
      BY <2>3 DEF AddToDraft, ChangeInDraft, RemoveFromDraft, UndoInDraft
    <3>3. AgreementIInv' /\ CasesStand
      BY <2>3, <3>1, AddStep, ChangeStep, RemoveStep, UndoStep
    <3> QED
      BY <3>2, <3>3 DEF FrozenStands
  <2>4. ASSUME NEW d \in In({"draft"}), DiscardDraft(d) \/ ConfirmDraft(d)
        PROVE  AgreementIInv' /\ CasesStand /\ FrozenStands
    <3>1. d \in Agreements /\ agreement[d].phase = "draft"
      BY DEF In
    <3>2. CASE DiscardDraft(d)
      BY <3>1, <3>2, DiscardStep DEF DiscardDraft, FrozenStands
    <3>3. CASE ConfirmDraft(d)
      BY <1>5, <3>1, <3>3, ConfirmStep DEF FrozenStands
    <3> QED
      BY <2>4, <3>2, <3>3
  <2>5. ASSUME NEW a \in Pending, NEW date \in Days, CorrectDate(a, date)
        PROVE  AgreementIInv' /\ CasesStand /\ FrozenStands
    BY <1>5, <2>5, CorrectStep DEF FrozenStands
  <2>6. ASSUME NEW u \in In({"upcoming"}), CancelUpcoming(u)
        PROVE  AgreementIInv' /\ CasesStand /\ FrozenStands
    BY <2>6, CancelStep DEF FrozenStands
  <2>7. ASSUME NEW a \in Current, EndAgreement(a)
        PROVE  AgreementIInv' /\ CasesStand /\ FrozenStands
    BY <2>7, EndStep DEF FrozenStands
  <2>8. FrozenAsAtMidnight
    BY <1>5, NothingDue
  <2> QED
    BY <1>5, <2>1, <2>2, <2>3, <2>4, <2>5, <2>6, <2>7, <2>8 DEF OnAgreements
<1>6. ASSUME NEW s \in Slots, NEW n \in DOMAIN content[s], NEW status \in Statuses, FollowUp(s, n, status)
      PROVE  OnRow(s, n)
  BY <1>6 DEF OnRow
<1>7. ASSUME Settled, NEW s \in Slots, OnContent(s)
      PROVE  OnWorkingSet(s) \/ \E n \in DOMAIN content[s] : OnRow(s, n)
  BY <1>7 DEF OnContent, OnRow, OnWorkingSet
<1> QED
  BY <1>1, <1>2, <1>3, <1>4, <1>5, <1>6, <1>7 DEF AgreementNext

\* The stronger invariant holds in every state.
THEOREM AgreementInvariance == AgreementSpec => []AgreementIInv
<1>1. AgreementInit => AgreementIInv
  BY AgreementsInit
<1>2. AgreementIInv /\ [AgreementNext]_agreementVars => AgreementIInv'
  <2> SUFFICES ASSUME AgreementIInv, UNCHANGED agreementVars PROVE AgreementIInv'
    BY AgreementsStep
  <2>1. UNCHANGED <<today, agreement, member, frozen, content, midnight>>
    BY DEF agreementVars
  <2> QED
    BY <2>1 DEF AgreementIInv, AgreementTypeOK, Contents, Phases, Owners, Bindings, Snapshots,
                Midnights, Lives
<1> QED
  BY <1>1, <1>2, PTL DEF AgreementSpec

\* Every variable keeps its type: agreements, memberships, snapshots and rows
\* with their deviations.
THEOREM AgreementTypeCorrect == AgreementSpec => []AgreementTypeOK
<1>1. AgreementIInv => AgreementTypeOK
  BY DEF AgreementIInv
<1> QED
  BY <1>1, AgreementInvariance, PTL

LEMMA OneContentFollows ==
  ASSUME AgreementIInv PROVE OneContent
<1>1. ASSUME NEW a \in Agreements, Reigns(agreement, a)
      PROVE  LiveRows = MembersOf(a)
  <2>1. ASSUME NEW x \in Slots \X (1 .. MaxRows)
        PROVE  x \in LiveRows <=> x \in MembersOf(a)
    <3>1. x[1] \in Slots /\ x[2] \in 1 .. MaxRows
      OBVIOUS
    <3>2. x[2] \in DOMAIN content[x[1]] =>
            (content[x[1]][x[2]].live <=> member[a][x[1]] = [row |-> x[2], removed |-> FALSE])
      BY <1>1, <3>1 DEF AgreementIInv, Lives, LiveFits
    <3>3. ASSUME Member(a, x[1], x[2]) PROVE x[2] \in DOMAIN content[x[1]]
      <4>1. member[a][x[1]].row = x[2] /\ x[2] > 0
        BY <3>3 DEF Member
      <4> QED
        BY <3>1, <4>1, BoundRow
    <3>4. Member(a, x[1], x[2]) <=> member[a][x[1]] = [row |-> x[2], removed |-> FALSE]
      BY <3>1 DEF Member
    <3> QED
      BY <2>1, <3>2, <3>3, <3>4 DEF LiveRows, Rows, Live, MembersOf
  <2>2. LiveRows \subseteq Slots \X (1 .. MaxRows) /\ MembersOf(a) \subseteq Slots \X (1 .. MaxRows)
    BY DEF LiveRows, Rows, MembersOf
  <2> QED
    BY <2>1, <2>2
<1>2. ASSUME NEW a \in Current \cup (IF Activated = {} THEN In({"upcoming"}) ELSE {})
      PROVE  a \in Agreements /\ Reigns(agreement, a)
  BY DEF Current, Activated, In, Reigns
<1>3. ASSUME In({"ended"}) # {}, Current = {} PROVE LiveRows = {}
  <2>1. (\E a \in Agreements : agreement[a].phase = "ended")
        /\ \A a \in Agreements : agreement[a].phase # "current"
    BY <1>3 DEF Current, In
  <2>2. \A s \in Slots : \A n \in DOMAIN content[s] : ~content[s][n].live
    BY <2>1 DEF AgreementIInv, Lives, LiveFits
  <2>3. \A x \in LiveRows : x[1] \in Slots /\ x[2] \in DOMAIN content[x[1]] /\ content[x[1]][x[2]].live
    BY DEF LiveRows, Rows, Live
  <2> QED
    BY <2>2, <2>3
<1>4. ASSUME NEW x \in LiveRows, NEW y \in LiveRows, x[1] = y[1]
      PROVE  x = y
  <2>1. /\ x \in Slots \X (1 .. MaxRows) /\ y \in Slots \X (1 .. MaxRows)
        /\ x[2] \in DOMAIN content[x[1]] /\ content[x[1]][x[2]].live
        /\ y[2] \in DOMAIN content[y[1]] /\ content[y[1]][y[2]].live
    BY DEF LiveRows, Rows, Live
  <2>2. x[2] = y[2]
    BY <1>4, <2>1, OneLive
  <2> QED
    BY <1>4, <2>1, <2>2
<1>5. \A a \in Current \cup (IF Activated = {} THEN In({"upcoming"}) ELSE {}) :
        LiveRows = MembersOf(a)
  BY <1>1, <1>2
<1> QED
  BY <1>3, <1>4, <1>5 DEF OneContent

\* The content that is live is that of one agreement: the current one, or the
\* first while it is upcoming; after an end it is nothing.
THEOREM ContentIsOne == AgreementSpec => []OneContent
<1>1. AgreementIInv => OneContent
  BY OneContentFollows
<1> QED
  BY <1>1, AgreementInvariance, PTL

\* A row has one undecided deviation at most, the latest, and a renewal is of the
\* latest approval, unless that was closed meanwhile.
THEOREM RenewalsStayCurrent == AgreementSpec => []RenewalsAreCurrent
<1>1. AgreementIInv => RenewalsAreCurrent
  <2> SUFFICES ASSUME AgreementIInv, NEW x \in Rows
               PROVE  \A k \in DOMAIN content[x[1]][x[2]].cases :
                        Undecided(content[x[1]][x[2]].cases[k]) =>
                          /\ k = Len(content[x[1]][x[2]].cases)
                          /\ content[x[1]][x[2]].cases[k].renews = RenewalTarget(content[x[1]][x[2]])
    BY DEF RenewalsAreCurrent
  <2>1. x[1] \in Slots /\ x[2] \in DOMAIN content[x[1]]
    BY DEF Rows
  <2>2. content[x[1]][x[2]] \in GoodRow
    BY <2>1, GoodContent
  <2> QED
    BY <2>2 DEF GoodRow, Renewing
<1> QED
  BY <1>1, AgreementInvariance, PTL

\* What a replaced agreement froze is the follow-up at the midnight it was
\* replaced, however late that was noticed, and nothing frozen changes; a
\* decided deviation is never decided again and its ending is never taken back.
THEOREM HistoryAlwaysStands == AgreementSpec => HistoryStands
<1> DEFINE History ==
      /\ \A u \in Agreements : IsDue(u) /\ agreement'[u].phase = "current" =>
           \A a \in Current : \A x \in MembersOf(a) :
             frozen'[a][x[1]] = midnight[x[1]][x[2]]
      /\ \A a \in Agreements, s \in Slots :
           frozen[a][s] # NoSnapshot => frozen'[a][s] = frozen[a][s]
      /\ \A s \in Slots : \A n \in DOMAIN content[s] \cap DOMAIN content'[s] :
           \A k \in DOMAIN content[s][n].cases :
             LET c == content[s][n].cases[k]
                 d == content'[s][n].cases[k] IN
             ~Undecided(c) => /\ d.state = c.state /\ d.through = c.through
                              /\ c.ended # "no" => d.ended = c.ended
<1>1. AgreementIInv /\ [AgreementNext]_agreementVars => [History]_agreementVars
  <2> SUFFICES ASSUME AgreementIInv, AgreementNext PROVE History
    OBVIOUS
  <2>1. CasesStand /\ FrozenStands /\ FrozenAsAtMidnight
    BY AgreementsStep
  <2>2. \A s \in Slots : \A n \in DOMAIN content[s] \cap DOMAIN content'[s] :
          \A k \in DOMAIN content[s][n].cases :
            CaseStands(content[s][n].cases[k], content'[s][n].cases[k])
    BY <2>1 DEF CasesStand, Stands
  <2> QED
    BY <2>1, <2>2 DEF FrozenStands, FrozenAsAtMidnight, CaseStands
<1> HIDE DEF History
<1>2. AgreementSpec => [][History]_agreementVars
  BY <1>1, AgreementInvariance, PTL DEF AgreementSpec
<1> QED
  BY <1>2 DEF HistoryStands, History

-----------------------------------------------------------------------------
(***************************************************************************)
(* What a row still has open.                                              *)
(***************************************************************************)
\* The approval that applies on a day, if there is one.
Applying(row, day) ==
  {k \in Approvals(row) : /\ k = LatestApproval(row)
                          /\ row.cases[k].through >= day /\ row.cases[k].ended = "no"}

Plans(row) == {row.cases[k].plan : k \in DOMAIN row.cases}

\* Nothing to decide, and no permission that the row gives on a day.
Spent(row, day) == ~HasUndecided(row) /\ Applying(row, day) = {}

\* Nothing to decide, and no permission that would outlast agreement u.
Closing(row, u, day) == ~HasUndecided(row) /\ \A k \in Applying(row, day) : row.cases[k].plan = u

\* Nothing is opened.
Eased(r, q) ==
  /\ HasUndecided(q) => HasUndecided(r)
  /\ \A day \in Days : Applying(q, day) \subseteq Applying(r, day)

SamePlans(r, q) == \A k \in DOMAIN q.cases : k \in DOMAIN r.cases /\ q.cases[k].plan = r.cases[k].plan

LEMMA EasedSpent ==
  ASSUME NEW r, NEW q, NEW day \in Days, Eased(r, q), Spent(r, day)
  PROVE  Spent(q, day)
  BY DEF Eased, Spent

LEMMA EasedTwice ==
  ASSUME NEW r, NEW q, NEW p, Eased(r, q), Eased(q, p)
  PROVE  Eased(r, p)
  BY DEF Eased

LEMMA EasedSame ==
  ASSUME NEW r, NEW q, q.cases = r.cases
  PROVE  Eased(r, q) /\ SamePlans(r, q) /\ Plans(q) = Plans(r)
<1>1. Approvals(q) = Approvals(r)
  BY DEF Approvals
<1>2. LatestApproval(q) = LatestApproval(r)
  BY <1>1 DEF LatestApproval
<1>3. \A day : Applying(q, day) = Applying(r, day)
  BY <1>1, <1>2 DEF Applying
<1> QED
  BY <1>3 DEF Eased, SamePlans, Plans, HasUndecided

LEMMA EasedClosing ==
  ASSUME NEW r, NEW q, NEW u, NEW day \in Days, Eased(r, q), SamePlans(r, q), Closing(r, u, day)
  PROVE  Closing(q, u, day)
<1>1. \A k \in Applying(q, day) : k \in DOMAIN q.cases /\ k \in Applying(r, day)
  BY DEF Eased, Applying, Approvals
<1> QED
  BY <1>1 DEF Eased, SamePlans, Closing

LEMMA SamePlansSet ==
  ASSUME NEW r, NEW q, SamePlans(r, q)
  PROVE  Plans(q) \subseteq Plans(r)
  BY DEF SamePlans, Plans

\* Time only takes permissions away.
LEMMA SpentLater ==
  ASSUME NEW r \in Row, NEW day \in Days, day + 1 \in Days
  PROVE  /\ Spent(r, day) => Spent(r, day + 1)
         /\ \A u : Closing(r, u, day) => Closing(r, u, day + 1)
<1>1. Applying(r, day + 1) \subseteq Applying(r, day)
  <2> SUFFICES ASSUME NEW k \in Applying(r, day + 1)
               PROVE  k \in Applying(r, day)
    OBVIOUS
  <2>1. k \in Approvals(r) /\ k = LatestApproval(r) /\ r.cases[k].ended = "no"
        /\ r.cases[k].through >= day + 1
    BY DEF Applying
  <2>2. r.cases[k].through \in Int
    <3>1. r.cases[k] \in Case
      BY <2>1, RowParts DEF Approvals
    <3> QED
      BY <3>1, AgreementAssumption DEF Case, Days, Forever
  <2>3. r.cases[k].through >= day
    BY <2>1, <2>2, AgreementAssumption DEF Days
  <2> QED
    BY <2>1, <2>3 DEF Applying
<1> QED
  BY <1>1 DEF Spent, Closing

LEMMA ApplyingToday ==
  ASSUME NEW r \in Row
  PROVE  \A k \in DOMAIN r.cases : Applicable(r, k) <=> k \in Applying(r, today)
<1> TAKE k \in DOMAIN r.cases
<1>1. ASSUME Approvals(r) # {} PROVE LatestApproval(r) \in Approvals(r)
  <2>1. Approvals(r) \in SUBSET (0 .. Len(r.cases)) /\ Len(r.cases) \in Nat
    BY RowParts DEF Approvals
  <2> QED
    BY <1>1, <2>1, Largest DEF LatestApproval
<1>2. ASSUME Applicable(r, k) PROVE k \in Approvals(r)
  <2>1. k = LatestApproval(r) /\ k > 0
    BY <1>2, RowParts DEF Applicable
  <2> QED
    BY <1>1, <2>1 DEF LatestApproval
<1> QED
  BY <1>2 DEF Applying, Applicable

\* Endings, cancellations and plans open nothing.
LEMMA GentleEased ==
  ASSUME NEW r \in Row, NEW q, Gentle(r, q)
  PROVE  Eased(r, q)
<1>1. /\ q \in Row /\ DOMAIN q.cases = DOMAIN r.cases
      /\ \A k \in DOMAIN r.cases : CaseStep(r.cases[k], q.cases[k])
  BY RowParts DEF Gentle
<1>2. Approvals(q) = Approvals(r)
  BY <1>1 DEF Approvals, CaseStep, Undecided
<1>3. LatestApproval(q) = LatestApproval(r)
  BY <1>2 DEF LatestApproval
<1>4. ASSUME NEW k \in Approvals(r)
      PROVE  /\ q.cases[k].through = r.cases[k].through
             /\ q.cases[k].ended = "no" => r.cases[k].ended = "no"
  BY <1>1, <1>4 DEF Approvals, CaseStep, CaseStands, Undecided
<1>5. \A day \in Days : Applying(q, day) \subseteq Applying(r, day)
  <2> SUFFICES ASSUME NEW day \in Days, NEW k \in Applying(q, day)
               PROVE  k \in Applying(r, day)
    OBVIOUS
  <2>1. k \in Approvals(q) /\ k = LatestApproval(q) /\ q.cases[k].ended = "no"
        /\ q.cases[k].through >= day
    BY DEF Applying
  <2>2. k \in Approvals(r) /\ k = LatestApproval(r)
    BY <1>2, <1>3, <2>1
  <2>3. q.cases[k].through = r.cases[k].through /\ r.cases[k].ended = "no"
    BY <1>4, <2>1, <2>2
  <2>4. r.cases[k].through >= day
    BY <2>1, <2>3
  <2> QED
    BY <2>2, <2>3, <2>4 DEF Applying
<1>6. HasUndecided(q) => HasUndecided(r)
  BY <1>1 DEF HasUndecided, CaseStep, Undecided
<1> QED
  BY <1>5, <1>6 DEF Eased

\* What each way of rewriting a row does to its plans, and leaves open.
LEMMA CasesOf ==
  ASSUME NEW r \in Row, NEW f
  PROVE  [r EXCEPT !.cases = f].cases = f
  BY DEF Row

LEMMA EndOpen ==
  ASSUME NEW r \in Row, NEW kind \in {"content_replaced", "superseded", "agreement_ended"},
         today \in Days
  PROVE  LET q == EndApplicable(r, kind)
         IN  Eased(r, q) /\ SamePlans(r, q) /\ Applying(q, today) = {}
<1> DEFINE q == EndApplicable(r, kind)
<1>1. Gentle(r, q)
  BY EndKeeps DEF Kept
<1>2. Eased(r, q)
  BY <1>1, GentleEased
<1>3. q.cases = [k \in DOMAIN r.cases |->
                   IF Applicable(r, k) THEN EndCase(r.cases[k], kind) ELSE r.cases[k]]
  BY CasesOf DEF EndApplicable
<1> HIDE DEF q
<1>4. \A k \in DOMAIN r.cases : r.cases[k] \in Case
  BY RowParts
<1>5. SamePlans(r, q)
  BY <1>3, <1>4 DEF SamePlans, EndCase, Case
<1>6. \A k \in DOMAIN r.cases : Applicable(r, k) => q.cases[k].ended # "no"
  BY <1>3, <1>4 DEF EndCase, Case
<1>7. Applying(q, today) = {}
  <2> SUFFICES ASSUME NEW k \in Applying(q, today) PROVE FALSE
    OBVIOUS
  <2>1. k \in DOMAIN q.cases /\ q.cases[k].ended = "no" /\ k \in Applying(r, today)
    BY <1>2 DEF Applying, Approvals, Eased
  <2>2. k \in DOMAIN r.cases /\ Applicable(r, k)
    BY <1>3, <2>1, ApplyingToday
  <2> QED
    BY <1>6, <2>1, <2>2
<1> QED
  BY <1>2, <1>5, <1>7 DEF q

LEMMA CancelOpen ==
  ASSUME NEW r \in Row
  PROVE  LET q == CancelUndecided(r)
         IN  Eased(r, q) /\ SamePlans(r, q) /\ ~HasUndecided(q)
<1> DEFINE q == CancelUndecided(r)
<1>1. Gentle(r, q)
  BY CancelKeeps DEF Kept
<1>2. Eased(r, q)
  BY <1>1, GentleEased
<1>3. q.cases = [k \in DOMAIN r.cases |->
                   IF Undecided(r.cases[k]) THEN [r.cases[k] EXCEPT !.state = "cancelled"]
                   ELSE r.cases[k]]
  BY CasesOf DEF CancelUndecided
<1> HIDE DEF q
<1>4. \A k \in DOMAIN r.cases : r.cases[k] \in Case
  BY RowParts
<1>5. SamePlans(r, q)
  BY <1>3, <1>4 DEF SamePlans, Case
<1>6. \A k \in DOMAIN r.cases : ~Undecided(q.cases[k])
  BY <1>3, <1>4 DEF Undecided, Case
<1> QED
  BY <1>2, <1>3, <1>5, <1>6 DEF q, HasUndecided

LEMMA PlanOpen ==
  ASSUME NEW r \in Row, NEW a \in Agreements, today \in Days
  PROVE  LET q == PlanApplicable(r, a)
         IN  /\ Eased(r, q) /\ Plans(q) \subseteq Plans(r) \cup {a}
             /\ ~HasUndecided(r) => Closing(q, a, today)
<1> DEFINE q == PlanApplicable(r, a)
<1>1. Gentle(r, q)
  BY PlanKeeps DEF Kept
<1>2. Eased(r, q)
  BY <1>1, GentleEased
<1>3. q.cases = [k \in DOMAIN r.cases |->
                   IF Applicable(r, k) THEN [r.cases[k] EXCEPT !.plan = a] ELSE r.cases[k]]
  BY CasesOf DEF PlanApplicable
<1> HIDE DEF q
<1>4. \A k \in DOMAIN r.cases : r.cases[k] \in Case
  BY RowParts
<1>5. \A k \in DOMAIN r.cases : q.cases[k].plan = IF Applicable(r, k) THEN a ELSE r.cases[k].plan
  BY <1>3, <1>4 DEF Case
<1>6. Plans(q) \subseteq Plans(r) \cup {a}
  BY <1>3, <1>5 DEF Plans
<1>7. \A k \in Applying(q, today) : q.cases[k].plan = a
  <2> TAKE k \in Applying(q, today)
  <2>1. k \in DOMAIN q.cases /\ k \in Applying(r, today)
    BY <1>2 DEF Applying, Approvals, Eased
  <2>2. k \in DOMAIN r.cases /\ Applicable(r, k)
    BY <1>3, <2>1, ApplyingToday
  <2> QED
    BY <1>5, <2>2
<1>8. ~HasUndecided(r) => Closing(q, a, today)
  BY <1>2, <1>7 DEF Closing, Eased
<1> QED
  BY <1>2, <1>6, <1>8 DEF q

LEMMA UnplanOpen ==
  ASSUME NEW r \in Row, NEW a \in Agreements
  PROVE  LET q == CancelPlans(r, a)
         IN  Eased(r, q) /\ Plans(q) \subseteq (Plans(r) \ {a}) \cup {0}
<1> DEFINE q == CancelPlans(r, a)
<1>1. Gentle(r, q)
  BY UnplanKeeps DEF Kept
<1>2. Eased(r, q)
  BY <1>1, GentleEased
<1>3. q.cases = [k \in DOMAIN r.cases |->
                   IF r.cases[k].plan = a THEN [r.cases[k] EXCEPT !.plan = 0] ELSE r.cases[k]]
  BY CasesOf DEF CancelPlans
<1> HIDE DEF q
<1>4. \A k \in DOMAIN r.cases : r.cases[k] \in Case
  BY RowParts
<1>5. \A k \in DOMAIN r.cases : q.cases[k].plan = IF r.cases[k].plan = a THEN 0 ELSE r.cases[k].plan
  BY <1>3, <1>4 DEF Case
<1>6. Plans(q) \subseteq (Plans(r) \ {a}) \cup {0}
  BY <1>3, <1>5 DEF Plans
<1> QED
  BY <1>2, <1>6 DEF q

LEMMA CarryOutOpen ==
  ASSUME NEW r \in Row, NEW a \in Agreements
  PROVE  LET q == CarryOutPlans(r, a)
         IN  /\ Eased(r, q) /\ Plans(q) \subseteq (Plans(r) \ {a}) \cup {0}
             /\ \A day \in Days : Closing(r, a, day) => Spent(q, day)
<1> DEFINE q == CarryOutPlans(r, a)
<1>1. Gentle(r, q)
  BY CarryOutKeeps DEF Kept
<1>2. Eased(r, q)
  BY <1>1, GentleEased
<1>3. q.cases = [k \in DOMAIN r.cases |->
                   IF r.cases[k].plan = a
                   THEN [EndCase(r.cases[k], "content_replaced") EXCEPT !.plan = 0]
                   ELSE r.cases[k]]
  BY CasesOf DEF CarryOutPlans
<1> HIDE DEF q
<1>4. \A k \in DOMAIN r.cases : r.cases[k] \in Case
  BY RowParts
<1>5. \A k \in DOMAIN r.cases : q.cases[k].plan = IF r.cases[k].plan = a THEN 0 ELSE r.cases[k].plan
  BY <1>3, <1>4 DEF Case, EndCase
<1>6. Plans(q) \subseteq (Plans(r) \ {a}) \cup {0}
  BY <1>3, <1>5 DEF Plans
<1>7. \A k \in DOMAIN r.cases : r.cases[k].plan = a => q.cases[k].ended # "no"
  BY <1>3, <1>4 DEF Case, EndCase
<1>8. ASSUME NEW day \in Days, Closing(r, a, day)
      PROVE  Spent(q, day)
  <2>1. ASSUME NEW k \in Applying(q, day) PROVE FALSE
    <3>1. k \in DOMAIN q.cases /\ q.cases[k].ended = "no" /\ k \in Applying(r, day)
      BY <1>2, <2>1 DEF Applying, Approvals, Eased
    <3>2. k \in DOMAIN r.cases /\ r.cases[k].plan = a
      BY <1>3, <1>8, <3>1 DEF Closing
    <3> QED
      BY <1>7, <3>1, <3>2
  <2> QED
    BY <1>2, <1>8, <2>1 DEF Spent, Closing, Eased
<1> QED
  BY <1>2, <1>6, <1>8 DEF q

LEMMA MovedOpen ==
  ASSUME NEW r \in Row, NEW k \in DOMAIN r.cases, NEW to \in {"draft", "review", "rejected", "cancelled"}
  PROVE  SamePlans(r, Moved(r, k, to))
<1> DEFINE d == [r.cases[k] EXCEPT !.state = to]
           q == [r EXCEPT !.cases[k] = d]
<1>1. r.cases[k] \in Case
  BY RowParts
<1>2. d \in Case /\ d.plan = r.cases[k].plan
  BY <1>1 DEF Case
<1>3. Moved(r, k, to) = q
  BY <1>1 DEF Moved
<1> HIDE DEF d
<1>4. /\ DOMAIN q.cases = DOMAIN r.cases
      /\ \A j \in DOMAIN r.cases : q.cases[j] = IF j = k THEN d ELSE r.cases[j]
  BY <1>2, RewriteCase
<1> QED
  BY <1>2, <1>3, <1>4 DEF SamePlans

LEMMA ClosedOpen ==
  ASSUME NEW r \in Row, NEW k \in DOMAIN r.cases
  PROVE  Eased(r, Closed(r, k)) /\ SamePlans(r, Closed(r, k))
<1> DEFINE d == EndCase(r.cases[k], "closed")
           q == Closed(r, k)
<1>1. r.cases[k] \in Case
  BY RowParts
<1>2. /\ d \in Case /\ d.state = r.cases[k].state /\ d.plan = r.cases[k].plan
      /\ d.through = r.cases[k].through
      /\ d.ended = "no" => r.cases[k].ended = "no"
  BY <1>1 DEF EndCase, Case
<1>3. q = [r EXCEPT !.cases[k] = d]
  BY DEF Closed
<1> HIDE DEF d, q
<1>4. /\ DOMAIN q.cases = DOMAIN r.cases
      /\ \A j \in DOMAIN r.cases : q.cases[j] = IF j = k THEN d ELSE r.cases[j]
  BY <1>2, <1>3, RewriteCase
<1>5. \A j \in DOMAIN r.cases : /\ q.cases[j].state = r.cases[j].state
                                /\ q.cases[j].plan = r.cases[j].plan
                                /\ q.cases[j].through = r.cases[j].through
                                /\ (q.cases[j].ended = "no" => r.cases[j].ended = "no")
  BY <1>2, <1>4
<1>6. Approvals(q) = Approvals(r)
  BY <1>4, <1>5 DEF Approvals
<1>7. LatestApproval(q) = LatestApproval(r)
  BY <1>6 DEF LatestApproval
<1>8. \A day \in Days : Applying(q, day) \subseteq Applying(r, day)
  <2> SUFFICES ASSUME NEW day \in Days, NEW j \in Applying(q, day)
               PROVE  j \in Applying(r, day)
    OBVIOUS
  <2>1. j \in Approvals(r) /\ j = LatestApproval(r) /\ j \in DOMAIN r.cases
    BY <1>6, <1>7 DEF Applying, Approvals
  <2>2. q.cases[j].ended = "no" /\ q.cases[j].through >= day
    BY DEF Applying
  <2>3. r.cases[j].ended = "no" /\ r.cases[j].through = q.cases[j].through
    BY <1>5, <2>1, <2>2
  <2>4. r.cases[j].through >= day
    BY <2>2, <2>3
  <2> QED
    BY <2>1, <2>3, <2>4 DEF Applying
<1>9. HasUndecided(q) => HasUndecided(r)
  BY <1>4, <1>5 DEF HasUndecided, Undecided
<1> QED
  BY <1>4, <1>5, <1>8, <1>9 DEF Eased, SamePlans, q

LEMMA ApprovedOpen ==
  ASSUME NEW r \in Row, NEW k \in DOMAIN r.cases, NEW through \in Days \cup {Forever}
  PROVE  Plans(Approved(r, k, through)) \subseteq Plans(r) \cup {0}
<1> DEFINE plans == {r.cases[j].plan : j \in DOMAIN r.cases} \ {0}
           plan == IF plans = {} THEN 0 ELSE Max(plans)
           e == [r.cases[k] EXCEPT !.state = "approved", !.through = through, !.plan = plan]
           q == Approved(r, k, through)
<1>1. \A j \in DOMAIN r.cases : r.cases[j] \in Case
  BY RowParts
<1>2. plan \in Plans(r) \cup {0}
  <2>1. plans \in SUBSET (0 .. MaxAgreements) /\ MaxAgreements \in Nat /\ plans \subseteq Plans(r)
    BY <1>1, AgreementAssumption DEF Case, Plans
  <2> HIDE DEF plans
  <2>2. plans # {} => Max(plans) \in plans
    BY <2>1, Largest
  <2> QED
    BY <2>1, <2>2
<1>3. q.cases = [j \in DOMAIN r.cases |->
                   IF j = k THEN e
                   ELSE IF r.cases[j].state = "approved" THEN EndCase(r.cases[j], "superseded")
                   ELSE r.cases[j]]
  BY CasesOf DEF Approved
<1> HIDE DEF plan, q
<1>4. e.plan = plan
  BY <1>1 DEF Case
<1>5. \A j \in DOMAIN r.cases : EndCase(r.cases[j], "superseded").plan = r.cases[j].plan
  BY <1>1 DEF EndCase, Case
<1> HIDE DEF e
<1>6. \A j \in DOMAIN r.cases : q.cases[j].plan = IF j = k THEN plan ELSE r.cases[j].plan
  BY <1>3, <1>4, <1>5
<1> QED
  BY <1>2, <1>3, <1>6 DEF Plans, q

LEMMA RequestedOpen ==
  ASSUME NEW r \in Row
  PROVE  Plans(Requested(r)) \subseteq Plans(r) \cup {0}
<1> DEFINE c == [state |-> "draft", through |-> Forever, renews |-> RenewalTarget(r),
                 plan |-> 0, ended |-> "no"]
           q == Requested(r)
<1>1. r.cases \in Seq(Case) /\ Len(r.cases) \in Nat /\ DOMAIN r.cases = 1 .. Len(r.cases)
  BY RowParts
<1>2. q.cases = Append(r.cases, c)
  BY CasesOf DEF Requested
<1>3. c.plan = 0
  OBVIOUS
<1> HIDE DEF c, q
<1>4. DOMAIN q.cases = 1 .. Len(r.cases) + 1
  BY <1>1, <1>2
<1>5. q.cases[Len(r.cases) + 1] = c /\ \A j \in 1 .. Len(r.cases) : q.cases[j] = r.cases[j]
  BY <1>1, <1>2
<1>6. \A j \in DOMAIN q.cases : q.cases[j].plan = 0 \/ (j \in DOMAIN r.cases /\ q.cases[j].plan = r.cases[j].plan)
  BY <1>1, <1>3, <1>4, <1>5
<1> QED
  BY <1>6 DEF Plans, q

LEMMA NewOpen ==
  ASSUME NEW live, NEW owner, NEW status
  PROVE  Plans(NewRow(live, owner, status)) = {}
  BY DEF Plans, NewRow

-----------------------------------------------------------------------------
(***************************************************************************)
(* What is open on the content of agreements that come and go.             *)
(***************************************************************************)
Has(mem, a, s, n) == n > 0 /\ mem[a][s] = [row |-> n, removed |-> FALSE]

Awaits(ag, u) == ag[u].phase \in {"draft", "upcoming"}
Confirmed(ag, u) == ag[u].phase = "upcoming"
Rules(ag, c) == ag[c].phase = "current"
Gone(ag, a) == ag[a].phase \in {"replaced", "ended"}

HeldNow(ag, mem, s, n) == \E c \in Agreements : Rules(ag, c) /\ Has(mem, c, s, n)

\* An ending is planned for an agreement that is to come, and never on what
\* that agreement keeps.
PlansFit(ag, mem, con) ==
  \A s \in Slots : \A n \in DOMAIN con[s] : \A p \in Plans(con[s][n]) :
    p > 0 => Awaits(ag, p) /\ ~Has(mem, p, s, n)

\* What is to come follows on the current agreement, accounts for each of its
\* requirements, and takes up no content that earlier agreements had and the
\* current one has not.
FollowsOn(ag, mem, u) ==
  /\ \A c \in Agreements : Rules(ag, c) =>
       /\ ag[u].previous = c
       /\ \A s \in Slots : mem[c][s].row > 0 /\ ~mem[c][s].removed => mem[u][s].row > 0
  /\ ag[u].previous > 0 => ag[ag[u].previous].phase \in {"current", "ended"}
  /\ \A s \in Slots, n \in 1 .. MaxRows, a \in Agreements :
       Has(mem, u, s, n) /\ Has(mem, a, s, n) /\ (Rules(ag, a) \/ Gone(ag, a)) =>
         HeldNow(ag, mem, s, n)

\* What a confirmed agreement leaves behind is being closed.
ClosingFit(ag, mem, con, day) ==
  \A u, c \in Agreements : Confirmed(ag, u) /\ Rules(ag, c) =>
    \A s \in Slots : \A n \in DOMAIN con[s] :
      Has(mem, c, s, n) /\ ~Has(mem, u, s, n) => Closing(con[s][n], u, day)

\* What was left behind is closed.
SpentFit(ag, mem, con, day) ==
  \A a \in Agreements : Gone(ag, a) => \A s \in Slots : \A n \in DOMAIN con[s] :
    Has(mem, a, s, n) /\ ~HeldNow(ag, mem, s, n) => Spent(con[s][n], day)

Followed == \A u \in Agreements : Awaits(agreement, u) => FollowsOn(agreement, member, u)

OpenIInv ==
  /\ PlansFit(agreement, member, content)
  /\ Followed
  /\ ClosingFit(agreement, member, content, today)
  /\ SpentFit(agreement, member, content, today)

LEMMA HasMember ==
  ASSUME NEW a, NEW s, NEW n
  PROVE  /\ Member(a, s, n) <=> Has(member, a, s, n)
         /\ InCurrent(s, n) <=> HeldNow(agreement, member, s, n)
  BY DEF Member, Has, InCurrent, HeldNow, Current, In, Rules

LEMMA HasRow ==
  ASSUME AgreementIInv, NEW a \in Agreements, NEW s \in Slots, NEW n, Has(member, a, s, n)
  PROVE  n \in DOMAIN content[s] /\ n \in 1 .. MaxRows /\ member[a][s].row = n
         /\ ~member[a][s].removed
<1>1. member[a][s].row = n /\ n > 0 /\ ~member[a][s].removed
  BY DEF Has
<1>2. n \in DOMAIN content[s]
  BY <1>1, BoundRow
<1>3. n \in 1 .. MaxRows
  BY <1>2, GoodContent, AgreementAssumption
<1> QED
  BY <1>1, <1>2, <1>3

\* Nothing is requested on what is left behind.
LEMMA RequestedInForce ==
  ASSUME AgreementIInv, Followed, NEW s \in Slots, NEW n \in DOMAIN content[s],
         Reviewable(s, n), ~Reserved(s, n)
  PROVE  /\ \A u, c \in Agreements :
              ~(Confirmed(agreement, u) /\ Rules(agreement, c)
                /\ Has(member, c, s, n) /\ ~Has(member, u, s, n))
         /\ \A a \in Agreements :
              ~(Gone(agreement, a) /\ Has(member, a, s, n) /\ ~HeldNow(agreement, member, s, n))
<1>1. ASSUME NEW u \in Agreements, NEW c \in Agreements, Confirmed(agreement, u),
             Rules(agreement, c), Has(member, c, s, n), ~Has(member, u, s, n)
      PROVE  FALSE
  <2>1. InCurrent(s, n) /\ ~Member(u, s, n)
    BY <1>1, HasMember DEF HeldNow
  <2> QED
    BY <1>1, <2>1 DEF Reserved, In, Confirmed
<1>2. ASSUME NEW a \in Agreements, Gone(agreement, a), Has(member, a, s, n),
             ~HeldNow(agreement, member, s, n)
      PROVE  FALSE
  <2>1. a \in Uncancelled
    BY <1>2 DEF Gone, Uncancelled, In
  <2>2. PICK b \in Current \cup Pending : Member(b, s, n)
    BY <2>1 DEF Reviewable, Working
  <2>3. Has(member, b, s, n) /\ b \in Agreements /\ (Rules(agreement, b) \/ Awaits(agreement, b))
    BY <2>2, HasMember DEF Current, Pending, In, Rules, Awaits
  <2>4. CASE Rules(agreement, b)
    BY <1>2, <2>3, <2>4 DEF HeldNow
  <2>5. CASE Awaits(agreement, b)
    <3>1. n \in 1 .. MaxRows
      BY <1>2, HasRow
    <3> QED
      BY <1>2, <2>3, <2>5, <3>1 DEF Followed, FollowsOn
  <2> QED
    BY <2>3, <2>4, <2>5
<1> QED
  BY <1>1, <1>2

\* Rows that plan nothing more.
PlansLess(con) ==
  \A s \in Slots : \A n \in DOMAIN con[s] :
    Plans(con[s][n]) \subseteq {0} \cup (IF n \in DOMAIN content[s] THEN Plans(content[s][n]) ELSE {})

\* Rows that open nothing.
SpentRows(con, day) ==
  \A s \in Slots : \A n \in DOMAIN con[s] :
    n \in DOMAIN content[s] /\ Spent(content[s][n], today) => Spent(con[s][n], day)

\* No agreement leaves, and none that was in force is gone.
InForceAs(ag, mem) ==
  /\ \A a \in Agreements : Gone(ag, a) => Gone(agreement, a) /\ mem[a] = member[a]
  /\ \A c \in Agreements : Rules(agreement, c) => Rules(ag, c) /\ mem[c] = member[c]

LEMMA PlansKept ==
  ASSUME PlansFit(agreement, member, content), NEW con, PlansLess(con)
  PROVE  PlansFit(agreement, member, con)
<1> SUFFICES ASSUME NEW s \in Slots, NEW n \in DOMAIN con[s], NEW p \in Plans(con[s][n]), p > 0
             PROVE  Awaits(agreement, p) /\ ~Has(member, p, s, n)
  BY DEF PlansFit
<1>1. n \in DOMAIN content[s] /\ p \in Plans(content[s][n])
  BY DEF PlansLess
<1> QED
  BY <1>1 DEF PlansFit

LEMMA SpentKept ==
  ASSUME AgreementIInv, SpentFit(agreement, member, content, today),
         NEW ag, NEW mem, NEW con, NEW day, InForceAs(ag, mem), SpentRows(con, day)
  PROVE  SpentFit(ag, mem, con, day)
<1> SUFFICES ASSUME NEW a \in Agreements, Gone(ag, a), NEW s \in Slots, NEW n \in DOMAIN con[s],
                    Has(mem, a, s, n), ~HeldNow(ag, mem, s, n)
             PROVE  Spent(con[s][n], day)
  BY DEF SpentFit
<1>1. Gone(agreement, a) /\ Has(member, a, s, n)
  BY DEF InForceAs, Has
<1>2. ~HeldNow(agreement, member, s, n)
  BY DEF InForceAs, HeldNow, Has
<1>3. n \in DOMAIN content[s]
  BY <1>1, HasRow
<1>4. Spent(content[s][n], today)
  BY <1>1, <1>2, <1>3 DEF SpentFit
<1> QED
  BY <1>3, <1>4 DEF SpentRows

\* No agreement is pending.
NonePending(ag) == \A a \in Agreements : ~Awaits(ag, a)

LEMMA PlanRange ==
  ASSUME AgreementIInv, PlansFit(agreement, member, content),
         NEW s \in Slots, NEW n \in DOMAIN content[s], NEW p \in Plans(content[s][n])
  PROVE  p \in Nat /\ (p > 0 => p \in Agreements /\ Awaits(agreement, p) /\ ~Has(member, p, s, n))
<1>1. p \in 0 .. MaxAgreements
  <2>1. PICK k \in DOMAIN content[s][n].cases : p = content[s][n].cases[k].plan
    BY DEF Plans
  <2>2. content[s][n].cases[k] \in Case
    BY GoodContent, RowParts
  <2> QED
    BY <2>1, <2>2 DEF Case
<1>2. p > 0 => p \in Agreements
  BY <1>1, AgreementAssumption DEF Agreements
<1> QED
  BY <1>1, <1>2, AgreementAssumption DEF PlansFit

LEMMA NonePlanned ==
  ASSUME AgreementIInv, PlansFit(agreement, member, content), NonePending(agreement)
  PROVE  \A s \in Slots : \A n \in DOMAIN content[s] : Plans(content[s][n]) \subseteq {0}
<1> SUFFICES ASSUME NEW s \in Slots, NEW n \in DOMAIN content[s], NEW p \in Plans(content[s][n])
             PROVE  p = 0
  OBVIOUS
<1> QED
  BY PlanRange DEF NonePending

Unplanned(con) == \A s \in Slots : \A n \in DOMAIN con[s] : Plans(con[s][n]) \subseteq {0}

LEMMA UnplannedFits ==
  ASSUME NEW ag, NEW mem, NEW con, Unplanned(con)
  PROVE  PlansFit(ag, mem, con)
  BY DEF PlansFit, Unplanned

\* With nothing pending there is nothing more to say.
LEMMA NonePendingFits ==
  ASSUME NEW ag, NEW mem, NEW con, NEW day, NonePending(ag)
  PROVE  /\ \A u \in Agreements : Awaits(ag, u) => FollowsOn(ag, mem, u)
         /\ ClosingFit(ag, mem, con, day)
  BY DEF NonePending, ClosingFit, Confirmed, Awaits

LEMMA UnconfirmedFits ==
  ASSUME NEW ag, NEW mem, NEW con, NEW day, \A u \in Agreements : ~Confirmed(ag, u)
  PROVE  ClosingFit(ag, mem, con, day)
  BY DEF ClosingFit

LEMMA RowOpen ==
  ASSUME AgreementIInv, OpenIInv, NEW s \in Slots, NEW n \in DOMAIN content[s], OnRow(s, n)
  PROVE  OpenIInv'
<1> DEFINE r == content[s][n]
<1>0. r \in GoodRow /\ r \in Row /\ today \in Days
  BY GoodContent DEF AgreementIInv, AgreementTypeOK
<1>1. UNCHANGED <<today, agreement, member, frozen, midnight>>
  BY DEF OnRow, FollowUp, MayFollowUp, CreateDeviation, MoveCase, ApproveDeviation,
         CancelDeviation, CloseDeviation
<1>2. PICK q :
        /\ content' = [content EXCEPT ![s][n] = q]
        /\ Plans(q) \subseteq Plans(r) \cup {0}
        /\ (Eased(r, q) /\ SamePlans(r, q)) \/ HasUndecided(r)
           \/ (Reviewable(s, n) /\ ~Reserved(s, n))
  <2>1. CASE \E status \in Statuses : FollowUp(s, n, status)
    <3>1. PICK status \in Statuses : FollowUp(s, n, status)
      BY <2>1
    <3> DEFINE q == [r EXCEPT !.status = status]
    <3>2. q.cases = r.cases
      BY <1>0 DEF Row
    <3>3. content' = [content EXCEPT ![s][n] = q]
      BY <3>1 DEF FollowUp
    <3> HIDE DEF q, r
    <3> QED
      BY <3>2, <3>3, EasedSame
  <2>2. CASE CreateDeviation(s, n)
    BY <1>0, <2>2, RequestedOpen DEF CreateDeviation
  <2>3. ASSUME NEW k \in DOMAIN r.cases, NEW to \in {"draft", "review", "rejected", "cancelled"},
               Undecided(r.cases[k]), content' = [content EXCEPT ![s][n] = Moved(r, k, to)]
        PROVE  \E q : /\ content' = [content EXCEPT ![s][n] = q]
                      /\ Plans(q) \subseteq Plans(r) \cup {0} /\ HasUndecided(r)
    <3>1. Plans(Moved(r, k, to)) \subseteq Plans(r) \cup {0}
      BY <1>0, MovedOpen, SamePlansSet
    <3>2. HasUndecided(r)
      BY <2>3 DEF HasUndecided
    <3> QED
      BY <2>3, <3>1, <3>2
  <2>4. ASSUME NEW k \in DOMAIN r.cases, NEW from \in {"draft", "review"},
               NEW to \in {"draft", "review", "rejected"}, MoveCase(s, n, k, from, to)
        PROVE  \E q : /\ content' = [content EXCEPT ![s][n] = q]
                      /\ Plans(q) \subseteq Plans(r) \cup {0} /\ HasUndecided(r)
    <3>1. Undecided(r.cases[k]) /\ content' = [content EXCEPT ![s][n] = Moved(r, k, to)]
      BY <2>4 DEF MoveCase, Undecided
    <3> QED
      BY <2>3, <3>1
  <2>5. ASSUME NEW k \in DOMAIN r.cases, NEW t \in {today, Forever}, ApproveDeviation(s, n, k, t)
        PROVE  \E q : /\ content' = [content EXCEPT ![s][n] = q]
                      /\ Plans(q) \subseteq Plans(r) \cup {0} /\ HasUndecided(r)
    <3>1. t \in Days \cup {Forever}
      BY <1>0
    <3>2. HasUndecided(r) /\ content' = [content EXCEPT ![s][n] = Approved(r, k, t)]
      BY <2>5 DEF ApproveDeviation, HasUndecided, Undecided
    <3> QED
      BY <1>0, <3>1, <3>2, ApprovedOpen
  <2>6. ASSUME NEW k \in DOMAIN r.cases, CancelDeviation(s, n, k)
        PROVE  \E q : /\ content' = [content EXCEPT ![s][n] = q]
                      /\ Plans(q) \subseteq Plans(r) \cup {0} /\ HasUndecided(r)
    <3>1. Undecided(r.cases[k]) /\ content' = [content EXCEPT ![s][n] = Moved(r, k, "cancelled")]
      BY <2>6 DEF CancelDeviation
    <3> QED
      BY <2>3, <3>1
  <2>7. ASSUME NEW k \in DOMAIN r.cases, CloseDeviation(s, n, k)
        PROVE  \E q : /\ content' = [content EXCEPT ![s][n] = q]
                      /\ Plans(q) \subseteq Plans(r) \cup {0} /\ Eased(r, q) /\ SamePlans(r, q)
    <3>1. content' = [content EXCEPT ![s][n] = Closed(r, k)]
      BY <2>7 DEF CloseDeviation
    <3>2. Eased(r, Closed(r, k)) /\ SamePlans(r, Closed(r, k))
      BY <1>0, ClosedOpen
    <3> QED
      BY <3>1, <3>2, SamePlansSet
  <2> QED
    BY <2>1, <2>2, <2>4, <2>5, <2>6, <2>7 DEF OnRow
<1>3. /\ \A t \in Slots : DOMAIN content'[t] = DOMAIN content[t]
      /\ \A t \in Slots : \A m \in DOMAIN content[t] :
           content'[t][m] = IF t = s /\ m = n THEN q ELSE content[t][m]
  BY <1>2 DEF AgreementIInv, Contents
<1> HIDE DEF r
<1>4. /\ (Reviewable(s, n) /\ ~Reserved(s, n)) =>
           /\ \A u, c \in Agreements :
                ~(Confirmed(agreement, u) /\ Rules(agreement, c)
                  /\ Has(member, c, s, n) /\ ~Has(member, u, s, n))
           /\ \A a \in Agreements :
                ~(Gone(agreement, a) /\ Has(member, a, s, n) /\ ~HeldNow(agreement, member, s, n))
  BY RequestedInForce DEF OpenIInv
<1>5. PlansFit(agreement, member, content')
  <2>1. PlansLess(content')
    BY <1>2, <1>3 DEF PlansLess, r
  <2> QED
    BY <2>1, PlansKept DEF OpenIInv
<1>6. ClosingFit(agreement, member, content', today)
  <2> SUFFICES ASSUME NEW u \in Agreements, NEW c \in Agreements,
                      Confirmed(agreement, u), Rules(agreement, c),
                      NEW t \in Slots, NEW m \in DOMAIN content'[t],
                      Has(member, c, t, m), ~Has(member, u, t, m)
               PROVE  Closing(content'[t][m], u, today)
    BY DEF ClosingFit
  <2>1. m \in DOMAIN content[t] /\ Closing(content[t][m], u, today)
    BY <1>3 DEF OpenIInv, ClosingFit
  <2>2. CASE t = s /\ m = n
    <3>1. Closing(r, u, today) /\ content'[t][m] = q /\ ~HasUndecided(r)
      BY <1>3, <2>1, <2>2 DEF r, Closing
    <3>2. Eased(r, q) /\ SamePlans(r, q)
      BY <1>2, <1>4, <2>2, <3>1
    <3> QED
      BY <1>0, <3>1, <3>2, EasedClosing
  <2> QED
    BY <1>3, <2>1, <2>2
<1>7. SpentFit(agreement, member, content', today)
  <2> SUFFICES ASSUME NEW a \in Agreements, Gone(agreement, a),
                      NEW t \in Slots, NEW m \in DOMAIN content'[t],
                      Has(member, a, t, m), ~HeldNow(agreement, member, t, m)
               PROVE  Spent(content'[t][m], today)
    BY DEF SpentFit
  <2>1. m \in DOMAIN content[t] /\ Spent(content[t][m], today)
    BY <1>3 DEF OpenIInv, SpentFit
  <2>2. CASE t = s /\ m = n
    <3>1. Spent(r, today) /\ content'[t][m] = q /\ ~HasUndecided(r)
      BY <1>3, <2>1, <2>2 DEF r, Spent
    <3>2. Eased(r, q)
      BY <1>2, <1>4, <2>2, <3>1
    <3> QED
      BY <1>0, <3>1, <3>2, EasedSpent
  <2> QED
    BY <1>3, <2>1, <2>2
<1> QED
  BY <1>1, <1>5, <1>6, <1>7 DEF OpenIInv, Followed

LEMMA RowAppended ==
  ASSUME NEW S, NEW old \in Seq(S), NEW r
  PROVE  /\ DOMAIN Append(old, r) = DOMAIN old \cup {Len(old) + 1}
         /\ Append(old, r)[Len(old) + 1] = r /\ Len(old) + 1 \notin DOMAIN old
         /\ \A n \in DOMAIN old : Append(old, r)[n] = old[n]
<1>1. Len(old) \in Nat /\ DOMAIN old = 1 .. Len(old)
  OBVIOUS
<1>2. DOMAIN Append(old, r) = 1 .. Len(old) + 1
  OBVIOUS
<1>3. Append(old, r)[Len(old) + 1] = r /\ \A n \in 1 .. Len(old) : Append(old, r)[n] = old[n]
  OBVIOUS
<1> QED
  BY <1>1, <1>2, <1>3

LEMMA RetiredOpen ==
  ASSUME NEW r \in Row, today \in Days
  PROVE  Plans(Retired(r)) \subseteq Plans(r)
<1> DEFINE e == EndApplicable(r, "content_replaced")
<1>1. SamePlans(r, e) /\ e \in Row
  BY EndOpen, EndKeeps DEF Kept, Gentle
<1>2. Retired(r) = [e EXCEPT !.live = FALSE]
  BY DEF Retired
<1> HIDE DEF e
<1>3. Retired(r).cases = e.cases
  BY <1>1, <1>2 DEF Row
<1> QED
  BY <1>1, <1>3, EasedSame, SamePlansSet

\* Nothing is agreed on.
LEMMA NothingAgreed ==
  ASSUME Uncancelled = {}
  PROVE  NonePending(agreement) /\ \A a \in Agreements : ~Rules(agreement, a) /\ ~Gone(agreement, a)
  BY DEF Uncancelled, In, NonePending, Awaits, Rules, Gone

LEMMA WorkingSetOpen ==
  ASSUME AgreementIInv, OpenIInv, NEW s \in Slots, OnWorkingSet(s)
  PROVE  OpenIInv'
<1> DEFINE old == content[s]
           Bare(new) == \A n \in DOMAIN new : Plans(new[n]) \subseteq {0}
           r == NewRow(TRUE, 0, "included")
<1>0. old \in Seq(GoodRow) /\ today \in Days /\ \A n \in DOMAIN old : old[n] \in Row
  BY GoodContent DEF AgreementIInv, AgreementTypeOK
<1>1. UNCHANGED <<today, agreement, member, frozen, midnight>> /\ Uncancelled = {}
  BY DEF OnWorkingSet, AddContent, RemoveContent, ReplaceContent, Working
<1>2. /\ NonePending(agreement)
      /\ \A a \in Agreements : ~Rules(agreement, a) /\ ~Gone(agreement, a)
  BY <1>1, NothingAgreed
<1>3. \A t \in Slots : \A n \in DOMAIN content[t] : Plans(content[t][n]) \subseteq {0}
  BY <1>2, NonePlanned DEF OpenIInv
<1>4. Plans(r) \subseteq {0}
  BY NewOpen
<1> HIDE DEF r
<1>5. \E new : content' = [content EXCEPT ![s] = new] /\ Bare(new)
  <2>1. CASE AddContent(s)
    <3>1. content' = [content EXCEPT ![s] = Append(old, r)]
      BY <2>1 DEF AddContent, Append1, r
    <3>2. /\ DOMAIN Append(old, r) = DOMAIN old \cup {Len(old) + 1}
          /\ Append(old, r)[Len(old) + 1] = r
          /\ \A n \in DOMAIN old : Append(old, r)[n] = old[n]
      BY <1>0, RowAppended
    <3>3. Bare(Append(old, r))
      BY <1>3, <1>4, <3>2
    <3> QED
      BY <3>1, <3>3
  <2>2. ASSUME NEW n \in DOMAIN old, RemoveContent(s, n) \/ ReplaceContent(s, n)
        PROVE  \E new : content' = [content EXCEPT ![s] = new] /\ Bare(new)
    <3> DEFINE mid == [old EXCEPT ![n] = Retired(old[n])]
    <3>1. Plans(Retired(old[n])) \subseteq {0}
      BY <1>0, <1>3, RetiredOpen
    <3>2. DOMAIN mid = DOMAIN old
          /\ \A m \in DOMAIN old : mid[m] = IF m = n THEN Retired(old[n]) ELSE old[m]
      BY <1>0
    <3>3. Retired(old[n]) \in GoodRow
      BY GoodContent, RetiredGood
    <3>4. mid \in Seq(GoodRow)
      BY <1>0, <3>3
    <3>5. RemoveContent(s, n) => content' = [content EXCEPT ![s] = mid]
      BY DEF RemoveContent, AgreementIInv, Contents
    <3>6. ReplaceContent(s, n) => content' = [content EXCEPT ![s] = Append(mid, r)]
      BY DEF ReplaceContent, r, AgreementIInv, Contents
    <3> HIDE DEF mid
    <3>7. Bare(mid)
      BY <1>3, <3>1, <3>2
    <3>8. Bare(Append(mid, r))
      BY <1>4, <3>4, <3>7, RowAppended
    <3> HIDE DEF Bare
    <3> QED
      BY <2>2, <3>5, <3>6, <3>7, <3>8
  <2> QED
    BY <2>1, <2>2 DEF OnWorkingSet
<1>6. Unplanned(content')
  BY <1>3, <1>5 DEF Unplanned, AgreementIInv, Contents
<1>7. PlansFit(agreement, member, content')
  BY <1>6, UnplannedFits
<1>8. Followed /\ ClosingFit(agreement, member, content', today)
  BY <1>2, NonePendingFits DEF Followed
<1>9. SpentFit(agreement, member, content', today)
  BY <1>2 DEF SpentFit
<1> QED
  BY <1>1, <1>7, <1>8, <1>9 DEF OpenIInv, Followed

LEMMA RegisterFirstOpen ==
  ASSUME AgreementIInv, OpenIInv, NEW date \in Days, RegisterFirst(date)
  PROVE  OpenIInv'
<1> DEFINE a == NextAgreement
           fresh == [phase |-> IF date > today THEN "upcoming" ELSE "current",
                     date |-> date, previous |-> 0]
<1>1. /\ Uncancelled = {} /\ In({"none"}) # {}
      /\ agreement' = [agreement EXCEPT ![a] = fresh]
      /\ UNCHANGED <<today, content>>
  BY DEF RegisterFirst
<1>2. a \in Agreements
  BY <1>1, NextIsFree
<1>3. fresh.phase \in {"upcoming", "current"} /\ fresh.previous = 0
  OBVIOUS
<1> HIDE DEF a, fresh
<1>4. agreement'[a] = fresh /\ \A b \in Agreements \ {a} : agreement'[b] = agreement[b]
  BY <1>1, <1>2 DEF AgreementIInv, AgreementTypeOK
<1>5. /\ NonePending(agreement)
      /\ \A b \in Agreements : ~Rules(agreement, b) /\ ~Gone(agreement, b)
  BY <1>1, NothingAgreed
<1>6. /\ \A b \in Agreements : ~Gone(agreement', b)
      /\ \A b, c \in Agreements : ~(Awaits(agreement', b) /\ Rules(agreement', c))
  BY <1>3, <1>4, <1>5 DEF Gone, Rules, Awaits, NonePending
<1>7. Unplanned(content)
  BY <1>5, NonePlanned DEF OpenIInv, Unplanned
<1>8. PlansFit(agreement', member', content)
  BY <1>7, UnplannedFits
<1>9. ASSUME NEW u \in Agreements, Awaits(agreement', u)
      PROVE  FollowsOn(agreement', member', u)
  <2>1. u = a
    BY <1>4, <1>5, <1>9 DEF NonePending, Awaits
  <2>2. agreement'[u].previous = 0
    BY <1>3, <1>4, <2>1
  <2> QED
    BY <1>6, <1>9, <2>2 DEF FollowsOn
<1>10. ClosingFit(agreement', member', content, today)
  BY <1>6 DEF ClosingFit, Confirmed, Awaits
<1>11. SpentFit(agreement', member', content, today)
  BY <1>6 DEF SpentFit
<1> QED
  BY <1>1, <1>8, <1>9, <1>10, <1>11 DEF OpenIInv, Followed

LEMMA CreateDraftOpen ==
  ASSUME AgreementIInv, OpenIInv, NEW date \in Days, CreateDraft(date)
  PROVE  OpenIInv'
<1> DEFINE a == NextAgreement
           p == Preceding
           kept == {s \in Slots : p > 0 /\ Bound(p, s) /\ ~member[p][s].removed}
           copied == {s \in kept : agreement[p].phase = "ended"}
           fresh == [phase |-> "draft", date |-> date, previous |-> p]
           row(s) == NewRow(FALSE, a, content[s][member[p][s].row].status)
           m(s) == IF s \in copied THEN [row |-> Len(content[s]) + 1, removed |-> FALSE]
                   ELSE IF s \in kept THEN member[p][s] ELSE NoMember
<1>1. /\ p > 0 /\ In({"none"}) # {} /\ Pending = {}
      /\ agreement' = [agreement EXCEPT ![a] = fresh]
      /\ member' = [member EXCEPT ![a] = [s \in Slots |-> m(s)]]
      /\ content' = [s \in Slots |-> IF s \in copied THEN Append(content[s], row(s)) ELSE content[s]]
      /\ UNCHANGED today
  BY DEF CreateDraft
<1>2. /\ a \in Agreements /\ agreement[a].phase = "none"
      /\ p \in Agreements /\ agreement[p].phase \in {"current", "ended"}
      /\ agreement[p].phase = "ended" => Current = {}
  BY <1>1, NextIsFree, PrecedingFits
<1>3. a # p /\ NonePending(agreement)
  BY <1>1, <1>2 DEF Pending, In, NonePending, Awaits
<1>4. fresh.phase = "draft" /\ fresh.previous = p
  OBVIOUS
<1>5. /\ copied \subseteq kept
      /\ \A s \in kept : s \in Slots /\ member[p][s].row > 0 /\ ~member[p][s].removed
      /\ \A s \in kept : s \in copied <=> agreement[p].phase = "ended"
      /\ \A s \in Slots : member[p][s].row > 0 /\ ~member[p][s].removed => s \in kept
  BY <1>1 DEF Bound
<1>6. \A s \in Slots : /\ s \in copied => m(s) = [row |-> Len(content[s]) + 1, removed |-> FALSE]
                       /\ s \in kept \ copied => m(s) = member[p][s]
                       /\ s \notin kept => m(s) = NoMember
  BY <1>5
<1>7. \A s : Plans(row(s)) = {}
  BY NewOpen
<1> HIDE DEF a, fresh, m, row
<1>8. /\ agreement'[a] = fresh /\ \A b \in Agreements \ {a} : agreement'[b] = agreement[b]
      /\ \A s \in Slots : member'[a][s] = m(s)
      /\ \A b \in Agreements \ {a} : member'[b] = member[b]
  BY <1>1, <1>2 DEF AgreementIInv, AgreementTypeOK
<1> HIDE DEF p, kept, copied
<1>9. \A s \in Slots : \A n \in DOMAIN content'[s] :
        \/ n \in DOMAIN content[s] /\ content'[s][n] = content[s][n]
        \/ n \notin DOMAIN content[s] /\ Plans(content'[s][n]) = {}
  <2> TAKE s \in Slots
  <2> TAKE n \in DOMAIN content'[s]
  <2>1. CASE s \in copied
    <3>1. content'[s] = Append(content[s], row(s)) /\ content[s] \in Seq(GoodRow)
      BY <1>1, <2>1, GoodContent
    <3> QED
      BY <1>7, <3>1, RowAppended
  <2>2. CASE s \notin copied
    BY <1>1, <2>2
  <2> QED
    BY <2>1, <2>2
<1>10. PlansFit(agreement', member', content')
  <2>1. Unplanned(content)
    BY <1>3, NonePlanned DEF OpenIInv, Unplanned
  <2>2. Unplanned(content')
    BY <1>9, <2>1 DEF Unplanned
  <2> QED
    BY <2>2, UnplannedFits
<1>11. \A b \in Agreements : /\ Rules(agreement', b) <=> Rules(agreement, b)
                             /\ Gone(agreement', b) <=> Gone(agreement, b)
                             /\ Awaits(agreement', b) => b = a
                             /\ Rules(agreement, b) \/ Gone(agreement, b) => b # a
                             /\ ~Confirmed(agreement', b)
  BY <1>2, <1>3, <1>4, <1>8 DEF Rules, Gone, Awaits, NonePending, Confirmed
<1>12. \A c \in Agreements : Rules(agreement, c) => c = p /\ agreement[p].phase = "current"
  <2> TAKE c \in Agreements
  <2> HAVE Rules(agreement, c)
  <2>1. agreement[p].phase = "current"
    BY <1>2 DEF Rules, Current, In
  <2> QED
    BY <1>2, <2>1 DEF Rules, AgreementIInv, Phases, PhasesFit
<1>13. FollowsOn(agreement', member', a)
  <2>1. agreement'[a].previous = p
    BY <1>4, <1>8
  <2>2. ASSUME NEW c \in Agreements, Rules(agreement', c)
        PROVE  /\ agreement'[a].previous = c
               /\ \A s \in Slots : member'[c][s].row > 0 /\ ~member'[c][s].removed => member'[a][s].row > 0
    <3>1. c = p /\ c # a /\ agreement[p].phase # "ended"
      BY <1>11, <1>12, <2>2
    <3>2. ASSUME NEW s \in Slots, member'[c][s].row > 0, ~member'[c][s].removed
          PROVE  member'[a][s].row > 0
      <4>1. s \in kept \ copied
        BY <1>2, <1>5, <1>8, <3>1, <3>2
      <4> QED
        BY <1>5, <1>6, <1>8, <4>1
    <3> QED
      BY <2>1, <3>1, <3>2
  <2>3. agreement'[agreement'[a].previous].phase \in {"current", "ended"}
    BY <1>2, <1>3, <1>8, <2>1
  <2>4. ASSUME NEW s \in Slots, NEW n \in 1 .. MaxRows, NEW b \in Agreements,
               Has(member', a, s, n), Has(member', b, s, n),
               Rules(agreement', b) \/ Gone(agreement', b)
        PROVE  HeldNow(agreement', member', s, n)
    <3>1. b # a /\ Has(member, b, s, n)
      BY <1>8, <1>11, <2>4 DEF Has
    <3>2. n \in DOMAIN content[s] /\ n > 0
      BY <3>1, HasRow DEF Has
    <3>3. m(s) = [row |-> n, removed |-> FALSE]
      BY <1>8, <2>4 DEF Has
    <3>4. s \notin copied
      BY <1>6, <3>2, <3>3, GoodContent
    <3>5. s \in kept
      BY <1>6, <3>2, <3>3 DEF NoMember
    <3>6. Rules(agreement, p) /\ Has(member, p, s, n)
      BY <1>2, <1>5, <1>6, <3>2, <3>3, <3>4, <3>5 DEF Rules, Has
    <3>7. Rules(agreement', p) /\ Has(member', p, s, n)
      BY <1>2, <1>3, <1>8, <1>11, <3>6 DEF Has
    <3> QED
      BY <1>2, <3>7 DEF HeldNow
  <2> QED
    BY <2>2, <2>3, <2>4 DEF FollowsOn
<1>14. ClosingFit(agreement', member', content', today)
  BY <1>11, UnconfirmedFits
<1>15. SpentFit(agreement', member', content', today)
  <2>1. InForceAs(agreement', member')
    BY <1>8, <1>11 DEF InForceAs
  <2>2. SpentRows(content', today)
    BY <1>9 DEF SpentRows
  <2> QED
    BY <2>1, <2>2, SpentKept DEF OpenIInv
<1> QED
  BY <1>1, <1>10, <1>11, <1>13, <1>14, <1>15 DEF OpenIInv, Followed

\* The rows of a slot after the draft was edited: nothing is opened, and no
\* ending is planned on what the draft keeps.
Edited(old, new, m) ==
  \A n \in DOMAIN new :
    /\ n \in DOMAIN old => Eased(old[n], new[n])
    /\ m = [row |-> n, removed |-> FALSE] => Plans(new[n]) \subseteq {0}

\* Whatever a current agreement holds of a slot, membership m accounts for.
Accounted(s, m) ==
  \A c \in Agreements :
    Rules(agreement, c) /\ member[c][s].row > 0 /\ ~member[c][s].removed => m.row > 0

\* Membership m takes up no content that was left behind.
Fresh(s, m) ==
  \A n \in 1 .. MaxRows, a \in Agreements :
    /\ m = [row |-> n, removed |-> FALSE]
    /\ Has(member, a, s, n) /\ (Rules(agreement, a) \/ Gone(agreement, a))
    => HeldNow(agreement, member, s, n)

OnlyPlans(row, d) == Plans(row) \subseteq {0, d}

LEMMA DraftPlans ==
  ASSUME AgreementIInv, PlansFit(agreement, member, content),
         NEW d \in Agreements, agreement[d].phase = "draft", NEW s \in Slots, NEW n \in DOMAIN content[s]
  PROVE  /\ OnlyPlans(content[s][n], d)
         /\ Has(member, d, s, n) => Plans(content[s][n]) \subseteq {0}
<1>1. \A p \in Plans(content[s][n]) : p > 0 => p = d /\ ~Has(member, d, s, n)
  BY PlanRange, OnlyDraft DEF Awaits
<1>2. \A p \in Plans(content[s][n]) : p \in Nat
  BY PlanRange
<1> QED
  BY <1>1, <1>2 DEF OnlyPlans

LEMMA DraftOpen ==
  ASSUME AgreementIInv, OpenIInv, NEW d \in Agreements, agreement[d].phase = "draft",
         NEW s \in Slots, NEW new, content' = [content EXCEPT ![s] = new],
         NEW m, member' = [member EXCEPT ![d][s] = m],
         UNCHANGED <<today, agreement, frozen, midnight>>,
         Edited(content[s], new, m), \A n \in DOMAIN new : OnlyPlans(new[n], d),
         Accounted(s, m), Fresh(s, m)
  PROVE  OpenIInv'
<1>1. content'[s] = new /\ \A t \in Slots \ {s} : content'[t] = content[t]
  BY DEF AgreementIInv, Contents
<1>2. /\ member'[d][s] = m /\ \A t \in Slots \ {s} : member'[d][t] = member[d][t]
      /\ \A a \in Agreements \ {d} : member'[a] = member[a]
  BY DEF AgreementIInv, AgreementTypeOK
<1>3. \A a \in Agreements : /\ Rules(agreement, a) \/ Gone(agreement, a) => a # d
                            /\ Awaits(agreement, a) => a = d
                            /\ ~Confirmed(agreement, a)
  BY OnlyDraft DEF Rules, Gone, Awaits, Confirmed
<1>4. PlansFit(agreement, member', content')
  <2> SUFFICES ASSUME NEW t \in Slots, NEW n \in DOMAIN content'[t],
                      NEW p \in Plans(content'[t][n]), p > 0
               PROVE  Awaits(agreement, p) /\ ~Has(member', p, t, n)
    BY DEF PlansFit
  <2>1. CASE t = s
    <3>1. p = d /\ m # [row |-> n, removed |-> FALSE]
      BY <1>1, <2>1 DEF OnlyPlans, Edited
    <3> QED
      BY <1>2, <2>1, <3>1 DEF Has, Awaits
  <2>2. CASE t # s
    <3>0. n \in DOMAIN content[t] /\ p \in Plans(content[t][n])
      BY <1>1, <2>2
    <3>1. p = d /\ ~Has(member, d, t, n)
      BY <1>3, <3>0, PlanRange DEF OpenIInv
    <3> QED
      BY <1>2, <2>2, <3>1 DEF Has, Awaits
  <2> QED
    BY <2>1, <2>2
<1>5. \A t \in Slots, n \in 1 .. MaxRows :
        HeldNow(agreement, member, t, n) => HeldNow(agreement, member', t, n)
  BY <1>2, <1>3 DEF HeldNow, Has
<1>6. FollowsOn(agreement, member', d)
  <2>1. FollowsOn(agreement, member, d)
    BY DEF OpenIInv, Followed, Awaits
  <2>2. ASSUME NEW c \in Agreements, Rules(agreement, c), NEW t \in Slots,
               member'[c][t].row > 0, ~member'[c][t].removed
        PROVE  member'[d][t].row > 0
    <3>1. member'[c] = member[c]
      BY <1>2, <1>3, <2>2
    <3>2. CASE t = s
      BY <1>2, <2>2, <3>1, <3>2 DEF Accounted
    <3>3. CASE t # s
      BY <1>2, <2>1, <2>2, <3>1, <3>3 DEF FollowsOn
    <3> QED
      BY <3>2, <3>3
  <2>3. ASSUME NEW t \in Slots, NEW n \in 1 .. MaxRows, NEW a \in Agreements,
               Has(member', d, t, n), Has(member', a, t, n),
               Rules(agreement, a) \/ Gone(agreement, a)
        PROVE  HeldNow(agreement, member', t, n)
    <3>1. a # d /\ Has(member, a, t, n)
      BY <1>2, <1>3, <2>3 DEF Has
    <3>2. CASE t = s
      <4>1. m = [row |-> n, removed |-> FALSE]
        BY <1>2, <2>3, <3>2 DEF Has
      <4>2. HeldNow(agreement, member, t, n)
        BY <2>3, <3>1, <3>2, <4>1 DEF Fresh
      <4> QED
        BY <1>5, <4>2
    <3>3. CASE t # s
      <4>1. Has(member, d, t, n)
        BY <1>2, <2>3, <3>3 DEF Has
      <4>2. HeldNow(agreement, member, t, n)
        BY <2>1, <2>3, <3>1, <4>1 DEF FollowsOn
      <4> QED
        BY <1>5, <4>2
    <3> QED
      BY <3>2, <3>3
  <2> QED
    BY <2>1, <2>2, <2>3 DEF FollowsOn
<1>7. ClosingFit(agreement, member', content', today)
  BY <1>3, UnconfirmedFits
<1>8. SpentFit(agreement, member', content', today)
  <2>1. InForceAs(agreement, member')
    BY <1>2, <1>3 DEF InForceAs
  <2>2. SpentRows(content', today)
    <3> SUFFICES ASSUME NEW t \in Slots, NEW n \in DOMAIN content'[t], n \in DOMAIN content[t],
                        Spent(content[t][n], today)
                 PROVE  Spent(content'[t][n], today)
      BY DEF SpentRows
    <3>1. CASE t = s
      <4>1. Eased(content[t][n], content'[t][n]) /\ today \in Days
        BY <1>1, <3>1 DEF Edited, AgreementIInv, AgreementTypeOK
      <4> QED
        BY <4>1, EasedSpent
    <3> QED
      BY <1>1, <3>1
  <2> QED
    BY <2>1, <2>2, SpentKept DEF OpenIInv
<1> QED
  BY <1>3, <1>4, <1>6, <1>7, <1>8 DEF OpenIInv, Followed

LEMMA GuardedOpen ==
  ASSUME AgreementIInv, NEW d \in Agreements, NEW s \in Slots, NEW n \in DOMAIN content[s],
         OnlyPlans(content[s][n], d)
  PROVE  Eased(content[s][n], Guarded(d, s, n)) /\ OnlyPlans(Guarded(d, s, n), d)
<1> DEFINE r == content[s][n]
<1>1. r \in Row /\ today \in Days
  BY GoodContent DEF AgreementIInv, AgreementTypeOK
<1> HIDE DEF r
<1>2. Eased(r, PlanApplicable(r, d)) /\ Plans(PlanApplicable(r, d)) \subseteq Plans(r) \cup {d}
  BY <1>1, PlanOpen
<1>3. /\ Eased(r, EndApplicable(r, "content_replaced"))
      /\ Plans(EndApplicable(r, "content_replaced")) \subseteq Plans(r)
  BY <1>1, EndOpen, SamePlansSet
<1>4. Guarded(d, s, n) = PlanApplicable(r, d) \/ Guarded(d, s, n) = EndApplicable(r, "content_replaced")
  BY DEF Guarded, r
<1> QED
  BY <1>2, <1>3, <1>4 DEF OnlyPlans, r

\* A row of its own is nobody else's.
LEMMA NewIsFresh ==
  ASSUME AgreementIInv, NEW s \in Slots, NEW m, m.row = Len(content[s]) + 1
  PROVE  Accounted(s, m) /\ Fresh(s, m)
<1>1. Len(content[s]) \in Nat /\ DOMAIN content[s] = 1 .. Len(content[s])
  BY GoodContent
<1>2. Accounted(s, m)
  BY <1>1 DEF Accounted
<1>3. Fresh(s, m)
  <2> SUFFICES ASSUME NEW n \in 1 .. MaxRows, NEW a \in Agreements,
                      m = [row |-> n, removed |-> FALSE], Has(member, a, s, n)
               PROVE  FALSE
    BY DEF Fresh
  <2>1. n \in DOMAIN content[s]
    BY HasRow
  <2> QED
    BY <1>1, <2>1
<1> QED
  BY <1>2, <1>3

LEMMA AddOpen ==
  ASSUME AgreementIInv, OpenIInv, NEW d \in Agreements, agreement[d].phase = "draft",
         NEW s \in Slots, AddToDraft(d, s)
  PROVE  OpenIInv'
<1> DEFINE r == NewRow(FALSE, d, "included")
           new == Append(content[s], r)
           m == [row |-> Len(content[s]) + 1, removed |-> FALSE]
<1>1. /\ content' = [content EXCEPT ![s] = new] /\ member' = [member EXCEPT ![d][s] = m]
      /\ UNCHANGED <<today, agreement, frozen, midnight>>
  BY DEF AddToDraft, Append1, AgreementIInv, Contents
<1>2. m.row = Len(content[s]) + 1
  OBVIOUS
<1>3. Accounted(s, m) /\ Fresh(s, m)
  BY <1>2, NewIsFresh
<1>4. Plans(r) = {}
  BY NewOpen
<1> HIDE DEF r
<1>5. /\ DOMAIN new = DOMAIN content[s] \cup {Len(content[s]) + 1}
      /\ new[Len(content[s]) + 1] = r /\ Len(content[s]) + 1 \notin DOMAIN content[s]
      /\ \A n \in DOMAIN content[s] : new[n] = content[s][n]
  BY GoodContent, RowAppended
<1> HIDE DEF new
<1>6. \A n \in DOMAIN content[s] : OnlyPlans(content[s][n], d)
  BY DraftPlans DEF OpenIInv
<1>7. \A n \in DOMAIN new : OnlyPlans(new[n], d)
  BY <1>4, <1>5, <1>6 DEF OnlyPlans
<1>8. Edited(content[s], new, m)
  BY <1>4, <1>5, EasedSame DEF Edited
<1> HIDE DEF m
<1> QED
  BY <1>1, <1>3, <1>7, <1>8, DraftOpen

LEMMA ChangeOpen ==
  ASSUME AgreementIInv, OpenIInv, NEW d \in Agreements, agreement[d].phase = "draft",
         NEW s \in Slots, ChangeInDraft(d, s)
  PROVE  OpenIInv'
<1> DEFINE n == member[d][s].row
           mid == [content[s] EXCEPT ![n] = Guarded(d, s, n)]
           r == NewRow(FALSE, d, "included")
           new == Append(mid, r)
           m == [member[d][s] EXCEPT !.row = Len(content[s]) + 1]
<1>1. n > 0 /\ n \in DOMAIN content[s] /\ member[d][s] \in Membership
  BY BoundRow DEF ChangeInDraft, Member
<1>2. /\ content' = [content EXCEPT ![s] = new] /\ member' = [member EXCEPT ![d][s] = m]
      /\ UNCHANGED <<today, agreement, frozen, midnight>>
  BY DEF ChangeInDraft, AgreementIInv, Contents, AgreementTypeOK
<1>3. m.row = Len(content[s]) + 1
  BY <1>1 DEF Membership
<1>4. Accounted(s, m) /\ Fresh(s, m)
  BY <1>3, NewIsFresh
<1>5. Plans(r) = {}
  BY NewOpen
<1> HIDE DEF r, m
<1>6. \A k \in DOMAIN content[s] : OnlyPlans(content[s][k], d)
  BY DraftPlans DEF OpenIInv
<1>7. Eased(content[s][n], Guarded(d, s, n)) /\ OnlyPlans(Guarded(d, s, n), d)
  BY <1>1, <1>6, GuardedOpen
<1>8. Guarded(d, s, n) \in GoodRow
  BY <1>1, GuardedKept DEF Rewritten
<1>9. /\ mid \in Seq(GoodRow) /\ DOMAIN mid = DOMAIN content[s] /\ Len(mid) = Len(content[s])
      /\ \A k \in DOMAIN content[s] : mid[k] = IF k = n THEN Guarded(d, s, n) ELSE content[s][k]
  BY <1>1, <1>8, GoodContent
<1> HIDE DEF n, mid
<1>10. /\ DOMAIN new = DOMAIN content[s] \cup {Len(content[s]) + 1}
       /\ new[Len(content[s]) + 1] = r /\ Len(content[s]) + 1 \notin DOMAIN content[s]
       /\ \A k \in DOMAIN content[s] : new[k] = mid[k]
  BY <1>9, RowAppended
<1> HIDE DEF new
<1>11. \A k \in DOMAIN new : OnlyPlans(new[k], d)
  BY <1>5, <1>6, <1>7, <1>9, <1>10 DEF OnlyPlans
<1>12. Edited(content[s], new, m)
  BY <1>3, <1>5, <1>7, <1>9, <1>10, EasedSame DEF Edited
<1> QED
  BY <1>2, <1>4, <1>11, <1>12, DraftOpen

LEMMA RemoveOpen ==
  ASSUME AgreementIInv, OpenIInv, NEW d \in Agreements, agreement[d].phase = "draft",
         NEW s \in Slots, RemoveFromDraft(d, s)
  PROVE  OpenIInv'
<1> DEFINE n == member[d][s].row
           new == [content[s] EXCEPT ![n] = Guarded(d, s, n)]
           m == [member[d][s] EXCEPT !.removed = TRUE]
<1>1. n > 0 /\ n \in DOMAIN content[s] /\ member[d][s] \in Membership
  BY BoundRow DEF RemoveFromDraft, Member
<1>2. /\ content' = [content EXCEPT ![s] = new] /\ member' = [member EXCEPT ![d][s] = m]
      /\ UNCHANGED <<today, agreement, frozen, midnight>>
  BY DEF RemoveFromDraft, AgreementIInv, Contents, AgreementTypeOK
<1>3. m.row = n /\ m.removed = TRUE
  BY <1>1 DEF Membership
<1> HIDE DEF m
<1>4. Accounted(s, m) /\ Fresh(s, m) /\ \A k : m # [row |-> k, removed |-> FALSE]
  BY <1>1, <1>3 DEF Accounted, Fresh
<1>5. \A k \in DOMAIN content[s] : OnlyPlans(content[s][k], d)
  BY DraftPlans DEF OpenIInv
<1>6. Eased(content[s][n], Guarded(d, s, n)) /\ OnlyPlans(Guarded(d, s, n), d)
  BY <1>1, <1>5, GuardedOpen
<1>7. /\ DOMAIN new = DOMAIN content[s]
      /\ \A k \in DOMAIN content[s] : new[k] = IF k = n THEN Guarded(d, s, n) ELSE content[s][k]
  BY <1>1
<1> HIDE DEF n, new
<1>8. \A k \in DOMAIN new : OnlyPlans(new[k], d)
  BY <1>5, <1>6, <1>7
<1>9. Edited(content[s], new, m)
  BY <1>4, <1>6, <1>7, EasedSame DEF Edited
<1> QED
  BY <1>2, <1>4, <1>8, <1>9, DraftOpen

LEMMA MembershipIs ==
  ASSUME NEW m \in Membership, ~m.removed
  PROVE  m = [row |-> m.row, removed |-> FALSE]
  BY DEF Membership

LEMMA UndoOpen ==
  ASSUME AgreementIInv, OpenIInv, NEW d \in Agreements, agreement[d].phase = "draft",
         NEW s \in Slots, UndoInDraft(d, s)
  PROVE  OpenIInv'
<1> DEFINE n == member[d][s].row
           old == PreviousRow(d, s)
           p == agreement[d].previous
           guard == ~member[d][s].removed /\ n # old
           copied == old > 0 /\ agreement[p].phase = "ended"
           row(k) == Unplan(IF k = n /\ guard THEN EndApplicable(content[s][k], "content_replaced")
                            ELSE content[s][k], d)
           rows == [k \in DOMAIN content[s] |-> row(k)]
           r == NewRow(FALSE, d, content[s][old].status)
           new == IF copied THEN Append(rows, r) ELSE rows
           m == IF old = 0 THEN NoMember
                ELSE [row |-> IF copied THEN Len(content[s]) + 1 ELSE old, removed |-> FALSE]
<1>1. /\ content' = [content EXCEPT ![s] = new] /\ member' = [member EXCEPT ![d][s] = m]
      /\ UNCHANGED <<today, agreement, frozen, midnight>>
  BY DEF UndoInDraft, AgreementIInv, Contents
<1>2. today \in Days /\ Len(content[s]) \in Nat /\ DOMAIN content[s] = 1 .. Len(content[s])
  BY GoodContent DEF AgreementIInv, AgreementTypeOK
<1>3. \A k \in DOMAIN content[s] : OnlyPlans(content[s][k], d)
  BY DraftPlans DEF OpenIInv
<1>4. \A k \in DOMAIN content[s] :
        Eased(content[s][k], row(k)) /\ Plans(row(k)) \subseteq {0} /\ row(k) \in Row
  <2> TAKE k \in DOMAIN content[s]
  <2> DEFINE q == IF k = n /\ guard THEN EndApplicable(content[s][k], "content_replaced")
                  ELSE content[s][k]
  <2>1. content[s][k] \in Row
    BY GoodContent
  <2>2. q \in Row
    BY <2>1, EndKeeps DEF Kept, Gentle
  <2>3. Eased(content[s][k], q) /\ Plans(q) \subseteq Plans(content[s][k])
    BY <1>2, <2>1, EndOpen, EasedSame, SamePlansSet
  <2>4. row(k) = CancelPlans(q, d)
    BY DEF Unplan
  <2> HIDE DEF q, row
  <2>5. Eased(q, row(k)) /\ Plans(row(k)) \subseteq (Plans(q) \ {d}) \cup {0} /\ row(k) \in Row
    BY <2>2, <2>4, UnplanOpen, UnplanKeeps DEF Kept, Gentle
  <2>6. Eased(content[s][k], row(k))
    BY <2>3, <2>5, EasedTwice
  <2>7. Plans(row(k)) \subseteq {0}
    BY <1>3, <2>3, <2>5 DEF OnlyPlans
  <2> QED
    BY <2>5, <2>6, <2>7
<1>5. DOMAIN rows = DOMAIN content[s] /\ \A k \in DOMAIN content[s] : rows[k] = row(k)
  OBVIOUS
<1>6. Plans(r) = {}
  BY NewOpen
<1> HIDE DEF row, r
<1>7. rows \in Seq(Row) /\ Len(rows) = Len(content[s])
  BY <1>2, <1>4, <1>5, GoodContent, MapRows
<1> HIDE DEF rows
<1>8. \A k \in DOMAIN new : /\ Plans(new[k]) \subseteq {0}
                            /\ k \in DOMAIN content[s] => Eased(content[s][k], new[k])
  <2>1. /\ DOMAIN Append(rows, r) = DOMAIN rows \cup {Len(rows) + 1}
        /\ Append(rows, r)[Len(rows) + 1] = r /\ Len(rows) + 1 \notin DOMAIN rows
        /\ \A k \in DOMAIN rows : Append(rows, r)[k] = rows[k]
    BY <1>7, RowAppended
  <2> HIDE DEF copied
  <2> QED
    BY <1>4, <1>5, <1>6, <2>1
<1>9. p > 0 => /\ p \in Agreements
               /\ agreement[p].phase \in {"current", "ended"}
               /\ \A c \in Agreements : Rules(agreement, c) => p = c
  <2>1. FollowsOn(agreement, member, d)
    BY DEF OpenIInv, Followed, Awaits
  <2>2. p > 0 => p \in Agreements
    BY PrecededBy
  <2> QED
    BY <2>1, <2>2 DEF FollowsOn
<1>10. \A c \in Agreements : Rules(agreement, c) => p = c /\ p > 0
  <2>1. FollowsOn(agreement, member, d)
    BY DEF OpenIInv, Followed, Awaits
  <2> QED
    BY <2>1, AgreementAssumption DEF FollowsOn, Agreements
<1>11. old = IF p > 0 /\ ~member[p][s].removed THEN member[p][s].row ELSE 0
  BY DEF PreviousRow
<1>12. old # 0 => old > 0 /\ p > 0 /\ Has(member, p, s, old)
  <2>1. ASSUME old # 0 PROVE p > 0 /\ ~member[p][s].removed /\ old = member[p][s].row
    BY <1>11, <2>1
  <2>2. p > 0 => member[p][s] \in Membership /\ member[p][s].row \in 0 .. MaxRows
    BY <1>9, BoundRow
  <2> HIDE DEF old, p
  <2>3. ASSUME old # 0 PROVE old > 0 /\ member[p][s] = [row |-> old, removed |-> FALSE]
    <3>1. member[p][s] = [row |-> member[p][s].row, removed |-> FALSE]
      BY <2>1, <2>2, <2>3, MembershipIs
    <3>2. old \in 0 .. MaxRows
      BY <2>1, <2>2, <2>3
    <3>3. old > 0
      BY <2>3, <3>2, AgreementAssumption
    <3> QED
      BY <2>1, <2>3, <3>1, <3>3
  <2> QED
    BY <2>1, <2>3 DEF Has
<1>13. copied => m.row = Len(content[s]) + 1
  BY <1>12
<1>14. ~copied => m = IF old = 0 THEN NoMember ELSE [row |-> old, removed |-> FALSE]
  OBVIOUS
<1>15. copied <=> old > 0 /\ agreement[p].phase = "ended"
  OBVIOUS
<1>19. \A k \in DOMAIN new : OnlyPlans(new[k], d)
  BY <1>8 DEF OnlyPlans
<1> HIDE DEF m, new, copied, old, p
<1>16. Accounted(s, m) /\ Fresh(s, m)
  <2>1. CASE copied
    BY <1>13, <2>1, NewIsFresh
  <2>2. CASE ~copied
    <3>1. Accounted(s, m)
      <4> SUFFICES ASSUME NEW c \in Agreements, Rules(agreement, c),
                          member[c][s].row > 0, ~member[c][s].removed
                   PROVE  m.row > 0
        BY DEF Accounted
      <4>1. old = member[c][s].row /\ old > 0
        BY <1>10, <1>11
      <4> QED
        BY <1>14, <2>2, <4>1
    <3>2. Fresh(s, m)
      <4> SUFFICES ASSUME NEW k \in 1 .. MaxRows, m = [row |-> k, removed |-> FALSE]
                   PROVE  HeldNow(agreement, member, s, k)
        BY DEF Fresh
      <4>1. k = old /\ old # 0
        BY <1>14, <2>2, AgreementAssumption DEF NoMember
      <4>2. p \in Agreements /\ Rules(agreement, p) /\ Has(member, p, s, k)
        BY <1>9, <1>12, <1>15, <2>2, <4>1 DEF Rules
      <4> QED
        BY <4>2 DEF HeldNow
    <3> QED
      BY <3>1, <3>2
  <2> QED
    BY <2>1, <2>2
<1>17. Edited(content[s], new, m)
  BY <1>8 DEF Edited
<1> QED
  BY <1>1, <1>16, <1>17, <1>19, DraftOpen

-----------------------------------------------------------------------------
(***************************************************************************)
(* Agreements that come, take effect and go.                               *)
(***************************************************************************)
LEMMA PendingPlans ==
  ASSUME AgreementIInv, PlansFit(agreement, member, content),
         NEW u \in Agreements, Awaits(agreement, u), NEW s \in Slots, NEW n \in DOMAIN content[s]
  PROVE  /\ OnlyPlans(content[s][n], u)
         /\ Has(member, u, s, n) => Plans(content[s][n]) \subseteq {0}
<1>1. \A p \in Plans(content[s][n]) : p > 0 => p \in Agreements /\ Awaits(agreement, p) /\ ~Has(member, p, s, n)
  BY PlanRange
<1>2. \A p \in Agreements : Awaits(agreement, p) => p = u
  BY DEF Awaits, AgreementIInv, Phases, PhasesFit
<1>3. \A p \in Plans(content[s][n]) : p \in Nat
  BY PlanRange
<1> QED
  BY <1>1, <1>2, <1>3 DEF OnlyPlans

\* The phases after agreement u took effect.
LEMMA EffectPhases ==
  ASSUME AgreementIInv, NEW u \in Agreements, Awaits(agreement, u), NEW rows, NEW date,
         TakeEffect(u, rows, date)
  PROVE  \A a \in Agreements : /\ Rules(agreement', a) <=> a = u
                               /\ ~Awaits(agreement', a)
                               /\ Gone(agreement', a) => Gone(agreement, a) \/ Rules(agreement, a)
<1>1. \A a \in Agreements : agreement'[a] =
        IF a = u THEN [agreement[u] EXCEPT !.phase = "current", !.date = date]
        ELSE IF a \in Current THEN [agreement[a] EXCEPT !.phase = "replaced"]
        ELSE agreement[a]
  BY DEF TakeEffect
<1>2. \A a \in Agreements : agreement[a] \in
        [phase : {"none", "draft", "upcoming", "current", "replaced", "ended", "cancelled"},
         date : Days, previous : 0 .. MaxAgreements]
  BY DEF AgreementIInv, AgreementTypeOK
<1>3. \A a \in Agreements : agreement[a].phase \in {"draft", "upcoming"} => a = u
  BY DEF Awaits, AgreementIInv, Phases, PhasesFit
<1> TAKE a \in Agreements
<1>4. CASE a = u
  <2>1. agreement'[a].phase = "current"
    BY <1>1, <1>2, <1>4
  <2> QED
    BY <1>4, <2>1 DEF Rules, Awaits, Gone
<1>5. CASE a # u /\ a \in Current
  <2>1. agreement'[a].phase = "replaced" /\ agreement[a].phase = "current"
    BY <1>1, <1>2, <1>5 DEF Current, In
  <2> QED
    BY <1>5, <2>1 DEF Rules, Awaits, Gone
<1>6. CASE a # u /\ a \notin Current
  <2>1. agreement'[a] = agreement[a] /\ agreement[a].phase # "current"
    BY <1>1, <1>6 DEF Current, In
  <2> QED
    BY <1>3, <1>6, <2>1 DEF Rules, Awaits, Gone
<1> QED
  BY <1>4, <1>5, <1>6

\* The rows with which an agreement takes effect: what it leaves behind is being
\* closed.
ReadyFor(u, rows) ==
  /\ \A s \in Slots : \A n \in DOMAIN content[s] :
       rows[s][n] \in Row /\ Eased(content[s][n], rows[s][n]) /\ OnlyPlans(rows[s][n], u)
  /\ \A c \in Agreements : Rules(agreement, c) => \A s \in Slots : \A n \in DOMAIN content[s] :
       Has(member, c, s, n) /\ ~Has(member, u, s, n) => Closing(rows[s][n], u, today)

LEMMA TakeEffectOpen ==
  ASSUME AgreementIInv, OpenIInv, NEW u \in Agreements, Awaits(agreement, u),
         NEW rows, \A s \in Slots : DOMAIN rows[s] = DOMAIN content[s], ReadyFor(u, rows),
         NEW date, TakeEffect(u, rows, date), UNCHANGED <<today, member>>
  PROVE  OpenIInv'
<1>1. \A a \in Agreements : /\ Rules(agreement', a) <=> a = u
                            /\ ~Awaits(agreement', a)
                            /\ Gone(agreement', a) => Gone(agreement, a) \/ Rules(agreement, a)
  BY EffectPhases
<1>2. today \in Days
  BY DEF AgreementIInv, AgreementTypeOK
<1>3. \A s \in Slots : /\ DOMAIN content'[s] = DOMAIN content[s]
                       /\ \A n \in DOMAIN content[s] : content'[s][n] =
                            [CarryOutPlans(rows[s][n], u) EXCEPT !.live = Member(u, s, n)]
  BY DEF TakeEffect, CarriedOut
<1>4. ASSUME NEW s \in Slots, NEW n \in DOMAIN content[s]
      PROVE  /\ Plans(content'[s][n]) \subseteq {0}
             /\ Eased(rows[s][n], content'[s][n])
             /\ Closing(rows[s][n], u, today) => Spent(content'[s][n], today)
  <2> DEFINE r == rows[s][n]
             q == CarryOutPlans(r, u)
  <2>1. r \in Row /\ OnlyPlans(r, u)
    BY <1>4 DEF ReadyFor
  <2>2. content'[s][n] = [q EXCEPT !.live = Member(u, s, n)]
    BY <1>3, <1>4
  <2> HIDE DEF r
  <2>3. /\ Eased(r, q) /\ Plans(q) \subseteq (Plans(r) \ {u}) \cup {0}
        /\ Closing(r, u, today) => Spent(q, today)
    BY <1>2, <2>1, CarryOutOpen
  <2>4. q \in Row
    BY <2>1, CarryOutKeeps DEF Kept, Gentle
  <2> HIDE DEF q
  <2>5. content'[s][n].cases = q.cases
    BY <2>2, <2>4 DEF Row
  <2>6. Eased(q, content'[s][n]) /\ Plans(content'[s][n]) = Plans(q)
    BY <2>5, EasedSame
  <2>7. Plans(content'[s][n]) \subseteq {0}
    BY <2>1, <2>3, <2>6 DEF OnlyPlans
  <2>8. Eased(r, content'[s][n]) /\ (Closing(r, u, today) => Spent(content'[s][n], today))
    BY <1>2, <2>3, <2>6, EasedTwice, EasedSpent
  <2> QED
    BY <2>7, <2>8 DEF r
<1>5. PlansFit(agreement', member', content')
  <2>1. Unplanned(content')
    BY <1>3, <1>4 DEF Unplanned
  <2> QED
    BY <2>1, UnplannedFits
<1>6. NonePending(agreement')
  BY <1>1 DEF NonePending
<1>7. SpentFit(agreement', member, content', today)
  <2> SUFFICES ASSUME NEW a \in Agreements, Gone(agreement', a),
                      NEW s \in Slots, NEW n \in DOMAIN content'[s],
                      Has(member, a, s, n), ~HeldNow(agreement', member, s, n)
               PROVE  Spent(content'[s][n], today)
    BY DEF SpentFit
  <2>1. n \in DOMAIN content[s] /\ ~Has(member, u, s, n)
    BY <1>1, <1>3 DEF HeldNow
  <2>2. ASSUME NEW c \in Agreements, Rules(agreement, c), Has(member, c, s, n)
        PROVE  Spent(content'[s][n], today)
    <3>1. Closing(rows[s][n], u, today)
      BY <2>1, <2>2 DEF ReadyFor
    <3> QED
      BY <1>4, <2>1, <3>1
  <2>3. CASE Gone(agreement, a) /\ ~HeldNow(agreement, member, s, n)
    <3>1. Spent(content[s][n], today)
      BY <2>1, <2>3 DEF OpenIInv, SpentFit
    <3>2. Eased(content[s][n], rows[s][n]) /\ Eased(rows[s][n], content'[s][n])
      BY <1>4, <2>1 DEF ReadyFor
    <3> QED
      BY <1>2, <3>1, <3>2, EasedTwice, EasedSpent
  <2> QED
    BY <1>1, <2>2, <2>3 DEF HeldNow
<1> QED
  BY <1>5, <1>6, <1>7, NonePendingFits DEF OpenIInv, Followed

LEMMA CurrentlyReady ==
  ASSUME AgreementIInv, OpenIInv, NEW u \in Agreements, Confirmed(agreement, u)
  PROVE  ReadyFor(u, content)
<1>1. Awaits(agreement, u)
  BY DEF Awaits, Confirmed
<1>2. \A s \in Slots : \A n \in DOMAIN content[s] :
        content[s][n] \in Row /\ Eased(content[s][n], content[s][n]) /\ OnlyPlans(content[s][n], u)
  BY <1>1, GoodContent, EasedSame, PendingPlans DEF OpenIInv
<1> QED
  BY <1>2 DEF ReadyFor, OpenIInv, ClosingFit

LEMMA ActivateOpen ==
  ASSUME AgreementIInv, OpenIInv, NEW u \in Agreements, Activate(u)
  PROVE  OpenIInv'
<1>1. Confirmed(agreement, u) /\ Awaits(agreement, u)
  BY DEF Activate, IsDue, Confirmed, Awaits
<1>2. TakeEffect(u, content, agreement[u].date) /\ UNCHANGED <<today, member>>
  BY DEF Activate
<1> QED
  BY <1>1, <1>2, CurrentlyReady, TakeEffectOpen

\* Agreements that await, rule or are gone as before.
StandsAs(ag) ==
  \A a \in Agreements :
    /\ Awaits(ag, a) <=> Awaits(agreement, a)
    /\ Rules(ag, a) <=> Rules(agreement, a)
    /\ Gone(ag, a) <=> Gone(agreement, a)
    /\ agreement[a].phase = "ended" => ag[a].phase = "ended"
    /\ ag[a].previous = agreement[a].previous

LEMMA FollowedKept ==
  ASSUME AgreementIInv, Followed, NEW ag, StandsAs(ag)
  PROVE  /\ \A u \in Agreements : Awaits(ag, u) => FollowsOn(ag, member, u)
         /\ InForceAs(ag, member)
         /\ \A s, n : HeldNow(ag, member, s, n) <=> HeldNow(agreement, member, s, n)
<1>1. \A s, n : HeldNow(ag, member, s, n) <=> HeldNow(agreement, member, s, n)
  BY DEF HeldNow, StandsAs
<1>2. InForceAs(ag, member)
  BY DEF InForceAs, StandsAs
<1>3. ASSUME NEW u \in Agreements, Awaits(ag, u)
      PROVE  FollowsOn(ag, member, u)
  <2>1. FollowsOn(agreement, member, u) /\ ag[u].previous = agreement[u].previous
    BY <1>3 DEF Followed, StandsAs
  <2>2. \A c \in Agreements : Rules(ag, c) =>
          /\ ag[u].previous = c
          /\ \A s \in Slots : member[c][s].row > 0 /\ ~member[c][s].removed => member[u][s].row > 0
    BY <2>1 DEF FollowsOn, StandsAs
  <2>3. ASSUME ag[u].previous > 0 PROVE ag[ag[u].previous].phase \in {"current", "ended"}
    <3>1. agreement[u].previous \in Agreements
          /\ agreement[agreement[u].previous].phase \in {"current", "ended"}
      BY <2>1, <2>3, PrecededBy DEF FollowsOn
    <3> QED
      BY <2>1, <3>1 DEF StandsAs, Rules
  <2>4. \A s \in Slots, n \in 1 .. MaxRows, a \in Agreements :
          Has(member, u, s, n) /\ Has(member, a, s, n) /\ (Rules(ag, a) \/ Gone(ag, a)) =>
            HeldNow(ag, member, s, n)
    BY <1>1, <2>1 DEF FollowsOn, StandsAs
  <2> QED
    BY <2>2, <2>3, <2>4 DEF FollowsOn
<1> QED
  BY <1>1, <1>2, <1>3

LEMMA DiscardOpen ==
  ASSUME AgreementIInv, OpenIInv, NEW d \in Agreements, agreement[d].phase = "draft", DiscardDraft(d)
  PROVE  OpenIInv'
<1>1. /\ content' = [s \in Slots |-> [n \in {m \in DOMAIN content[s] : content[s][m].owner # d} |->
                       CancelPlans(content[s][n], d)]]
      /\ member' = [member EXCEPT ![d] = [s \in Slots |-> NoMember]]
      /\ agreement' = [agreement EXCEPT ![d] = NoAgreement]
      /\ UNCHANGED today
  BY DEF DiscardDraft
<1>2. /\ \A a \in Agreements \ {d} : agreement'[a] = agreement[a] /\ member'[a] = member[a]
      /\ agreement'[d].phase = "none"
  BY <1>1 DEF AgreementIInv, AgreementTypeOK, NoAgreement
<1>3. \A s \in Slots : \A n \in DOMAIN content'[s] :
        n \in DOMAIN content[s] /\ content'[s][n] = CancelPlans(content[s][n], d)
  BY <1>1
<1>4. ASSUME NEW s \in Slots, NEW n \in DOMAIN content'[s]
      PROVE  /\ Eased(content[s][n], content'[s][n])
             /\ Plans(content'[s][n]) \subseteq {0}
  <2>1. n \in DOMAIN content[s] /\ content'[s][n] = CancelPlans(content[s][n], d)
    BY <1>3, <1>4
  <2>2. content[s][n] \in Row /\ OnlyPlans(content[s][n], d)
    BY <2>1, GoodContent, DraftPlans DEF OpenIInv
  <2> QED
    BY <2>1, <2>2, UnplanOpen DEF OnlyPlans
<1>5. \A a \in Agreements : ~Awaits(agreement', a)
  BY <1>2, OnlyDraft DEF Awaits
<1>6. PlansFit(agreement', member', content')
  BY <1>4, UnplannedFits DEF Unplanned
<1>7. SpentFit(agreement', member', content', today)
  <2>1. InForceAs(agreement', member')
    BY <1>2 DEF InForceAs, Gone, Rules
  <2>2. SpentRows(content', today)
    BY <1>4, EasedSpent DEF SpentRows, AgreementIInv, AgreementTypeOK
  <2> QED
    BY <2>1, <2>2, SpentKept DEF OpenIInv
<1> QED
  BY <1>1, <1>5, <1>6, <1>7, NonePendingFits DEF OpenIInv, Followed, NonePending

\* With a draft's checks made again, what it leaves behind is being closed.
LEMMA RecheckedReady ==
  ASSUME AgreementIInv, OpenIInv, NEW d \in Agreements, agreement[d].phase = "draft",
         \A x \in LeftBehind(d) : ~HasUndecided(content[x[1]][x[2]]),
         NEW rows, \A s \in Slots : \A n \in DOMAIN content[s] : rows[s][n] = Rechecked(d, s, n)
  PROVE  /\ ReadyFor(d, rows)
         /\ \A s \in Slots : \A n \in DOMAIN content[s] :
              Has(member, d, s, n) => Plans(rows[s][n]) \subseteq {0}
<1>0. today \in Days /\ FollowsOn(agreement, member, d)
  BY DEF AgreementIInv, AgreementTypeOK, OpenIInv, Followed, Awaits
<1>1. ASSUME NEW s \in Slots, NEW n \in DOMAIN content[s]
      PROVE  /\ rows[s][n] \in Row /\ Eased(content[s][n], rows[s][n])
             /\ OnlyPlans(rows[s][n], d)
             /\ Has(member, d, s, n) => Plans(rows[s][n]) \subseteq {0}
  <2>1. content[s][n] \in Row
    BY <1>1, GoodContent
  <2>2. /\ OnlyPlans(content[s][n], d)
        /\ Has(member, d, s, n) => Plans(content[s][n]) \subseteq {0}
    BY <1>1, DraftPlans DEF OpenIInv
  <2>3. CASE <<s, n>> \in LeftBehind(d)
    <3>1. rows[s][n] = PlanApplicable(content[s][n], d)
      BY <1>1, <2>3 DEF Rechecked
    <3>2. ~Has(member, d, s, n)
      BY <2>3, HasMember DEF LeftBehind
    <3>3. PlanApplicable(content[s][n], d) \in Row
      BY <2>1, PlanKeeps DEF Kept, Gentle
    <3> QED
      BY <1>0, <2>1, <2>2, <3>1, <3>2, <3>3, PlanOpen DEF OnlyPlans
  <2>4. CASE <<s, n>> \notin LeftBehind(d)
    <3>1. rows[s][n] = content[s][n]
      BY <1>1, <2>4 DEF Rechecked
    <3> QED
      BY <2>1, <2>2, <3>1, EasedSame
  <2> QED
    BY <2>3, <2>4
<1>2. ASSUME NEW c \in Agreements, Rules(agreement, c), NEW s \in Slots, NEW n \in DOMAIN content[s],
             Has(member, c, s, n), ~Has(member, d, s, n)
      PROVE  Closing(rows[s][n], d, today)
  <2>1. n \in 1 .. MaxRows /\ member[c][s].row = n /\ ~member[c][s].removed /\ n > 0
    BY <1>2, HasRow DEF Has
  <2>2. agreement[d].previous = c /\ member[d][s].row > 0
    BY <1>0, <1>2, <2>1 DEF FollowsOn
  <2>3. PreviousRow(d, s) = n /\ Bound(d, s)
    BY <2>1, <2>2 DEF PreviousRow, Bound, Agreements
  <2>4. InCurrent(s, n) /\ ~Member(d, s, n)
    BY <1>2, HasMember DEF HeldNow
  <2>5. <<s, n>> \in LeftBehind(d)
    BY <2>1, <2>3, <2>4 DEF LeftBehind
  <2>6. ~HasUndecided(content[s][n]) /\ rows[s][n] = PlanApplicable(content[s][n], d)
    BY <1>2, <2>5 DEF Rechecked
  <2>7. content[s][n] \in Row
    BY <1>2, GoodContent
  <2> QED
    BY <1>0, <2>6, <2>7, PlanOpen
<1> QED
  BY <1>1, <1>2 DEF ReadyFor

LEMMA ConfirmOpen ==
  ASSUME AgreementIInv, OpenIInv, NEW d \in Agreements, agreement[d].phase = "draft", ConfirmDraft(d)
  PROVE  OpenIInv'
<1> DEFINE rows == [s \in Slots |-> [n \in DOMAIN content[s] |-> Rechecked(d, s, n)]]
<1>1. /\ UNCHANGED <<today, member, midnight>>
      /\ \A x \in LeftBehind(d) : ~HasUndecided(content[x[1]][x[2]])
      /\ IF agreement[d].date = today
         THEN TakeEffect(d, rows, today)
         ELSE /\ agreement' = [agreement EXCEPT ![d].phase = "upcoming"]
              /\ content' = rows
              /\ UNCHANGED frozen
  BY DEF ConfirmDraft
<1>2. \A s \in Slots : /\ DOMAIN rows[s] = DOMAIN content[s]
                       /\ \A n \in DOMAIN content[s] : rows[s][n] = Rechecked(d, s, n)
  OBVIOUS
<1> HIDE DEF rows
<1>3. /\ ReadyFor(d, rows)
      /\ \A s \in Slots : \A n \in DOMAIN content[s] :
           Has(member, d, s, n) => Plans(rows[s][n]) \subseteq {0}
  BY <1>1, <1>2, RecheckedReady
<1>4. Awaits(agreement, d) /\ today \in Days
  BY DEF Awaits, AgreementIInv, AgreementTypeOK
<1>5. CASE agreement[d].date = today
  BY <1>1, <1>2, <1>3, <1>4, <1>5, TakeEffectOpen
<1>6. CASE agreement[d].date # today
  <2>1. agreement' = [agreement EXCEPT ![d].phase = "upcoming"] /\ content' = rows
        /\ UNCHANGED <<today, member>>
    BY <1>1, <1>6
  <2>2. /\ agreement'[d].phase = "upcoming"
        /\ \A a \in Agreements \ {d} : agreement'[a].phase = agreement[a].phase
        /\ \A a \in Agreements : agreement'[a].previous = agreement[a].previous
    BY <2>1, PhaseSet
  <2>3. StandsAs(agreement')
    BY <2>2 DEF StandsAs, Awaits, Rules, Gone
  <2>4. /\ \A u \in Agreements : Awaits(agreement', u) => FollowsOn(agreement', member, u)
        /\ InForceAs(agreement', member)
    BY <2>3, FollowedKept DEF OpenIInv
  <2>5. \A u \in Agreements : Confirmed(agreement', u) => u = d
    BY <2>2, OnlyDraft DEF Confirmed
  <2>6. PlansFit(agreement', member, rows)
    <3> SUFFICES ASSUME NEW s \in Slots, NEW n \in DOMAIN rows[s], NEW p \in Plans(rows[s][n]), p > 0
                 PROVE  Awaits(agreement', p) /\ ~Has(member, p, s, n)
      BY DEF PlansFit
    <3>1. n \in DOMAIN content[s]
      BY <1>2
    <3>2. p = d
      BY <1>3, <3>1 DEF ReadyFor, OnlyPlans
    <3>3. ~Has(member, d, s, n)
      BY <1>3, <3>1
    <3> QED
      BY <1>4, <2>3, <3>2, <3>3 DEF StandsAs
  <2>7. ClosingFit(agreement', member, rows, today)
    <3> SUFFICES ASSUME NEW u \in Agreements, NEW c \in Agreements,
                        Confirmed(agreement', u), Rules(agreement', c),
                        NEW s \in Slots, NEW n \in DOMAIN rows[s],
                        Has(member, c, s, n), ~Has(member, u, s, n)
                 PROVE  Closing(rows[s][n], u, today)
      BY DEF ClosingFit
    <3>1. u = d /\ Rules(agreement, c) /\ n \in DOMAIN content[s]
      BY <1>2, <2>3, <2>5 DEF StandsAs
    <3> QED
      BY <1>3, <3>1 DEF ReadyFor
  <2>8. SpentRows(rows, today)
    BY <1>3, <1>4, EasedSpent DEF SpentRows, ReadyFor
  <2>9. SpentFit(agreement', member, rows, today)
    BY <2>4, <2>8, SpentKept DEF OpenIInv
  <2> QED
    BY <2>1, <2>4, <2>6, <2>7, <2>9 DEF OpenIInv, Followed
<1> QED
  BY <1>5, <1>6

\* Agreements that stand as they did, and content that is the same.
LEMMA StandsOpen ==
  ASSUME AgreementIInv, OpenIInv, StandsAs(agreement'), UNCHANGED <<today, member, content>>,
         \A u \in Agreements : Confirmed(agreement', u) => Confirmed(agreement, u)
  PROVE  OpenIInv'
<1>1. /\ \A u \in Agreements : Awaits(agreement', u) => FollowsOn(agreement', member, u)
      /\ InForceAs(agreement', member)
  BY FollowedKept DEF OpenIInv
<1>2. PlansFit(agreement', member, content)
  <2> SUFFICES ASSUME NEW s \in Slots, NEW n \in DOMAIN content[s], NEW p \in Plans(content[s][n]), p > 0
               PROVE  Awaits(agreement', p) /\ ~Has(member, p, s, n)
    BY DEF PlansFit
  <2>1. p \in Agreements /\ Awaits(agreement, p) /\ ~Has(member, p, s, n)
    BY PlanRange DEF OpenIInv
  <2> QED
    BY <2>1 DEF StandsAs
<1>3. ClosingFit(agreement', member, content, today)
  BY DEF ClosingFit, OpenIInv, StandsAs
<1>4. SpentRows(content, today)
  BY DEF SpentRows
<1>5. SpentFit(agreement', member, content, today)
  BY <1>1, <1>4, SpentKept DEF OpenIInv
<1> QED
  BY <1>1, <1>2, <1>3, <1>5 DEF OpenIInv, Followed

LEMMA CorrectOpen ==
  ASSUME AgreementIInv, OpenIInv, NEW a \in Pending, NEW date \in Days, CorrectDate(a, date)
  PROVE  OpenIInv'
<1>0. a \in Agreements /\ agreement[a].phase \in {"draft", "upcoming"}
  BY DEF Pending, In
<1>1. /\ UNCHANGED <<today, member, midnight>>
      /\ IF agreement[a].phase = "upcoming" /\ date = today
         THEN TakeEffect(a, content, date)
         ELSE agreement' = [agreement EXCEPT ![a].date = date] /\ UNCHANGED <<frozen, content>>
  BY DEF CorrectDate
<1>2. CASE agreement[a].phase = "upcoming" /\ date = today
  <2> DEFINE rows == content
  <2>1. \A s \in Slots : DOMAIN rows[s] = DOMAIN content[s]
    OBVIOUS
  <2>2. TakeEffect(a, rows, date) /\ UNCHANGED <<today, member>>
    BY <1>1, <1>2
  <2>3. Awaits(agreement, a) /\ ReadyFor(a, rows)
    BY <1>0, <1>2, CurrentlyReady DEF Awaits, Confirmed
  <2> HIDE DEF rows
  <2> QED
    BY <1>0, <2>1, <2>2, <2>3, TakeEffectOpen
<1>3. CASE ~(agreement[a].phase = "upcoming" /\ date = today)
  <2> DEFINE q == [agreement[a] EXCEPT !.date = date]
  <2>1. agreement' = [agreement EXCEPT ![a] = q] /\ UNCHANGED <<today, member, content>>
    BY <1>1, <1>3
  <2>2. agreement \in [Agreements ->
          [phase : {"none", "draft", "upcoming", "current", "replaced", "ended", "cancelled"},
           date : Days, previous : 0 .. MaxAgreements]]
    BY DEF AgreementIInv, AgreementTypeOK
  <2>3. q.phase = agreement[a].phase /\ q.previous = agreement[a].previous
    BY <1>0, <2>2
  <2> HIDE DEF q
  <2>4. \A b \in Agreements : /\ agreement'[b].phase = agreement[b].phase
                              /\ agreement'[b].previous = agreement[b].previous
    BY <1>0, <2>1, <2>2, <2>3
  <2>5. StandsAs(agreement') /\ \A u \in Agreements : Confirmed(agreement', u) => Confirmed(agreement, u)
    BY <2>4 DEF StandsAs, Awaits, Rules, Gone, Confirmed
  <2> QED
    BY <2>1, <2>5, StandsOpen
<1> QED
  BY <1>2, <1>3

LEMMA NextDayOpen ==
  ASSUME AgreementIInv, OpenIInv, NextDay
  PROVE  OpenIInv'
<1>1. today' = today + 1 /\ UNCHANGED <<agreement, member, content>>
  BY DEF NextDay
<1>2. today \in Days /\ today + 1 \in Days
  BY AgreementAssumption DEF NextDay, AgreementIInv, AgreementTypeOK, Days
<1>3. ClosingFit(agreement, member, content, today + 1)
  <2> SUFFICES ASSUME NEW u \in Agreements, NEW c \in Agreements,
                      Confirmed(agreement, u), Rules(agreement, c),
                      NEW s \in Slots, NEW n \in DOMAIN content[s],
                      Has(member, c, s, n), ~Has(member, u, s, n)
               PROVE  Closing(content[s][n], u, today + 1)
    BY DEF ClosingFit
  <2>1. Closing(content[s][n], u, today) /\ content[s][n] \in Row
    BY GoodContent DEF OpenIInv, ClosingFit
  <2> QED
    BY <1>2, <2>1, SpentLater
<1>4. SpentFit(agreement, member, content, today + 1)
  <2> SUFFICES ASSUME NEW a \in Agreements, Gone(agreement, a),
                      NEW s \in Slots, NEW n \in DOMAIN content[s],
                      Has(member, a, s, n), ~HeldNow(agreement, member, s, n)
               PROVE  Spent(content[s][n], today + 1)
    BY DEF SpentFit
  <2>1. Spent(content[s][n], today) /\ content[s][n] \in Row
    BY GoodContent DEF OpenIInv, SpentFit
  <2> QED
    BY <1>2, <2>1, SpentLater
<1> QED
  BY <1>1, <1>3, <1>4 DEF OpenIInv, Followed

LEMMA WithdrawnOpen ==
  ASSUME AgreementIInv, OpenIInv, NEW u \in Agreements, Awaits(agreement, u),
         NEW s \in Slots, NEW n \in DOMAIN content[s]
  PROVE  Eased(content[s][n], Withdrawn(u, s, n)) /\ Plans(Withdrawn(u, s, n)) \subseteq {0}
<1> DEFINE r == content[s][n]
           q == CancelPlans(r, u)
           f == Freed(u, s, n)
           p == Withdrawn(u, s, n)
<1>1. r \in Row /\ OnlyPlans(r, u)
  BY GoodContent, PendingPlans DEF OpenIInv
<1>2. f = q \/ f = CancelUndecided(q)
  BY DEF Freed
<1>3. p = f \/ p = [f EXCEPT !.live = FALSE, !.owner = u]
  BY DEF Withdrawn
<1> HIDE DEF f, p
<1>4. q \in Row /\ Eased(r, q) /\ Plans(q) \subseteq {0}
  BY <1>1, UnplanOpen, UnplanKeeps DEF Kept, Gentle, OnlyPlans
<1> HIDE DEF q, r
<1>5. /\ CancelUndecided(q) \in Row /\ Eased(q, CancelUndecided(q))
      /\ Plans(CancelUndecided(q)) \subseteq {0}
  BY <1>4, CancelOpen, CancelKeeps, SamePlansSet DEF Kept, Gentle
<1>6. f \in Row /\ Eased(r, f) /\ Plans(f) \subseteq {0}
  BY <1>2, <1>4, <1>5, EasedTwice
<1>7. p.cases = f.cases
  BY <1>3, <1>6 DEF Row
<1>8. Eased(f, p) /\ Plans(p) = Plans(f)
  BY <1>7, EasedSame
<1>9. Eased(r, p) /\ Plans(p) \subseteq {0}
  BY <1>6, <1>8, EasedTwice
<1> QED
  BY <1>9 DEF p, r

LEMMA WithdrawOpen ==
  ASSUME AgreementIInv, OpenIInv, NEW u \in In({"upcoming"}), CancelUpcoming(u)
  PROVE  OpenIInv'
<1> DEFINE rows == [s \in Slots |-> [n \in DOMAIN content[s] |-> Withdrawn(u, s, n)]]
           copied == {s \in Slots : Activated = {} /\ Bound(u, s) /\ ~member[u][s].removed}
           copy(s) == NewRow(TRUE, 0, content[s][member[u][s].row].status)
<1>0. u \in Agreements /\ agreement[u].phase = "upcoming" /\ Awaits(agreement, u)
  BY DEF In, Awaits
<1>1. /\ UNCHANGED <<today, member>>
      /\ content' = [s \in Slots |-> IF s \in copied THEN Append(rows[s], copy(s)) ELSE rows[s]]
      /\ agreement' = [agreement EXCEPT ![u].phase = "cancelled"]
  BY DEF CancelUpcoming
<1>2. /\ agreement'[u].phase = "cancelled"
      /\ \A b \in Agreements \ {u} : agreement'[b].phase = agreement[b].phase
  BY <1>0, <1>1, PhaseSet
<1>3. \A b \in Agreements : agreement[b].phase \in {"draft", "upcoming"} => b = u
  BY <1>0 DEF AgreementIInv, Phases, PhasesFit
<1>4. NonePending(agreement') /\ InForceAs(agreement', member)
  BY <1>0, <1>2, <1>3 DEF NonePending, InForceAs, Awaits, Gone, Rules
<1>5. \A s \in Slots : /\ DOMAIN rows[s] = DOMAIN content[s]
                       /\ rows[s] \in Seq(GoodRow)
                       /\ \A n \in DOMAIN content[s] : /\ Eased(content[s][n], rows[s][n])
                                                       /\ Plans(rows[s][n]) \subseteq {0}
  <2> TAKE s \in Slots
  <2> DEFINE new == rows[s]
  <2>1. /\ new = [n \in DOMAIN content[s] |-> new[n]]
        /\ \A n \in DOMAIN content[s] : new[n] = Withdrawn(u, s, n)
    OBVIOUS
  <2> HIDE DEF new
  <2>2. \A n \in DOMAIN content[s] : new[n] \in GoodRow /\ Stands(content[s][n], new[n])
    BY <1>0, <2>1, WithdrawnRow
  <2>3. Extends(content[s], new) /\ DOMAIN new = DOMAIN content[s]
    BY <2>1, <2>2, GoodContent, MapExtends
  <2>4. \A n \in DOMAIN content[s] : Eased(content[s][n], new[n]) /\ Plans(new[n]) \subseteq {0}
    BY <1>0, <2>1, WithdrawnOpen
  <2> QED
    BY <2>3, <2>4 DEF new, Extends
<1>6. \A s : Plans(copy(s)) = {}
  BY NewOpen
<1> HIDE DEF rows, copied, copy
<1>7. \A s \in Slots : \A n \in DOMAIN content'[s] :
        /\ Plans(content'[s][n]) \subseteq {0}
        /\ n \in DOMAIN content[s] => Eased(content[s][n], content'[s][n])
  <2> TAKE s \in Slots
  <2>1. CASE s \in copied
    <3>1. content'[s] = Append(rows[s], copy(s))
      BY <1>1, <2>1
    <3>2. /\ DOMAIN content'[s] = DOMAIN rows[s] \cup {Len(rows[s]) + 1}
          /\ content'[s][Len(rows[s]) + 1] = copy(s) /\ Len(rows[s]) + 1 \notin DOMAIN rows[s]
          /\ \A n \in DOMAIN rows[s] : content'[s][n] = rows[s][n]
      BY <1>5, <3>1, RowAppended
    <3> QED
      BY <1>5, <1>6, <3>2
  <2>2. CASE s \notin copied
    BY <1>1, <1>5, <2>2
  <2> QED
    BY <2>1, <2>2
<1>8. PlansFit(agreement', member, content')
  BY <1>7, UnplannedFits DEF Unplanned
<1>9. SpentFit(agreement', member, content', today)
  <2>1. SpentRows(content', today)
    BY <1>7, EasedSpent DEF SpentRows, AgreementIInv, AgreementTypeOK
  <2> QED
    BY <1>4, <2>1, SpentKept DEF OpenIInv
<1> QED
  BY <1>1, <1>4, <1>8, <1>9, NonePendingFits DEF OpenIInv, Followed

\* What the end of agreement a makes of a row.
LEMMA EndedOpen ==
  ASSUME AgreementIInv, NEW a \in Agreements, NEW s \in Slots, NEW n \in DOMAIN content[s]
  PROVE  /\ Eased(content[s][n], EndedRow(a, s, n))
         /\ Plans(EndedRow(a, s, n)) \subseteq Plans(content[s][n])
         /\ Has(member, a, s, n) => Spent(EndedRow(a, s, n), today)
<1> DEFINE r == content[s][n]
           e == IF Member(a, s, n) THEN EndApplicable(r, "agreement_ended") ELSE r
           q == CancelUndecided(e)
           p == EndedRow(a, s, n)
<1>1. r \in Row /\ today \in Days
  BY GoodContent DEF AgreementIInv, AgreementTypeOK
<1>2. CASE member[a][s].row # n
  <2>1. p = r
    BY <1>2 DEF EndedRow
  <2>2. ~Has(member, a, s, n)
    BY <1>2 DEF Has
  <2> HIDE DEF p
  <2>3. Eased(r, p) /\ Plans(p) \subseteq Plans(r)
    BY <2>1, EasedSame
  <2> QED
    BY <2>2, <2>3 DEF p
<1>3. CASE member[a][s].row = n
  <2>1. p = [q EXCEPT !.live = FALSE]
    BY <1>3 DEF EndedRow
  <2>2. /\ Eased(r, e) /\ SamePlans(r, e) /\ e \in Row
        /\ Member(a, s, n) => Applying(e, today) = {}
    <3>1. CASE Member(a, s, n)
      BY <1>1, <3>1, EndOpen, EndKeeps DEF Kept, Gentle
    <3>2. CASE ~Member(a, s, n)
      BY <1>1, <3>2, EasedSame
    <3> QED
      BY <3>1, <3>2
  <2> HIDE DEF e, p, r
  <2>3. Eased(e, q) /\ SamePlans(e, q) /\ ~HasUndecided(q) /\ q \in Row
    BY <2>2, CancelOpen, CancelKeeps DEF Kept, Gentle
  <2> HIDE DEF q
  <2>4. p.cases = q.cases
    BY <2>1, <2>3 DEF Row
  <2>5. Eased(q, p) /\ Plans(p) = Plans(q)
    BY <2>4, EasedSame
  <2>6. Eased(r, p) /\ Plans(p) \subseteq Plans(r)
    BY <2>2, <2>3, <2>5, EasedTwice, SamePlansSet
  <2>7. ASSUME Has(member, a, s, n) PROVE Spent(p, today)
    <3>1. Applying(e, today) = {}
      BY <2>2, <2>7, HasMember
    <3>2. Spent(q, today)
      BY <1>1, <2>3, <3>1 DEF Spent, Eased
    <3> QED
      BY <1>1, <2>5, <3>2, EasedSpent
  <2> QED
    BY <2>6, <2>7 DEF p, r
<1> QED
  BY <1>2, <1>3

LEMMA EndAgreementOpen ==
  ASSUME AgreementIInv, OpenIInv, NEW a \in Current, EndAgreement(a)
  PROVE  OpenIInv'
<1>0. a \in Agreements /\ agreement[a].phase = "current" /\ today \in Days
  BY DEF Current, In, AgreementIInv, AgreementTypeOK
<1>1. /\ Pending = {} /\ UNCHANGED <<today, member>>
      /\ content' = [s \in Slots |-> [n \in DOMAIN content[s] |-> EndedRow(a, s, n)]]
      /\ agreement' = [agreement EXCEPT ![a].phase = "ended"]
  BY DEF EndAgreement
<1>2. /\ agreement'[a].phase = "ended"
      /\ \A b \in Agreements \ {a} : agreement'[b].phase = agreement[b].phase
  BY <1>0, <1>1, PhaseSet
<1>3. NonePending(agreement)
  BY <1>1 DEF NonePending, Awaits, Pending, In
<1>4. NonePending(agreement')
  BY <1>2, <1>3 DEF NonePending, Awaits
<1>5. \A b \in Agreements : /\ Rules(agreement, b) => b = a
                            /\ Gone(agreement', b) => b = a \/ Gone(agreement, b)
  BY <1>0, <1>2 DEF Rules, Gone, AgreementIInv, Phases, PhasesFit
<1>6. \A s \in Slots : /\ DOMAIN content'[s] = DOMAIN content[s]
                       /\ \A n \in DOMAIN content[s] : content'[s][n] = EndedRow(a, s, n)
  BY <1>1
<1>7. ASSUME NEW s \in Slots, NEW n \in DOMAIN content[s]
      PROVE  /\ Eased(content[s][n], content'[s][n])
             /\ Plans(content'[s][n]) \subseteq Plans(content[s][n])
             /\ Has(member, a, s, n) => Spent(content'[s][n], today)
  <2>1. content'[s][n] = EndedRow(a, s, n)
    BY <1>6, <1>7
  <2> QED
    BY <1>0, <1>7, <2>1, EndedOpen
<1>8. PlansFit(agreement', member, content')
  <2>1. Unplanned(content')
    BY <1>3, <1>6, <1>7, NonePlanned DEF OpenIInv, Unplanned
  <2> QED
    BY <2>1, UnplannedFits
<1>9. SpentFit(agreement', member, content', today)
  <2> SUFFICES ASSUME NEW b \in Agreements, Gone(agreement', b),
                      NEW s \in Slots, NEW n \in DOMAIN content'[s], Has(member, b, s, n)
               PROVE  Spent(content'[s][n], today)
    BY DEF SpentFit
  <2>1. n \in DOMAIN content[s]
    BY <1>6
  <2>2. CASE Has(member, a, s, n)
    BY <1>7, <2>1, <2>2
  <2>3. CASE ~Has(member, a, s, n)
    <3>1. Gone(agreement, b) /\ ~HeldNow(agreement, member, s, n)
      BY <1>5, <2>3 DEF HeldNow
    <3>2. Spent(content[s][n], today)
      BY <2>1, <3>1 DEF OpenIInv, SpentFit
    <3> QED
      BY <1>0, <1>7, <2>1, <3>2, EasedSpent
  <2> QED
    BY <2>2, <2>3
<1> QED
  BY <1>1, <1>4, <1>8, <1>9, NonePendingFits DEF OpenIInv, Followed

LEMMA OpenInit ==
  ASSUME AgreementInit PROVE OpenIInv
<1>1. \A s \in Slots : DOMAIN content[s] = {}
  BY DEF AgreementInit
<1>2. \A a \in Agreements : ~Awaits(agreement, a) /\ ~Confirmed(agreement, a) /\ ~Gone(agreement, a)
  BY DEF AgreementInit, NoAgreement, Awaits, Confirmed, Gone
<1> QED
  BY <1>1, <1>2 DEF OpenIInv, PlansFit, Followed, ClosingFit, SpentFit

LEMMA OpenStep ==
  ASSUME AgreementIInv, OpenIInv, AgreementNext
  PROVE  OpenIInv'
<1>1. CASE NextDay
  BY <1>1, NextDayOpen
<1>2. ASSUME NEW u \in Agreements, Activate(u)
      PROVE  OpenIInv'
  BY <1>2, ActivateOpen
<1>3. ASSUME NEW s \in Slots, NEW n \in DOMAIN content[s], OnRow(s, n)
      PROVE  OpenIInv'
  BY <1>3, RowOpen
<1>4. ASSUME NEW s \in Slots, OnWorkingSet(s)
      PROVE  OpenIInv'
  BY <1>4, WorkingSetOpen
<1>5. ASSUME OnAgreements
      PROVE  OpenIInv'
  <2>1. ASSUME NEW date \in Days, RegisterFirst(date) \/ CreateDraft(date)
        PROVE  OpenIInv'
    BY <2>1, RegisterFirstOpen, CreateDraftOpen
  <2>2. ASSUME NEW d \in In({"draft"}), NEW s \in Slots,
               AddToDraft(d, s) \/ ChangeInDraft(d, s) \/ RemoveFromDraft(d, s) \/ UndoInDraft(d, s)
        PROVE  OpenIInv'
    <3>1. d \in Agreements /\ agreement[d].phase = "draft"
      BY DEF In
    <3> QED
      BY <2>2, <3>1, AddOpen, ChangeOpen, RemoveOpen, UndoOpen
  <2>3. ASSUME NEW d \in In({"draft"}), DiscardDraft(d) \/ ConfirmDraft(d)
        PROVE  OpenIInv'
    <3>1. d \in Agreements /\ agreement[d].phase = "draft"
      BY DEF In
    <3> QED
      BY <2>3, <3>1, DiscardOpen, ConfirmOpen
  <2>4. ASSUME NEW a \in Pending, NEW date \in Days, CorrectDate(a, date)
        PROVE  OpenIInv'
    BY <2>4, CorrectOpen
  <2>5. ASSUME NEW u \in In({"upcoming"}), CancelUpcoming(u)
        PROVE  OpenIInv'
    BY <2>5, WithdrawOpen
  <2>6. ASSUME NEW a \in Current, EndAgreement(a)
        PROVE  OpenIInv'
    BY <2>6, EndAgreementOpen
  <2> QED
    BY <1>5, <2>1, <2>2, <2>3, <2>4, <2>5, <2>6 DEF OnAgreements
<1>6. ASSUME NEW s \in Slots, NEW n \in DOMAIN content[s], NEW status \in Statuses, FollowUp(s, n, status)
      PROVE  OnRow(s, n)
  BY <1>6 DEF OnRow
<1>7. ASSUME Settled, NEW s \in Slots, OnContent(s)
      PROVE  OnWorkingSet(s) \/ \E n \in DOMAIN content[s] : OnRow(s, n)
  BY <1>7 DEF OnContent, OnRow, OnWorkingSet
<1> QED
  BY <1>1, <1>2, <1>3, <1>4, <1>5, <1>6, <1>7 DEF AgreementNext

\* Plans are for what is to come and follows on the current agreement, what a
\* confirmed agreement leaves behind is being closed, and what was left behind
\* is closed.
THEOREM OpenInvariance == AgreementSpec => []OpenIInv
<1>1. AgreementInit => OpenIInv
  BY OpenInit
<1>2. AgreementIInv /\ OpenIInv /\ [AgreementNext]_agreementVars => OpenIInv'
  <2> SUFFICES ASSUME OpenIInv, UNCHANGED agreementVars PROVE OpenIInv'
    BY OpenStep
  <2>1. UNCHANGED <<today, agreement, member, content>>
    BY DEF agreementVars
  <2> QED
    BY <2>1 DEF OpenIInv, Followed
<1> QED
  BY <1>1, <1>2, AgreementInvariance, PTL DEF AgreementSpec

LEMMA NothingLeftOpenFollows ==
  ASSUME AgreementIInv, OpenIInv PROVE NothingLeftOpen
<1>1. ASSUME NEW a \in Agreements, NEW x \in Slots \X (1 .. MaxRows)
      PROVE  /\ x \in MembersOf(a) <=> Has(member, a, x[1], x[2])
             /\ x \in MembersOf(a) => /\ x[1] \in Slots /\ x[2] \in DOMAIN content[x[1]]
                                      /\ content[x[1]][x[2]] \in Row
  <2>1. x[1] \in Slots /\ (x \in MembersOf(a) <=> Has(member, a, x[1], x[2]))
    BY <1>1, HasMember DEF MembersOf
  <2>2. ASSUME Has(member, a, x[1], x[2])
        PROVE  x[2] \in DOMAIN content[x[1]] /\ content[x[1]][x[2]] \in Row
    <3>1. x[2] \in DOMAIN content[x[1]]
      BY <1>1, <2>1, <2>2, HasRow
    <3> QED
      BY <2>1, <3>1, GoodContent
  <2> QED
    BY <2>1, <2>2
<1>2. \A a : MembersOf(a) \subseteq Slots \X (1 .. MaxRows)
  BY DEF MembersOf
<1>3. ASSUME NEW u \in In({"upcoming"}), NEW a \in Current, NEW x \in MembersOf(a) \ MembersOf(u)
      PROVE  LET row == content[x[1]][x[2]] IN
             /\ ~HasUndecided(row)
             /\ \A k \in Approvals(row) : Applicable(row, k) => row.cases[k].plan = u
  <2> DEFINE row == content[x[1]][x[2]]
  <2>1. /\ u \in Agreements /\ a \in Agreements
        /\ Confirmed(agreement, u) /\ Rules(agreement, a)
    BY DEF In, Current, Confirmed, Rules
  <2>2. /\ x[1] \in Slots /\ x[2] \in DOMAIN content[x[1]] /\ row \in Row
        /\ Has(member, a, x[1], x[2]) /\ ~Has(member, u, x[1], x[2])
    BY <1>1, <1>2, <2>1
  <2>3. Closing(row, u, today)
    BY <2>1, <2>2 DEF OpenIInv, ClosingFit
  <2> HIDE DEF row
  <2>4. \A k \in Approvals(row) : Applicable(row, k) => k \in Applying(row, today)
    BY <2>2, ApplyingToday DEF Approvals
  <2>5. ~HasUndecided(row) /\ \A k \in Approvals(row) : Applicable(row, k) => row.cases[k].plan = u
    BY <2>3, <2>4 DEF Closing
  <2> QED
    BY <2>5 DEF row
<1>4. ASSUME NEW u \in In({"upcoming"}), NEW x \in MembersOf(u),
             NEW k \in DOMAIN content[x[1]][x[2]].cases, content[x[1]][x[2]].cases[k].plan = u
      PROVE  FALSE
  <2>1. u \in Agreements /\ u > 0
    BY DEF In, Agreements
  <2>2. x[1] \in Slots /\ x[2] \in DOMAIN content[x[1]] /\ Has(member, u, x[1], x[2])
    BY <1>1, <1>2, <2>1
  <2>3. u \in Plans(content[x[1]][x[2]])
    BY <1>4 DEF Plans
  <2> QED
    BY <2>1, <2>2, <2>3 DEF OpenIInv, PlansFit
<1>5. ASSUME NEW a \in In({"replaced", "ended"}), NEW x \in MembersOf(a), ~InCurrent(x[1], x[2])
      PROVE  ~HasUndecided(content[x[1]][x[2]]) /\ ~HasPermission(content[x[1]][x[2]])
  <2> DEFINE row == content[x[1]][x[2]]
  <2>1. a \in Agreements /\ Gone(agreement, a)
    BY DEF In, Gone
  <2>2. /\ x[1] \in Slots /\ x[2] \in DOMAIN content[x[1]] /\ row \in Row
        /\ Has(member, a, x[1], x[2]) /\ ~HeldNow(agreement, member, x[1], x[2])
    BY <1>1, <1>2, <1>5, <2>1, HasMember
  <2>3. Spent(row, today)
    BY <2>1, <2>2 DEF OpenIInv, SpentFit
  <2> HIDE DEF row
  <2>4. \A k \in Approvals(row) : Applicable(row, k) => k \in Applying(row, today)
    BY <2>2, ApplyingToday DEF Approvals
  <2>5. ~HasUndecided(row) /\ ~HasPermission(row)
    BY <2>3, <2>4 DEF Spent, HasPermission
  <2> QED
    BY <2>5 DEF row
<1>6. \A u \in In({"upcoming"}) : \A a \in Current : \A x \in MembersOf(a) \ MembersOf(u) :
        LET row == content[x[1]][x[2]] IN
        /\ ~HasUndecided(row)
        /\ \A k \in Approvals(row) : Applicable(row, k) => row.cases[k].plan = u
  BY <1>3
<1>7. \A u \in In({"upcoming"}) : \A x \in MembersOf(u) :
        \A k \in DOMAIN content[x[1]][x[2]].cases : content[x[1]][x[2]].cases[k].plan # u
  BY <1>4
<1>8. \A a \in In({"replaced", "ended"}) : \A x \in MembersOf(a) :
        ~InCurrent(x[1], x[2]) =>
          ~HasUndecided(content[x[1]][x[2]]) /\ ~HasPermission(content[x[1]][x[2]])
  BY <1>5
<1> QED
  BY <1>6, <1>7, <1>8 DEF NothingLeftOpen

\* Once an agreement is confirmed, what it leaves behind has no undecided
\* deviation and every approval that still applies there is planned to end with
\* it, and none of what it keeps is; content that an agreement had and the
\* current one has not gives no permission and has nothing to decide.
THEOREM NothingIsLeftOpen == AgreementSpec => []NothingLeftOpen
<1>1. AgreementIInv /\ OpenIInv => NothingLeftOpen
  BY NothingLeftOpenFollows
<1> QED
  BY <1>1, AgreementInvariance, OpenInvariance, PTL

-----------------------------------------------------------------------------
(***************************************************************************)
(* The content in force is the agreed one.  What a reader sees is written  *)
(* as a function of the state, so that it can be told for both states of a *)
(* step.                                                                   *)
(***************************************************************************)
DueOf(ag, now) == {u \in Agreements : ag[u].phase = "upcoming" /\ ag[u].date <= now}
LaterOf(ag, now) == {u \in Agreements : ag[u].phase = "upcoming" /\ ~(ag[u].date <= now)}
MembersIn(mem, a) ==
  {x \in Slots \X (1 .. MaxRows) : mem[a][x[1]] = [row |-> x[2], removed |-> FALSE]}
LiveIn(con) ==
  {x \in Slots \X (1 .. MaxRows) : x[2] \in DOMAIN con[x[1]] /\ con[x[1]][x[2]].live}

ForceOf(ag, mem, con, now) ==
  IF DueOf(ag, now) # {} THEN MembersIn(mem, CHOOSE u \in DueOf(ag, now) : TRUE) ELSE LiveIn(con)
Coming(ag, mem, u) == [date |-> ag[u].date, set |-> MembersIn(mem, u)]
PlanOf(ag, mem, now) == {Coming(ag, mem, u) : u \in LaterOf(ag, now)}
TookEffect(ag) == \E a \in Agreements : ag[a].phase \in {"current", "replaced", "ended"}
BoundOf(ag, now) == TookEffect(ag) \/ DueOf(ag, now) # {}

InForce == IF Due # {} THEN MembersOf(CHOOSE u \in Due : TRUE) ELSE LiveRows
Plan == {[date |-> agreement[u].date, set |-> MembersOf(u)] : u \in NotYetDue}
IsBound == Activated \cup Due # {}

SeenAs ==
  /\ InForce = ForceOf(agreement, member, content, today)
  /\ Plan = PlanOf(agreement, member, today)
  /\ IsBound = BoundOf(agreement, today)

LEMMA Seen == SeenAs
<1>1. Due = DueOf(agreement, today)
  BY DEF Due, IsDue, DueOf
<1>2. NotYetDue = LaterOf(agreement, today)
  BY DEF NotYetDue, Due, IsDue, In, LaterOf
<1>3. \A a \in Agreements : MembersOf(a) = MembersIn(member, a)
  BY DEF MembersOf, Member, MembersIn
<1>4. LiveRows = LiveIn(content)
  BY DEF LiveRows, Rows, Live, LiveIn
<1>5. \A u \in LaterOf(agreement, today) :
        Coming(agreement, member, u) = [date |-> agreement[u].date, set |-> MembersOf(u)]
  BY <1>3 DEF LaterOf, Coming
<1>6. Due # {} => (CHOOSE u \in Due : TRUE) \in Agreements
  BY DEF Due
<1>7. InForce = ForceOf(agreement, member, content, today)
  BY <1>1, <1>3, <1>4, <1>6 DEF InForce, ForceOf
<1>8. Plan = PlanOf(agreement, member, today)
  BY <1>2, <1>5 DEF Plan, PlanOf
<1>9. IsBound <=> BoundOf(agreement, today)
  BY <1>1 DEF IsBound, BoundOf, TookEffect, Activated, In
<1>10. IsBound = BoundOf(agreement, today)
  BY <1>9 DEF IsBound, BoundOf, TookEffect
<1> QED
  BY <1>7, <1>8, <1>10 DEF SeenAs

LEMMA SeenAfter == SeenAs'
  BY Seen, PTL

\* What the invariant says of it.
Standing(ag, mem, con) ==
  /\ \A a \in Agreements : Reigns(ag, a) => LiveIn(con) = MembersIn(mem, a)
  /\ (\E a \in Agreements : ag[a].phase = "ended") /\ (\A a \in Agreements : ag[a].phase # "current")
       => LiveIn(con) = {}
  /\ \A a, b \in Agreements : {ag[a].phase, ag[b].phase} \subseteq {"draft", "upcoming"} => a = b
  /\ LiveIn(con) \in SUBSET (Slots \X (1 .. MaxRows))
  /\ \A a \in Agreements : MembersIn(mem, a) \in SUBSET (Slots \X (1 .. MaxRows))
  /\ \A a \in Agreements : ag[a].date \in Days

Stands0 == Standing(agreement, member, content) /\ today \in Days

LEMMA StandsWell == AgreementIInv => Stands0
<1> SUFFICES ASSUME AgreementIInv PROVE Stands0
  OBVIOUS
<1>1. OneContent
  BY OneContentFollows
<1>2. ASSUME NEW a \in Agreements, Reigns(agreement, a)
      PROVE  LiveIn(content) = MembersIn(member, a)
  <2>1. LiveRows = MembersOf(a)
    BY <1>1, <1>2 DEF OneContent, Reigns, Current, Activated, In
  <2> QED
    BY <2>1 DEF LiveRows, Rows, Live, LiveIn, MembersOf, Member, MembersIn
<1>3. ASSUME \E a \in Agreements : agreement[a].phase = "ended",
             \A a \in Agreements : agreement[a].phase # "current"
      PROVE  LiveIn(content) = {}
  <2>1. LiveRows = {}
    BY <1>1, <1>3 DEF OneContent, Current, In
  <2> QED
    BY <2>1 DEF LiveRows, Rows, Live, LiveIn
<1>4. \A a, b \in Agreements :
        {agreement[a].phase, agreement[b].phase} \subseteq {"draft", "upcoming"} => a = b
  BY DEF AgreementIInv, Phases, PhasesFit
<1>5. LiveIn(content) \in SUBSET (Slots \X (1 .. MaxRows))
      /\ \A a \in Agreements : MembersIn(member, a) \in SUBSET (Slots \X (1 .. MaxRows))
  BY DEF LiveIn, MembersIn
<1>6. today \in Days /\ \A a \in Agreements : agreement[a].date \in Days
  BY DEF AgreementIInv, AgreementTypeOK
<1> QED
  BY <1>2, <1>3, <1>4, <1>5, <1>6 DEF Standing, Stands0

\* The steps of AgreedContent, in these terms.
Unseen == UNCHANGED <<today, InForce, Plan, IsBound>>
SeenStep == Agreed!Next \/ Unseen

LEMMA UnseenBy ==
  ASSUME today' = today,
         ForceOf(agreement', member', content', today') = ForceOf(agreement, member, content, today),
         PlanOf(agreement', member', today') = PlanOf(agreement, member, today),
         BoundOf(agreement', today') = BoundOf(agreement, today)
  PROVE  Unseen
<1>1. /\ InForce' = ForceOf(agreement', member', content', today')
      /\ Plan' = PlanOf(agreement', member', today')
      /\ IsBound' = BoundOf(agreement', today')
  BY SeenAfter DEF SeenAs
<1>2. /\ InForce = ForceOf(agreement, member, content, today)
      /\ Plan = PlanOf(agreement, member, today)
      /\ IsBound = BoundOf(agreement, today)
  BY Seen DEF SeenAs
<1> QED
  BY <1>1, <1>2 DEF Unseen

Contents0 == Slots \X (1 .. MaxRows)

LEMMA EditSeen ==
  ASSUME today' = today, IsBound = FALSE, IsBound' = FALSE, Plan = {}, Plan' = {},
         InForce' \in SUBSET Contents0
  PROVE  Agreed!Next
<1>1. Agreed!Edit
  BY DEF Agreed!Edit, InForce, Plan, IsBound, Contents0
<1> QED
  BY <1>1 DEF Agreed!Next

LEMMA AgreeNowSeen ==
  ASSUME today' = today, Plan = {}, Plan' = {}, IsBound' = TRUE,
         InForce' \in SUBSET Contents0, InForce' = InForce \/ IsBound = TRUE
  PROVE  Agreed!Next
<1>1. Agreed!AgreeNow
  BY DEF Agreed!AgreeNow, InForce, Plan, IsBound, Contents0
<1> QED
  BY <1>1 DEF Agreed!Next

LEMMA AgreeLaterSeen ==
  ASSUME today' = today, Plan = {}, NEW date \in today + 1 .. MaxDay,
         NEW set \in SUBSET Contents0, set = InForce \/ IsBound = TRUE,
         Plan' = {[date |-> date, set |-> set]}, InForce' = InForce, IsBound' = IsBound
  PROVE  Agreed!Next
<1>1. Agreed!AgreeLater
  BY DEF Agreed!AgreeLater, InForce, Plan, IsBound, Contents0
<1> QED
  BY <1>1 DEF Agreed!Next

LEMMA RescheduleSeen ==
  ASSUME today' = today, NEW old, NEW date \in today + 1 .. MaxDay, NEW set,
         Plan = {[date |-> old, set |-> set]}, Plan' = {[date |-> date, set |-> set]},
         InForce' = InForce, IsBound' = IsBound
  PROVE  Agreed!Next
<1>1. [[date |-> old, set |-> set] EXCEPT !.date = date] = [date |-> date, set |-> set]
  OBVIOUS
<1>2. Agreed!Reschedule
  BY <1>1 DEF Agreed!Reschedule, InForce, Plan, IsBound
<1> QED
  BY <1>2 DEF Agreed!Next

LEMMA BroughtForwardSeen ==
  ASSUME today' = today, NEW p, Plan = {p}, Plan' = {}, InForce' = p.set, IsBound' = TRUE
  PROVE  Agreed!Next
<1>1. Agreed!Reschedule
  BY DEF Agreed!Reschedule, InForce, Plan, IsBound
<1> QED
  BY <1>1 DEF Agreed!Next

LEMMA WithdrawSeen ==
  ASSUME today' = today, Plan # {}, Plan' = {}, IsBound' = IsBound,
         InForce' \in SUBSET Contents0, InForce' = InForce \/ IsBound = FALSE
  PROVE  Agreed!Next
<1>1. Agreed!Withdraw
  BY DEF Agreed!Withdraw, InForce, Plan, IsBound, Contents0
<1> QED
  BY <1>1 DEF Agreed!Next

LEMMA EndSeen ==
  ASSUME today' = today, IsBound = TRUE, IsBound' = TRUE, Plan = {}, Plan' = {}, InForce' = {}
  PROVE  Agreed!Next
<1>1. Agreed!EndAgreed
  BY DEF Agreed!EndAgreed, InForce, Plan, IsBound
<1> QED
  BY <1>1 DEF Agreed!Next

LEMMA MidnightSeen ==
  ASSUME today < MaxDay, today' = today + 1,
         \/ \E p \in Plan : p.date = today + 1 /\ InForce' = p.set /\ Plan' = {} /\ IsBound' = TRUE
         \/ /\ \A p \in Plan : p.date > today + 1
            /\ InForce' = InForce /\ Plan' = Plan /\ IsBound' = IsBound
  PROVE  Agreed!Next
<1>1. Agreed!Midnight
  BY DEF Agreed!Midnight, InForce, Plan, IsBound
<1> QED
  BY <1>1 DEF Agreed!Next

\* What is seen when nothing is due, and of the agreements that are to come.
LEMMA NoneDue ==
  ASSUME NEW ag, NEW mem, NEW con, NEW now, DueOf(ag, now) = {}
  PROVE  ForceOf(ag, mem, con, now) = LiveIn(con) /\ BoundOf(ag, now) = TookEffect(ag)
<1>1. BoundOf(ag, now) <=> TookEffect(ag)
  BY DEF BoundOf
<1>2. BoundOf(ag, now) = TookEffect(ag)
  BY <1>1 DEF BoundOf, TookEffect
<1> QED
  BY <1>2 DEF ForceOf

LEMMA NothingToCome ==
  ASSUME NEW ag, NEW mem, NEW now, \A a \in Agreements : ag[a].phase # "upcoming"
  PROVE  DueOf(ag, now) = {} /\ PlanOf(ag, mem, now) = {}
<1>1. DueOf(ag, now) = {} /\ LaterOf(ag, now) = {}
  BY DEF DueOf, LaterOf
<1> QED
  BY <1>1 DEF PlanOf

OnlyUpcoming(ag, u) ==
  /\ u \in Agreements /\ ag[u].phase = "upcoming"
  /\ \A a \in Agreements : ag[a].phase = "upcoming" => a = u

ToCome(ag, now, u) == OnlyUpcoming(ag, u) /\ ~(ag[u].date <= now)
NowDue(ag, now, u) == OnlyUpcoming(ag, u) /\ ag[u].date <= now

LEMMA OneToCome ==
  ASSUME NEW ag, NEW mem, NEW now, NEW u, ToCome(ag, now, u)
  PROVE  /\ DueOf(ag, now) = {}
         /\ PlanOf(ag, mem, now) = {Coming(ag, mem, u)}
<1>1. DueOf(ag, now) = {} /\ LaterOf(ag, now) = {u}
  BY DEF DueOf, LaterOf, ToCome, OnlyUpcoming
<1> QED
  BY <1>1 DEF PlanOf

LEMMA OneDue ==
  ASSUME NEW ag, NEW mem, NEW con, NEW now, NEW u, NowDue(ag, now, u)
  PROVE  /\ ForceOf(ag, mem, con, now) = MembersIn(mem, u)
         /\ PlanOf(ag, mem, now) = {} /\ BoundOf(ag, now) = TRUE
<1>1. DueOf(ag, now) = {u} /\ LaterOf(ag, now) = {}
  BY DEF DueOf, LaterOf, NowDue, OnlyUpcoming
<1>2. (CHOOSE v \in {u} : TRUE) = u
  OBVIOUS
<1>3. ForceOf(ag, mem, con, now) = MembersIn(mem, u)
  BY <1>1, <1>2 DEF ForceOf
<1>4. BoundOf(ag, now) = TRUE
  BY <1>1 DEF BoundOf, TookEffect
<1> QED
  BY <1>1, <1>3, <1>4 DEF PlanOf

\* Rows change that nobody reads here.
LEMMA QuietUnseen ==
  ASSUME \A s \in Slots : Quiet(content[s], content'[s]), UNCHANGED <<today, agreement, member>>
  PROVE  Unseen
<1>1. \A s \in Slots : DOMAIN content'[s] = DOMAIN content[s] /\
        \A n \in DOMAIN content[s] : content'[s][n].live = content[s][n].live
  BY DEF Quiet, SameLives
<1>2. LiveIn(content') = LiveIn(content)
  BY <1>1 DEF LiveIn
<1>3. ForceOf(agreement', member', content', today') = ForceOf(agreement, member, content, today)
  BY <1>2 DEF ForceOf
<1> QED
  BY <1>3, UnseenBy

\* Work on a draft: the agreement in force is the one before it.
LEMMA DraftUnseen ==
  ASSUME AgreementIInv, AgreementIInv', today' = today,
         \A a \in Agreements :
           \/ {agreement[a].phase, agreement'[a].phase} \subseteq {"none", "draft"}
           \/ agreement'[a].phase = agreement[a].phase /\ member'[a] = member[a],
         \A a \in Agreements : agreement[a].phase # "upcoming",
         \E a \in Agreements : agreement[a].phase \in {"current", "ended"}
  PROVE  Unseen
<1>1. Stands0 /\ Stands0'
  BY StandsWell, PTL
<1>2. \A a \in Agreements : /\ agreement'[a].phase # "upcoming"
                            /\ agreement[a].phase \in {"current", "replaced", "ended"} <=>
                               agreement'[a].phase \in {"current", "replaced", "ended"}
                            /\ agreement[a].phase = "current" <=> agreement'[a].phase = "current"
                            /\ agreement[a].phase = "ended" <=> agreement'[a].phase = "ended"
  OBVIOUS
<1>3. TookEffect(agreement') = TookEffect(agreement)
  BY <1>2 DEF TookEffect
<1>4. LiveIn(content') = LiveIn(content)
  <2>1. CASE \E a \in Agreements : agreement[a].phase = "current"
    <3>1. PICK a \in Agreements : agreement[a].phase = "current"
      BY <2>1
    <3>2. Reigns(agreement, a) /\ Reigns(agreement', a) /\ member'[a] = member[a]
      BY <1>2, <3>1 DEF Reigns
    <3>3. MembersIn(member', a) = MembersIn(member, a)
      BY <3>2 DEF MembersIn
    <3> QED
      BY <1>1, <3>2, <3>3 DEF Stands0, Standing
  <2>2. CASE \A a \in Agreements : agreement[a].phase # "current"
    BY <1>1, <1>2, <2>2 DEF Stands0, Standing
  <2> QED
    BY <2>1, <2>2
<1>5. /\ DueOf(agreement, today) = {} /\ PlanOf(agreement, member, today) = {}
      /\ DueOf(agreement', today') = {} /\ PlanOf(agreement', member', today') = {}
  BY <1>2, NothingToCome
<1> QED
  BY <1>3, <1>4, <1>5, NoneDue, UnseenBy

\* Agreement u has taken effect.
LEMMA EffectSeen ==
  ASSUME AgreementIInv, AgreementIInv', NEW u \in Agreements,
         agreement[u].phase \in {"draft", "upcoming"}, NEW date, NEW rows,
         TakeEffect(u, rows, date), UNCHANGED <<today, member>>
  PROVE  /\ InForce' = MembersIn(member, u) /\ Plan' = {} /\ IsBound' = TRUE
         /\ InForce' \in SUBSET Contents0
<1>1. Stands0 /\ Stands0'
  BY StandsWell, PTL
<1>2. /\ agreement' = [a \in Agreements |->
           IF a = u THEN [agreement[u] EXCEPT !.phase = "current", !.date = date]
           ELSE IF a \in Current THEN [agreement[a] EXCEPT !.phase = "replaced"]
           ELSE agreement[a]]
      /\ agreement \in [Agreements ->
           [phase : {"none", "draft", "upcoming", "current", "replaced", "ended", "cancelled"},
            date : Days, previous : 0 .. MaxAgreements]]
  BY DEF TakeEffect, AgreementIInv, AgreementTypeOK
<1>3. \A a \in Agreements : agreement[a].phase = "upcoming" => a = u
  BY <1>1 DEF Stands0, Standing
<1>4. agreement'[u].phase = "current"
  BY <1>2
<1>5. ASSUME NEW a \in Agreements, a # u PROVE agreement'[a].phase # "upcoming"
  <2>1. CASE a \in Current
    BY <1>2, <1>5, <2>1
  <2>2. CASE a \notin Current
    BY <1>2, <1>3, <1>5, <2>2
  <2> QED
    BY <2>1, <2>2
<1>6. DueOf(agreement', today') = {} /\ PlanOf(agreement', member', today') = {}
  BY <1>4, <1>5, NothingToCome
<1>7. TookEffect(agreement') = TRUE
  BY <1>4 DEF TookEffect
<1>8. Reigns(agreement', u)
  BY <1>4 DEF Reigns
<1>9. LiveIn(content') = MembersIn(member, u)
  BY <1>1, <1>8 DEF Stands0, Standing
<1>10. MembersIn(member, u) \in SUBSET Contents0
  BY <1>1 DEF Stands0, Standing, Contents0
<1> QED
  BY <1>6, <1>7, <1>9, <1>10, NoneDue, SeenAfter DEF SeenAs

LEMMA WorkingSetSeen ==
  ASSUME AgreementIInv, AgreementIInv', Uncancelled = {}, UNCHANGED <<today, agreement, member>>
  PROVE  Agreed!Next
<1>1. Stands0 /\ Stands0'
  BY StandsWell, PTL
<1>2. \A a \in Agreements : agreement[a].phase \in {"none", "cancelled"}
  BY DEF AgreementIInv, AgreementTypeOK, Uncancelled, In
<1>3. /\ DueOf(agreement, today) = {} /\ PlanOf(agreement, member, today) = {}
      /\ DueOf(agreement', today') = {} /\ PlanOf(agreement', member', today') = {}
  BY <1>2, NothingToCome
<1>4. TookEffect(agreement) = FALSE /\ TookEffect(agreement') = FALSE
  BY <1>2 DEF TookEffect
<1>5. /\ IsBound = FALSE /\ IsBound' = FALSE /\ Plan = {} /\ Plan' = {}
      /\ InForce' = LiveIn(content')
  BY <1>3, <1>4, NoneDue, Seen, SeenAfter DEF SeenAs
<1>6. InForce' \in SUBSET Contents0
  BY <1>1, <1>5 DEF Stands0, Standing, Contents0
<1> QED
  BY <1>5, <1>6, EditSeen

LEMMA RegisterFirstSeen ==
  ASSUME AgreementIInv, AgreementIInv', Settled, NEW date \in Days, RegisterFirst(date)
  PROVE  Agreed!Next
<1> DEFINE a == NextAgreement
<1>1. /\ Uncancelled = {} /\ a \in Agreements /\ UNCHANGED <<today, content>>
      /\ agreement' = [agreement EXCEPT ![a] =
           [phase |-> IF date > today THEN "upcoming" ELSE "current", date |-> date, previous |-> 0]]
  BY NextIsFree DEF RegisterFirst
<1> HIDE DEF a
<1>2. Stands0 /\ Stands0'
  BY StandsWell, PTL
<1>3. \A b \in Agreements : agreement[b].phase \in {"none", "cancelled"}
  BY <1>1 DEF AgreementIInv, AgreementTypeOK, Uncancelled, In
<1>4. /\ agreement'[a].phase = IF date > today THEN "upcoming" ELSE "current"
      /\ agreement'[a].date = date
      /\ \A b \in Agreements \ {a} : agreement'[b] = agreement[b]
  BY <1>1 DEF AgreementIInv, AgreementTypeOK
<1>5. /\ DueOf(agreement, today) = {} /\ PlanOf(agreement, member, today) = {}
      /\ TookEffect(agreement) = FALSE
  BY <1>3, NothingToCome DEF TookEffect
<1>6. InForce = LiveIn(content) /\ Plan = {} /\ IsBound = FALSE
  BY <1>5, NoneDue, Seen DEF SeenAs
<1>7. InForce \in SUBSET Contents0
  BY <1>2, <1>6 DEF Stands0, Standing, Contents0
<1>8. LiveIn(content') = LiveIn(content)
  BY <1>1
<1>9. CASE date > today
  <2>1. agreement'[a].phase = "upcoming" /\ ~(agreement'[a].date <= today')
    BY <1>1, <1>2, <1>4, <1>9 DEF Stands0, Days
  <2>2. \A b \in Agreements : agreement'[b].phase = "upcoming" => b = a
    BY <1>3, <1>4
  <2>3. /\ DueOf(agreement', today') = {}
        /\ PlanOf(agreement', member', today') = {Coming(agreement', member', a)}
    <3>1. ToCome(agreement', today', a)
      BY <1>1, <2>1, <2>2 DEF ToCome, OnlyUpcoming
    <3> QED
      BY <3>1, OneToCome
  <2>4. \A b \in Agreements : agreement'[b].phase \notin {"current", "replaced", "ended"}
    BY <1>3, <1>4, <2>1
  <2>5. TookEffect(agreement') = FALSE /\ Reigns(agreement', a)
    BY <2>1, <2>4 DEF TookEffect, Reigns
  <2>6. MembersIn(member', a) = LiveIn(content)
    BY <1>1, <1>2, <1>8, <2>5 DEF Stands0, Standing
  <2>7. /\ InForce' = InForce /\ Plan' = {[date |-> date, set |-> InForce]} /\ IsBound' = IsBound
    <3>1. InForce = LiveIn(content) /\ InForce' = LiveIn(content) /\ IsBound' = IsBound
      BY <1>6, <1>8, <2>3, <2>5, NoneDue, SeenAfter DEF SeenAs
    <3>2. Plan' = {Coming(agreement', member', a)}
      BY <2>3, SeenAfter DEF SeenAs
    <3>3. Coming(agreement', member', a) = [date |-> date, set |-> InForce]
      BY <1>4, <2>6, <3>1 DEF Coming
    <3> QED
      BY <3>1, <3>2, <3>3
  <2>8. date \in today + 1 .. MaxDay
    BY <1>2, <1>9, AgreementAssumption DEF Stands0, Days
  <2> QED
    BY <1>1, <1>6, <1>7, <2>7, <2>8, AgreeLaterSeen
<1>10. CASE ~(date > today)
  <2>1. agreement'[a].phase = "current"
    BY <1>4, <1>10
  <2>2. \A b \in Agreements : agreement'[b].phase # "upcoming"
    BY <1>3, <1>4, <2>1
  <2>3. /\ DueOf(agreement', today') = {} /\ PlanOf(agreement', member', today') = {}
        /\ TookEffect(agreement') = TRUE
    BY <1>1, <2>1, <2>2, NothingToCome DEF TookEffect
  <2>4. InForce' = InForce /\ Plan' = {} /\ IsBound' = TRUE
    BY <1>6, <1>8, <2>3, NoneDue, SeenAfter DEF SeenAs
  <2>5. InForce' \in SUBSET Contents0
    BY <1>7, <2>4
  <2> QED
    BY <1>1, <1>6, <2>4, <2>5, AgreeNowSeen
<1> QED
  BY <1>9, <1>10

LEMMA ConfirmSeen ==
  ASSUME AgreementIInv, AgreementIInv', Settled, NEW d \in Agreements,
         agreement[d].phase = "draft", ConfirmDraft(d)
  PROVE  Agreed!Next
<1>1. Stands0 /\ Stands0'
  BY StandsWell, PTL
<1>2. /\ \A a \in Agreements : agreement[a].phase # "upcoming"
      /\ \E a \in Agreements : agreement[a].phase \in {"current", "ended"}
  BY OnlyDraft
<1>3. DueOf(agreement, today) = {} /\ PlanOf(agreement, member, today) = {} /\ TookEffect(agreement) = TRUE
  BY <1>2, NothingToCome DEF TookEffect
<1>4. Plan = {} /\ IsBound = TRUE /\ InForce = LiveIn(content)
  BY <1>3, NoneDue, Seen DEF SeenAs
<1>5. CASE agreement[d].date = today
  <2> DEFINE rows == [s \in Slots |-> [n \in DOMAIN content[s] |-> Rechecked(d, s, n)]]
  <2>1. TakeEffect(d, rows, today) /\ UNCHANGED <<today, member>>
    BY <1>5 DEF ConfirmDraft
  <2> HIDE DEF rows
  <2>2. Plan' = {} /\ IsBound' = TRUE /\ InForce' \in SUBSET Contents0
    BY <2>1, EffectSeen
  <2> QED
    BY <1>4, <2>1, <2>2, AgreeNowSeen
<1>6. CASE agreement[d].date # today
  <2>1. /\ agreement' = [agreement EXCEPT ![d].phase = "upcoming"] /\ UNCHANGED <<today, member>>
        /\ agreement[d].date >= today
    BY <1>6 DEF ConfirmDraft
  <2>2. /\ agreement'[d].phase = "upcoming" /\ agreement'[d].date = agreement[d].date
        /\ \A a \in Agreements \ {d} : agreement'[a].phase = agreement[a].phase
    BY <2>1, PhaseSet
  <2>3. agreement[d].date \in today + 1 .. MaxDay
    BY <1>1, <1>6, <2>1, AgreementAssumption DEF Stands0, Standing, Days
  <2>4. ~(agreement'[d].date <= today') /\ \A a \in Agreements : agreement'[a].phase = "upcoming" => a = d
    BY <1>1, <1>2, <2>1, <2>2, <2>3 DEF Stands0, Days
  <2>5. /\ DueOf(agreement', today') = {}
        /\ PlanOf(agreement', member', today') = {Coming(agreement', member', d)}
    <3>1. ToCome(agreement', today', d)
      BY <1>1, <2>2, <2>4 DEF ToCome, OnlyUpcoming
    <3> QED
      BY <3>1, OneToCome
  <2>6. TookEffect(agreement') = TRUE
    BY <1>2, <2>2 DEF TookEffect
  <2>7. LiveIn(content') = LiveIn(content)
    <3>1. CASE \E a \in Agreements : agreement[a].phase = "current"
      <4>1. PICK a \in Agreements : agreement[a].phase = "current"
        BY <3>1
      <4>2. Reigns(agreement, a) /\ Reigns(agreement', a) /\ MembersIn(member', a) = MembersIn(member, a)
        BY <2>1, <2>2, <4>1 DEF Reigns
      <4> QED
        BY <1>1, <4>2 DEF Stands0, Standing
    <3>2. CASE \A a \in Agreements : agreement[a].phase # "current"
      <4>1. /\ \E a \in Agreements : agreement'[a].phase = "ended"
            /\ \A a \in Agreements : agreement'[a].phase # "current"
        BY <1>2, <2>2, <3>2
      <4> QED
        BY <1>1, <1>2, <3>2, <4>1 DEF Stands0, Standing
    <3> QED
      BY <3>1, <3>2
  <2> DEFINE date == agreement[d].date
             set == MembersIn(member, d)
  <2>8. /\ InForce' = InForce /\ IsBound' = IsBound /\ Plan' = {[date |-> date, set |-> set]}
    <3>1. Coming(agreement', member', d) = [date |-> date, set |-> set]
      BY <2>1, <2>2 DEF Coming
    <3>2. InForce' = InForce /\ IsBound' = IsBound
      BY <1>4, <2>5, <2>6, <2>7, NoneDue, SeenAfter DEF SeenAs
    <3>3. Plan' = {Coming(agreement', member', d)}
      BY <2>5, SeenAfter DEF SeenAs
    <3> QED
      BY <3>1, <3>2, <3>3
  <2>9. set \in SUBSET Contents0
    BY <1>1 DEF Stands0, Standing, Contents0
  <2>10. date \in today + 1 .. MaxDay
    BY <2>3
  <2> HIDE DEF date, set
  <2> QED
    BY <1>4, <2>1, <2>8, <2>9, <2>10, AgreeLaterSeen
<1> QED
  BY <1>5, <1>6

\* Lateness is not seen: what is due was in force already.
LEMMA ActivateSeen ==
  ASSUME AgreementIInv, AgreementIInv', NEW u \in Agreements, Activate(u)
  PROVE  Unseen
<1>1. Stands0
  BY StandsWell
<1>2. /\ agreement[u].phase = "upcoming" /\ agreement[u].date <= today
      /\ TakeEffect(u, content, agreement[u].date) /\ UNCHANGED <<today, member>>
  BY DEF Activate, IsDue
<1>3. \A a \in Agreements : agreement[a].phase = "upcoming" => a = u
  BY <1>1, <1>2 DEF Stands0, Standing
<1>4. InForce = MembersIn(member, u) /\ Plan = {} /\ IsBound = TRUE
  <2>1. NowDue(agreement, today, u)
    BY <1>2, <1>3 DEF NowDue, OnlyUpcoming
  <2> QED
    BY <2>1, OneDue, Seen DEF SeenAs
<1>5. InForce' = MembersIn(member, u) /\ Plan' = {} /\ IsBound' = TRUE
  <2> DEFINE rows == content
             date == agreement[u].date
  <2>1. TakeEffect(u, rows, date)
    BY <1>2
  <2> HIDE DEF rows, date
  <2> QED
    BY <1>2, <2>1, EffectSeen
<1> QED
  BY <1>2, <1>4, <1>5 DEF Unseen

LEMMA CorrectSeen ==
  ASSUME AgreementIInv, AgreementIInv', Settled, NEW a \in Pending, NEW date \in Days,
         CorrectDate(a, date)
  PROVE  SeenStep
<1>0. a \in Agreements /\ agreement[a].phase \in {"draft", "upcoming"}
  BY DEF Pending, In
<1>1. Stands0 /\ Stands0'
  BY StandsWell, PTL
<1>2. \A b \in Agreements : agreement[b].phase \in {"draft", "upcoming"} => b = a
  BY <1>0, <1>1 DEF Stands0, Standing
<1>3. CASE agreement[a].phase = "draft"
  <2>1. agreement' = [agreement EXCEPT ![a].date = date] /\ UNCHANGED <<today, member, content>>
    BY <1>3 DEF CorrectDate
  <2>2. \A b \in Agreements : agreement'[b].phase = agreement[b].phase /\ member'[b] = member[b]
    BY <2>1 DEF AgreementIInv, AgreementTypeOK
  <2>3. /\ \A b \in Agreements : agreement[b].phase # "upcoming"
        /\ \E b \in Agreements : agreement[b].phase \in {"current", "ended"}
    BY <1>0, <1>3, OnlyDraft
  <2>4. today' = today
    BY <2>1
  <2> QED
    BY <2>2, <2>3, <2>4, DraftUnseen DEF SeenStep
<1>4. CASE agreement[a].phase = "upcoming"
  <2>1. ~(agreement[a].date <= today)
    BY <1>0, <1>4, NotDue
  <2>2. /\ DueOf(agreement, today) = {}
        /\ PlanOf(agreement, member, today) = {Coming(agreement, member, a)}
    <3>1. ToCome(agreement, today, a)
      BY <1>0, <1>2, <1>4, <2>1 DEF ToCome, OnlyUpcoming
    <3> QED
      BY <3>1, OneToCome
  <2>3. /\ Plan = {Coming(agreement, member, a)}
        /\ InForce = LiveIn(content) /\ IsBound = TookEffect(agreement)
    BY <2>2, NoneDue, Seen DEF SeenAs
  <2>4. CASE date = today
    <3> DEFINE rows == content
               p == Coming(agreement, member, a)
    <3>1. TakeEffect(a, rows, date) /\ UNCHANGED <<today, member>>
      BY <1>4, <2>4 DEF CorrectDate
    <3>2. Plan = {p} /\ p.set = MembersIn(member, a)
      BY <2>3 DEF Coming
    <3> HIDE DEF rows, p
    <3>3. InForce' = p.set /\ Plan' = {} /\ IsBound' = TRUE
      BY <1>0, <3>1, <3>2, EffectSeen
    <3> QED
      BY <3>1, <3>2, <3>3, BroughtForwardSeen DEF SeenStep
  <2>5. CASE date # today
    <3>1. /\ agreement' = [agreement EXCEPT ![a].date = date] /\ date >= today
          /\ UNCHANGED <<today, member, content>>
      BY <2>5 DEF CorrectDate
    <3>2. /\ agreement'[a].date = date
          /\ \A b \in Agreements : agreement'[b].phase = agreement[b].phase
      BY <1>0, <3>1 DEF AgreementIInv, AgreementTypeOK
    <3>3. date \in today + 1 .. MaxDay
      BY <1>1, <2>5, <3>1, AgreementAssumption DEF Stands0, Days
    <3>4. /\ agreement'[a].phase = "upcoming" /\ ~(agreement'[a].date <= today')
          /\ \A b \in Agreements : agreement'[b].phase = "upcoming" => b = a
      BY <1>0, <1>1, <1>2, <1>4, <3>1, <3>2, <3>3 DEF Stands0, Days
    <3>5. /\ DueOf(agreement', today') = {}
          /\ PlanOf(agreement', member', today') = {Coming(agreement', member', a)}
      <4>1. ToCome(agreement', today', a)
        BY <1>0, <3>4 DEF ToCome, OnlyUpcoming
      <4> QED
        BY <4>1, OneToCome
    <3>6. TookEffect(agreement') = TookEffect(agreement)
      BY <3>2 DEF TookEffect
    <3>7. LiveIn(content') = LiveIn(content) /\ MembersIn(member', a) = MembersIn(member, a)
      BY <3>1
    <3> DEFINE set == MembersIn(member, a)
               old == agreement[a].date
    <3>8. /\ Plan = {[date |-> old, set |-> set]} /\ Plan' = {[date |-> date, set |-> set]}
          /\ InForce' = InForce /\ IsBound' = IsBound
      <4>1. /\ Coming(agreement, member, a) = [date |-> old, set |-> set]
            /\ Coming(agreement', member', a) = [date |-> date, set |-> set]
        BY <3>2, <3>7 DEF Coming
      <4>2. InForce' = InForce /\ IsBound' = IsBound
        BY <2>3, <3>5, <3>6, <3>7, NoneDue, SeenAfter DEF SeenAs
      <4>3. Plan' = {Coming(agreement', member', a)}
        BY <3>5, SeenAfter DEF SeenAs
      <4> QED
        BY <2>3, <4>1, <4>2, <4>3
    <3> HIDE DEF set, old
    <3> QED
      BY <3>1, <3>3, <3>8, RescheduleSeen DEF SeenStep
  <2> QED
    BY <2>4, <2>5
<1> QED
  BY <1>0, <1>3, <1>4

LEMMA CancelSeen ==
  ASSUME AgreementIInv, AgreementIInv', Settled, NEW u \in Agreements,
         agreement[u].phase = "upcoming", CancelUpcoming(u)
  PROVE  Agreed!Next
<1>0. u \in Agreements /\ agreement[u].phase = "upcoming"
  OBVIOUS
<1>1. Stands0 /\ Stands0'
  BY StandsWell, PTL
<1>2. \A b \in Agreements : agreement[b].phase \in {"draft", "upcoming"} => b = u
  BY <1>0, <1>1 DEF Stands0, Standing
<1>3. agreement' = [agreement EXCEPT ![u].phase = "cancelled"] /\ UNCHANGED <<today, member>>
  BY DEF CancelUpcoming
<1>4. /\ agreement'[u].phase = "cancelled"
      /\ \A b \in Agreements \ {u} : agreement'[b].phase = agreement[b].phase
  BY <1>0, <1>3, PhaseSet
<1>5. ~(agreement[u].date <= today)
  BY <1>0, NotDue
<1>6. /\ DueOf(agreement, today) = {}
      /\ PlanOf(agreement, member, today) = {Coming(agreement, member, u)}
  <2>1. ToCome(agreement, today, u)
    BY <1>0, <1>2, <1>5 DEF ToCome, OnlyUpcoming
  <2> QED
    BY <2>1, OneToCome
<1>7. \A b \in Agreements : agreement'[b].phase # "upcoming"
  BY <1>2, <1>4
<1>8. DueOf(agreement', today') = {} /\ PlanOf(agreement', member', today') = {}
  BY <1>7, NothingToCome
<1>9. TookEffect(agreement') = TookEffect(agreement)
  BY <1>0, <1>4 DEF TookEffect
<1>10. /\ Plan # {} /\ Plan' = {} /\ IsBound' = IsBound /\ IsBound = TookEffect(agreement)
       /\ InForce = LiveIn(content) /\ InForce' = LiveIn(content')
  BY <1>6, <1>8, <1>9, NoneDue, Seen, SeenAfter DEF SeenAs
<1>11. ASSUME TookEffect(agreement) PROVE LiveIn(content') = LiveIn(content)
  <2>1. CASE \E a \in Agreements : agreement[a].phase = "current"
    <3>1. PICK a \in Agreements : agreement[a].phase = "current"
      BY <2>1
    <3>2. Reigns(agreement, a) /\ Reigns(agreement', a) /\ MembersIn(member', a) = MembersIn(member, a)
      BY <1>0, <1>3, <1>4, <3>1 DEF Reigns
    <3> QED
      BY <1>1, <3>2 DEF Stands0, Standing
  <2>2. CASE \A a \in Agreements : agreement[a].phase # "current"
    <3>1. \E a \in Agreements : agreement[a].phase = "ended"
      BY <1>11, <2>2 DEF TookEffect, AgreementIInv, Phases, PhasesFit
    <3>2. /\ \E a \in Agreements : agreement'[a].phase = "ended"
          /\ \A a \in Agreements : agreement'[a].phase # "current"
      BY <1>0, <1>4, <2>2, <3>1
    <3> QED
      BY <1>1, <2>2, <3>1, <3>2 DEF Stands0, Standing
  <2> QED
    BY <2>1, <2>2
<1>12. TookEffect(agreement) = FALSE \/ TookEffect(agreement) = TRUE
  BY DEF TookEffect
<1>13. InForce' = InForce \/ IsBound = FALSE
  BY <1>10, <1>11, <1>12
<1>14. InForce' \in SUBSET Contents0
  BY <1>1, <1>10 DEF Stands0, Standing, Contents0
<1> QED
  BY <1>3, <1>10, <1>13, <1>14, WithdrawSeen

LEMMA EndAgreementSeen ==
  ASSUME AgreementIInv, AgreementIInv', NEW a \in Current, EndAgreement(a)
  PROVE  Agreed!Next
<1>0. a \in Agreements /\ agreement[a].phase = "current"
  BY DEF Current, In
<1>1. Stands0 /\ Stands0'
  BY StandsWell, PTL
<1>2. /\ agreement' = [agreement EXCEPT ![a].phase = "ended"] /\ UNCHANGED <<today, member>>
      /\ \A b \in Agreements : agreement[b].phase \notin {"draft", "upcoming"}
  BY DEF EndAgreement, Pending, In
<1>3. /\ agreement'[a].phase = "ended"
      /\ \A b \in Agreements \ {a} : agreement'[b].phase = agreement[b].phase
  BY <1>0, <1>2, PhaseSet
<1>4. \A b \in Agreements : agreement'[b].phase \notin {"upcoming", "current"}
  BY <1>0, <1>2, <1>3 DEF AgreementIInv, Phases, PhasesFit
<1>5. /\ DueOf(agreement, today) = {} /\ PlanOf(agreement, member, today) = {}
      /\ TookEffect(agreement) = TRUE
  BY <1>0, <1>2, NothingToCome DEF TookEffect
<1>6. /\ DueOf(agreement', today') = {} /\ PlanOf(agreement', member', today') = {}
      /\ TookEffect(agreement') = TRUE
  BY <1>0, <1>3, <1>4, NothingToCome DEF TookEffect
<1>7. LiveIn(content') = {}
  BY <1>0, <1>1, <1>3, <1>4 DEF Stands0, Standing
<1>8. IsBound = TRUE /\ IsBound' = TRUE /\ Plan = {} /\ Plan' = {} /\ InForce' = {}
  BY <1>5, <1>6, <1>7, NoneDue, Seen, SeenAfter DEF SeenAs
<1> QED
  BY <1>2, <1>8, EndSeen

LEMMA NextDaySeen ==
  ASSUME AgreementIInv, AgreementIInv', NextDay
  PROVE  Agreed!Next
<1>1. Stands0 /\ Stands0'
  BY StandsWell, PTL
<1>2. today < MaxDay /\ today' = today + 1 /\ UNCHANGED <<agreement, member, content>>
  BY DEF NextDay
<1>3. CASE \A a \in Agreements : agreement[a].phase # "upcoming"
  <2>1. /\ DueOf(agreement, today) = {} /\ PlanOf(agreement, member, today) = {}
        /\ DueOf(agreement', today') = {} /\ PlanOf(agreement', member', today') = {}
    BY <1>2, <1>3, NothingToCome
  <2>2. /\ ForceOf(agreement', member', content', today') = ForceOf(agreement, member, content, today)
        /\ BoundOf(agreement', today') = BoundOf(agreement, today)
    BY <1>2, <2>1, NoneDue
  <2>3. InForce' = InForce /\ Plan = {} /\ Plan' = {} /\ IsBound' = IsBound
    BY <2>1, <2>2, Seen, SeenAfter DEF SeenAs
  <2> QED
    BY <1>2, <2>3, MidnightSeen
<1>4. ASSUME NEW u \in Agreements, agreement[u].phase = "upcoming"
      PROVE  Agreed!Next
  <2>1. \A a \in Agreements : agreement[a].phase = "upcoming" => a = u
    BY <1>1, <1>4 DEF Stands0, Standing
  <2>2. agreement[u].date \in Days /\ today \in Days
    BY <1>1 DEF Stands0, Standing
  <2>3. CASE agreement[u].date <= today
    <3>1. agreement'[u].date <= today'
      BY <1>2, <2>2, <2>3 DEF Days
    <3>2. /\ ForceOf(agreement, member, content, today) = MembersIn(member, u)
          /\ PlanOf(agreement, member, today) = {} /\ BoundOf(agreement, today) = TRUE
      <4>1. NowDue(agreement, today, u)
        BY <1>4, <2>1, <2>3 DEF NowDue, OnlyUpcoming
      <4> QED
        BY <4>1, OneDue
    <3>3. /\ ForceOf(agreement', member', content', today') = MembersIn(member', u)
          /\ PlanOf(agreement', member', today') = {} /\ BoundOf(agreement', today') = TRUE
      <4>1. NowDue(agreement', today', u)
        BY <1>2, <1>4, <2>1, <3>1 DEF NowDue, OnlyUpcoming
      <4> QED
        BY <1>2, <4>1, OneDue
    <3>4. InForce' = InForce /\ Plan = {} /\ Plan' = {} /\ IsBound' = IsBound
      BY <1>2, <3>2, <3>3, Seen, SeenAfter DEF SeenAs
    <3> QED
      BY <1>2, <3>4, MidnightSeen
  <2>4. CASE ~(agreement[u].date <= today)
    <3>1. /\ DueOf(agreement, today) = {}
          /\ PlanOf(agreement, member, today) = {Coming(agreement, member, u)}
      <4>1. ToCome(agreement, today, u)
        BY <1>4, <2>1, <2>4 DEF ToCome, OnlyUpcoming
      <4> QED
        BY <4>1, OneToCome
    <3> DEFINE p == Coming(agreement, member, u)
    <3>2. Plan = {p} /\ p.date = agreement[u].date /\ p.set = MembersIn(member, u)
      BY <3>1, Seen DEF SeenAs, Coming
    <3>3. InForce = LiveIn(content) /\ IsBound = TookEffect(agreement)
      BY <3>1, NoneDue, Seen DEF SeenAs
    <3>4. CASE agreement[u].date = today + 1
      <4>1. agreement'[u].date <= today'
        BY <1>2, <2>2, <3>4 DEF Days
      <4>2. /\ ForceOf(agreement', member', content', today') = MembersIn(member', u)
            /\ PlanOf(agreement', member', today') = {} /\ BoundOf(agreement', today') = TRUE
        <5>1. NowDue(agreement', today', u)
          BY <1>2, <1>4, <2>1, <4>1 DEF NowDue, OnlyUpcoming
        <5> QED
          BY <1>2, <5>1, OneDue
      <4>3. InForce' = MembersIn(member, u) /\ Plan' = {} /\ IsBound' = TRUE
        BY <1>2, <4>2, SeenAfter DEF SeenAs
      <4> HIDE DEF p
      <4>4. p \in Plan /\ p.date = today + 1 /\ InForce' = p.set
        BY <3>2, <3>4, <4>3
      <4> QED
        BY <1>2, <4>3, <4>4, MidnightSeen
    <3>5. CASE agreement[u].date # today + 1
      <4>1. ~(agreement'[u].date <= today') /\ agreement[u].date > today + 1
        BY <1>2, <2>2, <2>4, <3>5 DEF Days
      <4>2. /\ DueOf(agreement', today') = {}
            /\ PlanOf(agreement', member', today') = {Coming(agreement', member', u)}
        <5>1. ToCome(agreement', today', u)
          BY <1>2, <1>4, <2>1, <4>1 DEF ToCome, OnlyUpcoming
        <5> QED
          BY <5>1, OneToCome
      <4>3. Plan' = {p}
        BY <1>2, <4>2, SeenAfter DEF SeenAs
      <4>4. InForce' = LiveIn(content') /\ IsBound' = TookEffect(agreement')
        BY <4>2, NoneDue, SeenAfter DEF SeenAs
      <4>5. InForce' = InForce /\ IsBound' = IsBound
        BY <1>2, <3>3, <4>4
      <4> HIDE DEF p
      <4>6. Plan' = Plan /\ \A q \in Plan : q.date > today + 1
        BY <3>2, <4>1, <4>3
      <4> QED
        BY <1>2, <4>5, <4>6, MidnightSeen
    <3> QED
      BY <3>4, <3>5
  <2> QED
    BY <2>3, <2>4
<1> QED
  BY <1>3, <1>4

LEMMA ContentSeen ==
  ASSUME AgreementIInv, AgreementIInv', AgreementNext
  PROVE  SeenStep
<1>1. CASE NextDay
  BY <1>1, NextDaySeen DEF SeenStep
<1>2. ASSUME NEW u \in Agreements, Activate(u) PROVE SeenStep
  BY <1>2, ActivateSeen DEF SeenStep
<1>3. ASSUME NEW s \in Slots, NEW n \in DOMAIN content[s], OnRow(s, n) PROVE SeenStep
  <2>1. UNCHANGED <<today, agreement, member>>
    BY <1>3 DEF OnRow, FollowUp, CreateDeviation, MoveCase, ApproveDeviation, CancelDeviation,
                CloseDeviation
  <2> QED
    BY <1>3, <2>1, RowStep, QuietUnseen DEF SeenStep
<1>4. ASSUME NEW s \in Slots, OnWorkingSet(s) PROVE SeenStep
  <2>1. UNCHANGED <<today, agreement, member>>
    BY <1>4 DEF OnWorkingSet, AddContent, RemoveContent, ReplaceContent
  <2> QED
    BY <1>4, <2>1, WorkingSetStep, WorkingSetSeen DEF SeenStep
<1>5. ASSUME Settled, OnAgreements PROVE SeenStep
  <2>1. ASSUME NEW date \in Days, RegisterFirst(date) PROVE SeenStep
    BY <1>5, <2>1, RegisterFirstSeen DEF SeenStep
  <2>2. ASSUME NEW date \in Days, CreateDraft(date) PROVE SeenStep
    <3> DEFINE a == NextAgreement
               p == Preceding
    <3>1. \A b \in Agreements : agreement[b].phase \notin {"draft", "upcoming"}
      BY <2>2 DEF CreateDraft, Pending, In
    <3>2. a \in Agreements /\ agreement[a].phase = "none"
      <4>1. In({"none"}) # {}
        BY <2>2 DEF CreateDraft
      <4> QED
        BY <4>1, NextIsFree
    <3>3. \E b \in Agreements : agreement[b].phase \in {"current", "ended"}
      <4>1. Preceding > 0
        BY <2>2 DEF CreateDraft
      <4>2. Current # {} \/ In({"ended"}) # {}
        BY <4>1 DEF Preceding
      <4> QED
        BY <4>2 DEF Current, In
    <3>4. /\ today' = today
          /\ agreement' = [agreement EXCEPT ![a] = [phase |-> "draft", date |-> date, previous |-> p]]
          /\ \E f : member' = [member EXCEPT ![a] = f]
      BY <2>2 DEF CreateDraft
    <3> HIDE DEF a, p
    <3>5. \A b \in Agreements :
            \/ {agreement[b].phase, agreement'[b].phase} \subseteq {"none", "draft"}
            \/ agreement'[b].phase = agreement[b].phase /\ member'[b] = member[b]
      BY <3>2, <3>4 DEF AgreementIInv, AgreementTypeOK
    <3> QED
      BY <3>1, <3>3, <3>4, <3>5, DraftUnseen DEF SeenStep
  <2>3. ASSUME NEW d \in In({"draft"}),
               DiscardDraft(d) \/ \E s \in Slots :
                 AddToDraft(d, s) \/ ChangeInDraft(d, s) \/ RemoveFromDraft(d, s) \/ UndoInDraft(d, s)
        PROVE  SeenStep
    <3>1. d \in Agreements /\ agreement[d].phase = "draft"
      BY DEF In
    <3>2. /\ \A b \in Agreements : agreement[b].phase # "upcoming"
          /\ \E b \in Agreements : agreement[b].phase \in {"current", "ended"}
      BY <3>1, OnlyDraft
    <3>3. today' = today
      BY <2>3 DEF DiscardDraft, AddToDraft, ChangeInDraft, RemoveFromDraft, UndoInDraft
    <3>4. agreement' = agreement \/ agreement' = [agreement EXCEPT ![d] = NoAgreement]
      BY <2>3 DEF DiscardDraft, AddToDraft, ChangeInDraft, RemoveFromDraft, UndoInDraft
    <3>5. \A b \in Agreements \ {d} : member'[b] = member[b]
      BY <2>3, <3>1 DEF DiscardDraft, AddToDraft, ChangeInDraft, RemoveFromDraft, UndoInDraft,
                        AgreementIInv, AgreementTypeOK
    <3>6. {agreement[d].phase, agreement'[d].phase} \subseteq {"none", "draft"}
      BY <3>1, <3>4 DEF NoAgreement, AgreementIInv, AgreementTypeOK
    <3>7. \A b \in Agreements \ {d} : agreement'[b] = agreement[b]
      BY <3>4 DEF AgreementIInv, AgreementTypeOK
    <3>8. \A b \in Agreements :
            \/ {agreement[b].phase, agreement'[b].phase} \subseteq {"none", "draft"}
            \/ agreement'[b].phase = agreement[b].phase /\ member'[b] = member[b]
      BY <3>5, <3>6, <3>7
    <3> QED
      BY <3>2, <3>3, <3>8, DraftUnseen DEF SeenStep
  <2>4. ASSUME NEW d \in In({"draft"}), ConfirmDraft(d) PROVE SeenStep
    <3>1. d \in Agreements /\ agreement[d].phase = "draft"
      BY DEF In
    <3> QED
      BY <1>5, <2>4, <3>1, ConfirmSeen DEF SeenStep
  <2>5. ASSUME NEW a \in Pending, NEW date \in Days, CorrectDate(a, date) PROVE SeenStep
    BY <1>5, <2>5, CorrectSeen
  <2>6. ASSUME NEW u \in In({"upcoming"}), CancelUpcoming(u) PROVE SeenStep
    <3>1. u \in Agreements /\ agreement[u].phase = "upcoming"
      BY DEF In
    <3> QED
      BY <1>5, <2>6, <3>1, CancelSeen DEF SeenStep
  <2>7. ASSUME NEW a \in Current, EndAgreement(a) PROVE SeenStep
    BY <2>7, EndAgreementSeen DEF SeenStep
  <2> QED
    BY <1>5, <2>1, <2>2, <2>3, <2>4, <2>5, <2>6, <2>7 DEF OnAgreements
<1>6. ASSUME NEW s \in Slots, NEW n \in DOMAIN content[s], NEW status \in Statuses, FollowUp(s, n, status)
      PROVE  OnRow(s, n)
  BY <1>6 DEF OnRow
<1>7. ASSUME Settled, NEW s \in Slots, OnContent(s)
      PROVE  OnWorkingSet(s) \/ \E n \in DOMAIN content[s] : OnRow(s, n)
  BY <1>7 DEF OnContent, OnRow, OnWorkingSet
<1> QED
  BY <1>1, <1>2, <1>3, <1>4, <1>5, <1>6, <1>7 DEF AgreementNext

\* What a reader sees in force follows the agreements alone: it changes at the
\* midnight agreed on, however late a transaction materialises that.
THEOREM AgreementsImplemented == AgreementSpec => ImplementsAgreedContent
<1>1. AgreementInit => Agreed!Init
  <2> SUFFICES ASSUME AgreementInit PROVE Agreed!Init
    OBVIOUS
  <2>1. today = 0 /\ \A a \in Agreements : agreement[a].phase = "none"
    BY DEF AgreementInit, NoAgreement
  <2>2. LiveIn(content) = {}
    BY DEF AgreementInit, LiveIn
  <2>3. /\ DueOf(agreement, today) = {} /\ PlanOf(agreement, member, today) = {}
        /\ TookEffect(agreement) = FALSE
    BY <2>1, NothingToCome DEF TookEffect
  <2>4. InForce = {} /\ Plan = {} /\ IsBound = FALSE
    BY <2>2, <2>3, NoneDue, Seen DEF SeenAs
  <2> QED
    BY <2>1, <2>4 DEF Agreed!Init, InForce, Plan, IsBound
<1>2. AgreementIInv /\ AgreementIInv' /\ [AgreementNext]_agreementVars
        => [Agreed!Next]_<<today, InForce, Plan, IsBound>>
  <2>1. CASE AgreementNext
    BY <2>1, ContentSeen DEF SeenStep, Unseen
  <2>2. CASE UNCHANGED agreementVars
    <3>1. UNCHANGED <<today, agreement, member, frozen, content, midnight>>
      BY <2>2 DEF agreementVars
    <3>2. Unseen
      BY <3>1, UnseenBy
    <3> QED
      BY <3>2 DEF Unseen
  <2> QED
    BY <2>1, <2>2
<1> QED
  BY <1>1, <1>2, AgreementInvariance, PTL
     DEF AgreementSpec, ImplementsAgreedContent, Agreed!Spec, Agreed!contentVars, InForce, Plan, IsBound
=============================================================================
