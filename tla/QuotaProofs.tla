----------------------------- MODULE QuotaProofs -----------------------------
(***************************************************************************)
(* What the three quotas guarantee for every number of people, nodes,      *)
(* requests and rows, and for every limit.                                 *)
(*                                                                         *)
(* Exports: the heart of the proof is Leased, that the age of an export is *)
(* never below the age of its row, so that a watchdog that fires before    *)
(* Recovery by the process's clock fires before the row expires by the     *)
(* database's.  Imports: the buckets and totals of the validation          *)
(* sessions, the receipt, and that rows are written as they were           *)
(* validated.  Verifications: every unit of a bucket is accounted for by   *)
(* one request.  Sums are those of the community modules; what is needed   *)
(* of them is proved in Sums.                                              *)
(***************************************************************************)
EXTENDS ExportQuota, RequirementImport, HsaVerificationQuota, FiniteSetTheorems,
        Sums, TLAPS

(***************************************************************************)
(* Generated exports.                                                      *)
(***************************************************************************)
QuotaRows == [state : {"none", "held", "released"},
         actor : Actors \cup {NoActor}, age : 0 .. Recovery]

\* An export that was admitted and is young enough holds its actor's row, and
\* the row is no older than the export.
Leased(o) ==
  pc[o] \in Working \cup {"admitted"} /\ age[o] < Recovery =>
    /\ entry[o].state = "held" /\ entry[o].actor = actor[o]
    /\ entry[o].age <= age[o]

\* No work without a watchdog that is still to come.
Fenced(o) == pc[o] \in Working => armed[o] /\ age[o] < Recovery

\* An export that runs has an actor and a node; one that asks has no row yet.
Placed(o) ==
  /\ pc[o] # "idle" => actor[o] \in Actors /\ node[o] \in Nodes
  /\ pc[o] = "admitting" => entry[o] = NoRow

\* Only a generation between its two ends holds capacity, and only an export
\* with a spool holds storage, in a directory no older than itself.
Spooled(o) ==
  /\ slot[o] => pc[o] \in {"spooling", "generating"}
  /\ spool[o] =>
       /\ pc[o] \in {"generating", "responding", "failing", "delivering", "cleaning"}
       /\ dir[o].present /\ dir[o].age <= age[o]

AllGood == \A o \in Ops : Leased(o) /\ Fenced(o) /\ Placed(o) /\ Spooled(o)

RowsBounded == \A a \in Actors : Cardinality(Occupied(a)) <= ActiveLimit

IInv == TypeOK /\ AllGood /\ RowsBounded

-----------------------------------------------------------------------------
(***************************************************************************)
(* Types.                                                                  *)
(***************************************************************************)
\* What the assumption on the constants says, one fact at a time.
LEMMA Periods ==
  /\ Window \in Nat /\ Window > 0 /\ Lifetime \in Nat /\ FailStop \in Nat
  /\ Recovery \in Nat /\ Window <= Lifetime
  /\ Lifetime < FailStop /\ FailStop < Recovery
  /\ ActiveLimit \in Nat /\ StartLimit \in Nat /\ 0 \in 0 .. Window - 1 /\ 0 \in 0 .. Recovery
  /\ 0 \in 0 .. Recovery + 1
  BY ExportAssumption

\* A counter that is taken down by one stays a counter.
LEMMA Lowered ==
  ASSUME NEW k \in Nat
  PROVE  OneLess(k) = IF k = 0 THEN 0 ELSE k - 1
<1>1. CASE k = 0
  <2>1. {0, k - 1} = {0, -1}
    BY <1>1
  <2>. QED  BY <1>1, <2>1 DEF OneLess, Max
<1>2. CASE k # 0
  <2>1. k - 1 \in {0, k - 1} /\ \A y \in {0, k - 1} : k - 1 >= y
    BY <1>2
  <2>2. \A x \in {0, k - 1} : (\A y \in {0, k - 1} : x >= y) => x = k - 1
    BY <1>2
  <2>. QED  BY <1>2, <2>1, <2>2 DEF OneLess, Max
<1>. QED  BY <1>1, <1>2

\* A generation that failed throws, or has an error body to deliver.
LEMMA FailedFacts ==
  ASSUME TypeOK, NEW o \in Ops, Failed(o)
  PROVE  /\ pc' \in [Ops -> Phases]
         /\ pc'[o] \in {"finishing", "delivering"}
         /\ \A q \in Ops \ {o} : pc'[q] = pc[q]
<1>1. PICK p \in {"finishing", "delivering"} : pc' = [pc EXCEPT ![o] = p]
  BY DEF Failed
<1>. QED  BY <1>1 DEF TypeOK, Phases, Working

\* An export that leaves its process leaves well-typed variables.
LEMMA GoneTypes ==
  ASSUME TypeOK, NEW o \in Ops, Gone(o)
  PROVE  /\ pc' \in [Ops -> Phases] /\ age' \in [Ops -> 0 .. Recovery]
         /\ aborted' \in [Ops -> BOOLEAN]
         /\ actor' \in [Ops -> Actors \cup {NoActor}]
         /\ node' \in [Ops -> Nodes \cup {NoNode}]
  BY Periods DEF Gone, TypeOK, Phases

\* A counter goes up by one.
LEMMA Raised ==
  ASSUME NEW f \in [Nodes -> Nat], NEW n
  PROVE  [f EXCEPT ![n] = @ + 1] \in [Nodes -> Nat]
<1>1. CASE n \in Nodes
  <2>1. f[n] + 1 \in Nat
    BY <1>1
  <2>. QED  BY <2>1
<1>2. CASE n \notin Nodes
  BY <1>2
<1>. QED  BY <1>1, <1>2

\* A row may change its state.
LEMMA StateTypes ==
  ASSUME NEW e \in [Ops -> QuotaRows], NEW o \in Ops,
         NEW st \in {"none", "held", "released"}
  PROVE  [e EXCEPT ![o].state = st] \in [Ops -> QuotaRows]
<1>1. [e[o] EXCEPT !.state = st] \in QuotaRows
  BY DEF QuotaRows
<1>2. [e EXCEPT ![o].state = st] = [e EXCEPT ![o] = [e[o] EXCEPT !.state = st]]
  OBVIOUS
<1>. QED  BY <1>1, <1>2

LEMMA RowTypes ==
  /\ NoRow \in QuotaRows
  /\ NoDir \in [present : BOOLEAN, age : 0 .. Recovery + 1]
  /\ \A a \in Actors \cup {NoActor} : [state |-> "held", actor |-> a, age |-> 0] \in QuotaRows
  BY Periods DEF NoRow, NoDir, QuotaRows

\* The initial state is well typed.
LEMMA InitTypeOK == Init => TypeOK
<1>. SUFFICES ASSUME Init PROVE TypeOK
  OBVIOUS
<1>. QED  BY Periods, RowTypes DEF Init, TypeOK, Phases, QuotaRows

\* Giving capacity and storage back is well typed.
LEMMA ReleaseTypes ==
  ASSUME TypeOK, NEW o \in Ops
  PROVE  /\ ReleaseGeneration(o) =>
              pool' \in [Nodes -> Nat] /\ slot' \in [Ops -> BOOLEAN]
         /\ ReleaseSpool(o) =>
              /\ reserved' \in [Nodes -> Nat] /\ spool' \in [Ops -> BOOLEAN]
              /\ dir' \in [Ops -> [present : BOOLEAN, age : 0 .. Recovery + 1]]
<1>1. \A k \in Nat : OneLess(k) \in Nat
  BY Lowered
<1>2. ASSUME ReleaseGeneration(o)
      PROVE  pool' \in [Nodes -> Nat] /\ slot' \in [Ops -> BOOLEAN]
  BY <1>1, <1>2 DEF ReleaseGeneration, TypeOK
<1>3. ASSUME ReleaseSpool(o)
      PROVE  /\ reserved' \in [Nodes -> Nat] /\ spool' \in [Ops -> BOOLEAN]
             /\ dir' \in [Ops -> [present : BOOLEAN, age : 0 .. Recovery + 1]]
  <2>1. reserved' \in [Nodes -> Nat] /\ spool' \in [Ops -> BOOLEAN]
    BY <1>1, <1>3 DEF ReleaseSpool, TypeOK
  <2>2. dir' \in {dir, [dir EXCEPT ![o] = NoDir]}
    BY <1>3 DEF ReleaseSpool
  <2>3. [dir EXCEPT ![o] = NoDir] \in [Ops -> [present : BOOLEAN, age : 0 .. Recovery + 1]]
    BY RowTypes DEF TypeOK
  <2>. QED  BY <2>1, <2>2, <2>3 DEF TypeOK
<1>. QED  BY <1>2, <1>3

\* Every step of an export is well typed.
LEMMA StepTypeOK ==
  ASSUME TypeOK, NEW o \in Ops, Step(o)
  PROVE  TypeOK'
<1>. USE DEF TypeOK, Phases, Working
<1>1. CASE Request(o)
  BY <1>1 DEF Request
<1>2. CASE Admit(o)
  <2>. DEFINE a == actor[o]
              f == [starts[a] EXCEPT ![0] = @ + 1]
  <2>1. starts' = [starts EXCEPT ![a] = f]
    BY <1>2 DEF Admit
  <2>2. a \in Actors => f \in [0 .. Window - 1 -> Nat]
    BY Periods
  <2>3. starts' \in [Actors -> [0 .. Window - 1 -> Nat]]
    BY <2>1, <2>2
  <2>4. entry' \in [Ops -> QuotaRows]
    BY <1>2, RowTypes DEF Admit, QuotaRows
  <2>5. CASE Gone(o)
    BY <1>2, <2>3, <2>4, <2>5, GoneTypes DEF Admit, QuotaRows
  <2>6. CASE UNCHANGED <<actor, node, age, aborted>> /\ pc' = [pc EXCEPT ![o] = "admitted"]
    BY <1>2, <2>3, <2>4, <2>6 DEF Admit, QuotaRows
  <2>. QED  BY <1>2, <2>5, <2>6 DEF Admit
<1>3. CASE Refuse(o)
  BY <1>3, GoneTypes DEF Refuse
<1>4. CASE Arm(o)
  BY <1>4 DEF Arm
<1>5. CASE Abort(o)
  BY <1>5 DEF Abort
<1>6. CASE Acquire(o)
  <2>1. CASE Failed(o) /\ UNCHANGED <<pool, slot>>
    BY <1>6, <2>1, FailedFacts DEF Acquire
  <2>2. CASE /\ pool' = [pool EXCEPT ![node[o]] = @ + 1]
             /\ slot' = [slot EXCEPT ![o] = TRUE]
             /\ pc' = [pc EXCEPT ![o] = "spooling"]
    BY <1>6, <2>2, Raised DEF Acquire
  <2>. QED  BY <1>6, <2>1, <2>2 DEF Acquire
<1>7. CASE OpenSpool(o)
  <2>1. PICK gone \in SUBSET Ops :
          \/ /\ spool' = [spool EXCEPT ![o] = TRUE]
             /\ reserved' = [reserved EXCEPT ![node[o]] = @ + 1]
             /\ dir' = [[p \in Ops |-> IF p \in gone THEN NoDir ELSE dir[p]]
                        EXCEPT ![o] = [present |-> TRUE, age |-> 0]]
             /\ pc' = [pc EXCEPT ![o] = "generating"]
             /\ UNCHANGED <<pool, slot>>
          \/ /\ Failed(o) /\ ReleaseGeneration(o)
             /\ dir' = [p \in Ops |-> IF p \in gone THEN NoDir ELSE dir[p]]
             /\ UNCHANGED <<reserved, spool>>
    BY <1>7 DEF OpenSpool, Stale
  <2>2. [present |-> TRUE, age |-> 0] \in [present : BOOLEAN, age : 0 .. Recovery + 1]
    BY Periods
  <2>3. dir' \in [Ops -> [present : BOOLEAN, age : 0 .. Recovery + 1]]
    BY <2>1, <2>2, RowTypes
  <2>4. spool' \in [Ops -> BOOLEAN] /\ reserved' \in [Nodes -> Nat]
        /\ slot' \in [Ops -> BOOLEAN] /\ pool' \in [Nodes -> Nat]
    <3>1. CASE Failed(o) /\ ReleaseGeneration(o) /\ UNCHANGED <<reserved, spool>>
      BY <3>1, ReleaseTypes
    <3>2. CASE /\ spool' = [spool EXCEPT ![o] = TRUE] /\ UNCHANGED <<pool, slot>>
               /\ reserved' = [reserved EXCEPT ![node[o]] = @ + 1]
      BY <3>2, Raised
    <3>. QED  BY <2>1, <3>1, <3>2
  <2>5. pc' \in [Ops -> Phases]
    BY <2>1, FailedFacts
  <2>. QED  BY <1>7, <2>3, <2>4, <2>5 DEF OpenSpool
<1>8. CASE Generate(o)
  BY <1>8, ReleaseTypes DEF Generate
<1>9. CASE GenerationFails(o)
  BY <1>9, ReleaseTypes DEF GenerationFails
<1>10. CASE FailureCleaned(o)
  BY <1>10, ReleaseTypes, FailedFacts DEF FailureCleaned
<1>11. CASE Respond(o)
  BY <1>11 DEF Respond
<1>12. CASE BodyEnds(o)
  BY <1>12 DEF BodyEnds
<1>13. CASE Cleaned(o)
  BY <1>13, ReleaseTypes DEF Cleaned
<1>14. CASE Finish(o)
  <2>1. entry' \in [Ops -> QuotaRows]
    <3>. DEFINE st == IF entry[o].state = "held" THEN "released" ELSE entry[o].state
    <3>1. entry' = entry \/ entry' = [entry EXCEPT ![o].state = st]
      BY <1>14 DEF Finish
    <3>2. st \in {"none", "held", "released"}
      OBVIOUS
    <3>. HIDE DEF st
    <3>3. [entry EXCEPT ![o].state = st] \in [Ops -> QuotaRows]
      BY <3>2, StateTypes DEF QuotaRows
    <3>. QED  BY <3>1, <3>3 DEF QuotaRows
  <2>. QED  BY <1>14, <2>1, GoneTypes DEF Finish, QuotaRows
<1>15. CASE Purge(o)
  BY <1>15, RowTypes DEF Purge, QuotaRows
<1>. QED
  BY <1>1, <1>2, <1>3, <1>4, <1>5, <1>6, <1>7, <1>8, <1>9, <1>10, <1>11,
     <1>12, <1>13, <1>14, <1>15 DEF Step

\* Time, a process that dies and an erasure are well typed.
LEMMA OtherTypeOK ==
  ASSUME TypeOK,
         \/ Tick
         \/ \E n \in Nodes : Killed(n)
         \/ \E a \in Actors : Erase(a)
  PROVE  TypeOK'
<1>1. CASE Tick
  <2>1. \A k \in 0 .. Recovery : Older(k, Recovery) \in 0 .. Recovery
    BY Periods DEF Older
  <2>2. \A k \in 0 .. Recovery + 1 : Older(k, Recovery + 1) \in 0 .. Recovery + 1
    BY Periods DEF Older
  <2>3. age' \in [Ops -> 0 .. Recovery]
    BY <1>1, <2>1, Periods DEF Tick, TypeOK
  <2>4. entry' \in [Ops -> QuotaRows]
    <3>1. \A o \in Ops : [entry[o] EXCEPT !.age = Older(@, Recovery)] \in QuotaRows
      <4>1. ASSUME NEW r \in QuotaRows, NEW k \in 0 .. Recovery
            PROVE  [r EXCEPT !.age = k] \in QuotaRows
        BY DEF QuotaRows
      <4>2. \A o \in Ops : entry[o] \in QuotaRows /\ entry[o].age \in 0 .. Recovery
        BY DEF TypeOK, QuotaRows
      <4>. QED  BY <2>1, <4>1, <4>2
    <3>. QED  BY <1>1, <3>1, RowTypes DEF Tick
  <2>5. dir' \in [Ops -> [present : BOOLEAN, age : 0 .. Recovery + 1]]
    <3>1. \A o \in Ops : [dir[o] EXCEPT !.age = Older(@, Recovery + 1)]
            \in [present : BOOLEAN, age : 0 .. Recovery + 1]
      BY <2>2 DEF TypeOK
    <3>. QED  BY <1>1, <3>1, RowTypes DEF Tick
  <2>6. starts' \in [Actors -> [0 .. Window - 1 -> Nat]]
    <3>1. \A k \in 0 .. Window - 1 : k # 0 => k - 1 \in 0 .. Window - 1
      BY Periods
    <3>2. \A a \in Actors :
            [k \in 0 .. Window - 1 |-> IF k = 0 THEN 0 ELSE starts[a][k - 1]]
              \in [0 .. Window - 1 -> Nat]
      BY <3>1 DEF TypeOK
    <3>. QED  BY <1>1, <3>2 DEF Tick
  <2>. QED  BY <1>1, <2>3, <2>4, <2>5, <2>6 DEF Tick, TypeOK, QuotaRows
<1>2. ASSUME NEW n \in Nodes, Killed(n)
      PROVE  TypeOK'
  BY <1>2, Periods DEF Killed, TypeOK, Phases
<1>3. ASSUME NEW a \in Actors, Erase(a)
      PROVE  TypeOK'
  <2>1. entry' \in [Ops -> QuotaRows]
    BY <1>3, RowTypes DEF Erase, TypeOK, QuotaRows
  <2>2. starts' \in [Actors -> [0 .. Window - 1 -> Nat]]
    BY <1>3 DEF Erase, TypeOK
  <2>. QED  BY <1>3, <2>1, <2>2 DEF Erase, TypeOK, QuotaRows
<1>. QED  BY <1>1, <1>2, <1>3

LEMMA NextTypeOK == TypeOK /\ [Next]_vars => TypeOK'
<1>. SUFFICES ASSUME TypeOK, [Next]_vars PROVE TypeOK'
  OBVIOUS
<1>1. CASE UNCHANGED vars
  BY <1>1 DEF vars, TypeOK
<1>. QED  BY <1>1, StepTypeOK, OtherTypeOK DEF Next, Crash, Watchdog

\* Every reachable state is well typed.
THEOREM TypeCorrect == Spec => []TypeOK
  BY InitTypeOK, NextTypeOK, PTL DEF Spec

-----------------------------------------------------------------------------
(***************************************************************************)
(* The lease.                                                              *)
(***************************************************************************)
\* A step of one export leaves the others alone, but for directories that
\* died processes left.
LEMMA Others ==
  ASSUME TypeOK, AllGood, NEW o \in Ops, Step(o), NEW q \in Ops, q # o
  PROVE  /\ entry'[q] = entry[q] /\ pc'[q] = pc[q] /\ actor'[q] = actor[q]
         /\ node'[q] = node[q] /\ age'[q] = age[q] /\ armed'[q] = armed[q]
         /\ slot'[q] = slot[q] /\ spool'[q] = spool[q]
         /\ spool[q] => dir'[q] = dir[q]
<1>. USE DEF TypeOK
<1>1. CASE Request(o)
  BY <1>1 DEF Request
<1>2. CASE Admit(o)
  BY <1>2 DEF Admit, Gone
<1>3. CASE Refuse(o)
  BY <1>3 DEF Refuse, Gone
<1>4. CASE Arm(o)
  BY <1>4 DEF Arm
<1>5. CASE Abort(o)
  BY <1>5 DEF Abort
<1>6. CASE Acquire(o)
  BY <1>6, FailedFacts DEF Acquire
<1>7. CASE OpenSpool(o)
  <2>1. PICK gone \in SUBSET Stale :
          \/ /\ spool' = [spool EXCEPT ![o] = TRUE]
             /\ dir' = [[p \in Ops |-> IF p \in gone THEN NoDir ELSE dir[p]]
                        EXCEPT ![o] = [present |-> TRUE, age |-> 0]]
             /\ pc' = [pc EXCEPT ![o] = "generating"]
             /\ UNCHANGED slot
          \/ /\ Failed(o) /\ ReleaseGeneration(o)
             /\ dir' = [p \in Ops |-> IF p \in gone THEN NoDir ELSE dir[p]]
             /\ UNCHANGED spool
    BY <1>7 DEF OpenSpool
  <2>2. ASSUME spool[q]
        PROVE  q \notin gone
    <3>1. pc[q] \in Working /\ dir[q].age <= age[q] /\ age[q] < Recovery
      BY <2>2 DEF AllGood, Spooled, Fenced, Working
    <3>. QED  BY <3>1, Periods DEF Stale
  <2>3. spool[q] => dir'[q] = dir[q]
    BY <2>1, <2>2
  <2>4. spool'[q] = spool[q] /\ pc'[q] = pc[q] /\ slot'[q] = slot[q]
    BY <2>1, FailedFacts DEF ReleaseGeneration
  <2>. QED  BY <1>7, <2>3, <2>4 DEF OpenSpool
<1>8. CASE Generate(o)
  BY <1>8 DEF Generate, ReleaseGeneration
<1>9. CASE GenerationFails(o)
  BY <1>9 DEF GenerationFails, ReleaseGeneration
<1>10. CASE FailureCleaned(o)
  BY <1>10, FailedFacts DEF FailureCleaned, ReleaseSpool
<1>11. CASE Respond(o)
  BY <1>11 DEF Respond
<1>12. CASE BodyEnds(o)
  BY <1>12 DEF BodyEnds
<1>13. CASE Cleaned(o)
  BY <1>13 DEF Cleaned, ReleaseSpool
<1>14. CASE Finish(o)
  BY <1>14 DEF Finish, Gone
<1>15. CASE Purge(o)
  BY <1>15 DEF Purge
<1>. QED
  BY <1>1, <1>2, <1>3, <1>4, <1>5, <1>6, <1>7, <1>8, <1>9, <1>10, <1>11,
     <1>12, <1>13, <1>14, <1>15 DEF Step

\* An export's own steps keep its lease.
LEMMA OwnStep ==
  ASSUME TypeOK, AllGood, NEW o \in Ops, Step(o)
  PROVE  Leased(o)' /\ Fenced(o)' /\ Placed(o)' /\ Spooled(o)'
<1>0. Leased(o) /\ Fenced(o) /\ Placed(o) /\ Spooled(o)
  BY DEF AllGood
<1>. USE <1>0, Periods DEF TypeOK, Leased, Fenced, Placed, Spooled, Working
<1>1. CASE Request(o)
  BY <1>1 DEF Request
<1>2. CASE Admit(o)
  BY <1>2 DEF Admit, Gone
<1>3. CASE Refuse(o)
  BY <1>3 DEF Refuse, Gone
<1>4. CASE Arm(o)
  BY <1>4 DEF Arm
<1>5. CASE Abort(o)
  BY <1>5 DEF Abort
<1>6. CASE Acquire(o)
  BY <1>6, FailedFacts DEF Acquire
<1>7. CASE OpenSpool(o)
  <2>1. \/ /\ spool' = [spool EXCEPT ![o] = TRUE]
           /\ dir'[o] = [present |-> TRUE, age |-> 0]
           /\ pc'[o] = "generating"
           /\ UNCHANGED slot
        \/ /\ pc'[o] \in {"finishing", "delivering"} /\ ~slot'[o]
           /\ UNCHANGED spool
    BY <1>7, FailedFacts DEF OpenSpool, ReleaseGeneration, Stale
  <2>. QED  BY <1>7, <2>1 DEF OpenSpool
<1>8. CASE Generate(o)
  BY <1>8 DEF Generate, ReleaseGeneration
<1>9. CASE GenerationFails(o)
  BY <1>9 DEF GenerationFails, ReleaseGeneration
<1>10. CASE FailureCleaned(o)
  BY <1>10, FailedFacts DEF FailureCleaned, ReleaseSpool
<1>11. CASE Respond(o)
  BY <1>11 DEF Respond
<1>12. CASE BodyEnds(o)
  BY <1>12 DEF BodyEnds
<1>13. CASE Cleaned(o)
  BY <1>13 DEF Cleaned, ReleaseSpool
<1>14. CASE Finish(o)
  BY <1>14 DEF Finish, Gone
<1>15. CASE Purge(o)
  BY <1>15 DEF Purge, Purgeable, NoRow
<1>. QED
  BY <1>1, <1>2, <1>3, <1>4, <1>5, <1>6, <1>7, <1>8, <1>9, <1>10, <1>11,
     <1>12, <1>13, <1>14, <1>15 DEF Step

\* Time, a process that dies and an erasure keep every lease.
LEMMA OtherGood ==
  ASSUME TypeOK, AllGood, NEW q \in Ops,
         \/ Tick
         \/ \E n \in Nodes : Killed(n)
         \/ \E a \in Actors : Erase(a)
  PROVE  Leased(q)' /\ Fenced(q)' /\ Placed(q)' /\ Spooled(q)'
<1>0. Leased(q) /\ Fenced(q) /\ Placed(q) /\ Spooled(q)
  BY DEF AllGood
<1>. USE <1>0, Periods DEF TypeOK, Leased, Fenced, Placed, Spooled, Working
<1>1. CASE Tick
  <2>1. pc' = pc /\ armed' = armed /\ actor' = actor /\ node' = node /\ slot' = slot
        /\ spool' = spool /\ (armed[q] /\ age[q] >= FailStop => age[q] + 1 < Recovery)
    BY <1>1 DEF Tick, Overdue
  <2>2. age'[q] = IF pc[q] = "idle" THEN 0 ELSE IF age[q] < Recovery THEN age[q] + 1 ELSE age[q]
    BY <1>1 DEF Tick, Older
  <2>3. IF entry[q].state = "none" THEN entry'[q] = NoRow
        ELSE /\ entry'[q].state = entry[q].state /\ entry'[q].actor = entry[q].actor
             /\ entry'[q].age = IF entry[q].age < Recovery THEN entry[q].age + 1 ELSE entry[q].age
    BY <1>1 DEF Tick, Older
  <2>4. dir[q].present =>
          /\ dir'[q].present
          /\ dir'[q].age = IF dir[q].age < Recovery + 1 THEN dir[q].age + 1 ELSE dir[q].age
    BY <1>1 DEF Tick, Older
  <2>5. Leased(q)'
    BY <2>1, <2>2, <2>3, SMTT(60)
  <2>6. Fenced(q)'
    BY <2>1, <2>2, SMTT(60)
  <2>7. Placed(q)'
    BY <1>1, <2>1 DEF Tick, NoRow
  <2>8. Spooled(q)'
    BY <2>1, <2>2, <2>4
  <2>. QED  BY <2>5, <2>6, <2>7, <2>8
<1>2. ASSUME NEW n \in Nodes, Killed(n)
      PROVE  Leased(q)' /\ Fenced(q)' /\ Placed(q)' /\ Spooled(q)'
  BY <1>2 DEF Killed
<1>3. ASSUME NEW a \in Actors, Erase(a)
      PROVE  Leased(q)' /\ Fenced(q)' /\ Placed(q)' /\ Spooled(q)'
  <2>1. ~(entry[q].actor = a /\ entry[q].state = "held" /\ entry[q].age < Recovery)
    BY <1>3 DEF Erase, Occupied, Occupies
  <2>. QED  BY <1>3, <2>1 DEF Erase, NoRow
<1>. QED  BY <1>1, <1>2, <1>3

\* A part of a bounded set is bounded.
LEMMA PartBound ==
  ASSUME NEW A, NEW B, IsFiniteSet(B), A \subseteq B, NEW max \in Nat,
         Cardinality(B) <= max
  PROVE  Cardinality(A) <= max
<1>1. Cardinality(A) <= Cardinality(B) /\ IsFiniteSet(A)
  BY FS_Subset
<1>2. Cardinality(A) \in Nat /\ Cardinality(B) \in Nat
  BY <1>1, FS_CardinalityType
<1>. QED  BY <1>1, <1>2

\* Below the limit there is room for one more.
LEMMA OneMore ==
  ASSUME NEW A, NEW B, NEW x, IsFiniteSet(B), A \subseteq B \cup {x},
         NEW max \in Nat, Cardinality(B) < max
  PROVE  Cardinality(A) <= max
<1>1. /\ IsFiniteSet(B \cup {x})
      /\ Cardinality(B \cup {x}) =
           IF x \in B THEN Cardinality(B) ELSE Cardinality(B) + 1
  BY FS_AddElement
<1>2. Cardinality(B) \in Nat
  BY FS_CardinalityType
<1>3. Cardinality(B \cup {x}) <= max
  BY <1>1, <1>2
<1>. QED  BY <1>1, <1>3, PartBound

\* Sets of exports can be counted.
LEMMA OpsFinite ==
  ASSUME NEW S \in SUBSET Ops
  PROVE  IsFiniteSet(S) /\ Cardinality(S) \in Nat
<1>1. IsFiniteSet(Ops)
  BY ExportAssumption
<1>2. IsFiniteSet(S)
  BY <1>1, FS_Subset
<1>. QED  BY <1>2, FS_CardinalityType

\* Only an admission occupies a slot, and only a free one.
LEMMA RowsStep ==
  ASSUME TypeOK, AllGood, RowsBounded, [Next]_vars
  PROVE  RowsBounded'
<1>. SUFFICES ASSUME NEW a \in Actors
              PROVE  Cardinality(Occupied(a)') <= ActiveLimit
  BY DEF RowsBounded
<1>0. /\ Occupied(a) \in SUBSET Ops /\ IsFiniteSet(Occupied(a))
      /\ Cardinality(Occupied(a)) \in Nat /\ Cardinality(Occupied(a)) <= ActiveLimit
      /\ ActiveLimit \in Nat
  BY OpsFinite, Periods DEF Occupied, RowsBounded
<1>1. ASSUME NEW o \in Ops, Admit(o), actor[o] = a
      PROVE  Cardinality(Occupied(a)') <= ActiveLimit
  <2>1. Occupied(a)' \subseteq Occupied(a) \cup {o}
    <3>. SUFFICES ASSUME NEW q \in Occupied(a)', q # o PROVE q \in Occupied(a)
      OBVIOUS
    <3>1. q \in Ops /\ entry'[q] = entry[q]
      BY <1>1 DEF Admit, TypeOK, Occupied
    <3>. QED  BY <3>1 DEF Occupied, Occupies
  <2>2. Cardinality(Occupied(a)) < ActiveLimit
    BY <1>1 DEF Admit
  <2>. QED  BY <1>0, <2>1, <2>2, OneMore
<1>2. ASSUME \A o \in Ops : ~(Admit(o) /\ actor[o] = a)
      PROVE  Occupied(a)' \subseteq Occupied(a)
  <2>. USE DEF Occupied, Occupies, TypeOK
  <2>1. CASE UNCHANGED vars
    BY <2>1 DEF vars
  <2>2. CASE Tick
    BY <2>2, Periods DEF Tick, Older, NoRow
  <2>3. ASSUME NEW n \in Nodes, Killed(n)
        PROVE  Occupied(a)' \subseteq Occupied(a)
    BY <2>3 DEF Killed
  <2>4. ASSUME NEW b \in Actors, Erase(b)
        PROVE  Occupied(a)' \subseteq Occupied(a)
    BY <2>4 DEF Erase, NoRow
  <2>5. ASSUME NEW o \in Ops, Step(o)
        PROVE  Occupied(a)' \subseteq Occupied(a)
    <3>1. entry'[o] = entry[o] \/ entry'[o].actor # a \/ entry'[o].state # "held"
      <4>1. CASE Admit(o)
        BY <1>2, <4>1 DEF Admit
      <4>2. CASE Finish(o)
        BY <4>2 DEF Finish
      <4>3. CASE Purge(o)
        BY <4>3 DEF Purge, NoRow
      <4>4. CASE entry' = entry
        BY <4>4
      <4>. QED
        BY <2>5, <4>1, <4>2, <4>3, <4>4
        DEF Step, Request, Refuse, Arm, Abort, Acquire, OpenSpool, Generate,
            GenerationFails, FailureCleaned, Respond, BodyEnds, Cleaned
    <3>. QED  BY <2>5, <3>1, Others
  <2>. QED  BY <2>1, <2>2, <2>3, <2>4, <2>5 DEF Next, Crash, Watchdog
<1>. QED  BY <1>0, <1>1, <1>2, PartBound

\* The inductive invariant.
LEMMA InitIInv == Init => IInv
<1>. SUFFICES ASSUME Init PROVE IInv
  OBVIOUS
<1>1. AllGood
  BY DEF Init, AllGood, Leased, Fenced, Placed, Spooled, Working
<1>2. \A a \in Actors : Occupied(a) = {}
  BY DEF Init, Occupied, Occupies, NoRow
<1>. QED  BY <1>1, <1>2, InitTypeOK, FS_EmptySet, Periods DEF IInv, RowsBounded

LEMMA NextIInv == IInv /\ [Next]_vars => IInv'
<1>. SUFFICES ASSUME IInv, [Next]_vars PROVE IInv'
  OBVIOUS
<1>. USE DEF IInv
<1>1. ASSUME NEW q \in Ops
      PROVE  Leased(q)' /\ Fenced(q)' /\ Placed(q)' /\ Spooled(q)'
  <2>0. Leased(q) /\ Fenced(q) /\ Placed(q) /\ Spooled(q)
    BY DEF AllGood
  <2>1. CASE UNCHANGED vars
    BY <2>0, <2>1 DEF vars, Leased, Fenced, Placed, Spooled
  <2>2. ASSUME NEW o \in Ops, Step(o), o # q
        PROVE  Leased(q)' /\ Fenced(q)' /\ Placed(q)' /\ Spooled(q)'
    BY <2>0, <2>2, Others DEF Leased, Fenced, Placed, Spooled
  <2>. QED  BY <2>1, <2>2, OwnStep, OtherGood DEF Next, Crash, Watchdog
<1>2. AllGood'
  BY <1>1 DEF AllGood
<1>. QED  BY <1>2, NextTypeOK, RowsStep

LEMMA Invariance == Spec => []IInv
  BY InitIInv, NextIInv, PTL DEF Spec

\* An export at work occupies a slot of the actor it works for.
LEMMA WorkOccupies ==
  ASSUME IInv, NEW o \in Ops, pc[o] \in Working
  PROVE  Occupies(o) /\ entry[o].actor = actor[o]
<1>1. Leased(o) /\ Fenced(o)
  BY DEF IInv, AllGood
<1>2. age[o] \in Nat /\ entry[o].age \in Nat /\ Recovery \in Nat
  BY Periods DEF IInv, TypeOK
<1>. QED  BY <1>1, <1>2 DEF Leased, Fenced, Occupies

\* Nothing frees the slot of an export at work: the watchdog ends the export
\* before its row expires, and until then every other way is closed.
THEOREM SlotHeld == Spec => []HoldsSlot
<1>1. ASSUME IInv
      PROVE  HoldsSlot
  BY <1>1, WorkOccupies DEF HoldsSlot
<1>. QED  BY <1>1, Invariance, PTL

\* The limit of an actor holds for its exports at work on all nodes.
THEOREM WithinLimit == Spec => []ActorWithinLimit
<1>1. ASSUME IInv
      PROVE  ActorWithinLimit
  <2>. SUFFICES ASSUME NEW a \in Actors
                PROVE  Cardinality({o \in Ops : actor[o] = a /\ pc[o] \in Working})
                         <= ActiveLimit
    BY DEF ActorWithinLimit
  <2>1. {o \in Ops : actor[o] = a /\ pc[o] \in Working} \subseteq Occupied(a)
    BY <1>1, WorkOccupies DEF Occupied
  <2>2. IsFiniteSet(Occupied(a)) /\ Cardinality(Occupied(a)) <= ActiveLimit
    BY <1>1, OpsFinite DEF IInv, RowsBounded, Occupied
  <2>. QED  BY <2>1, <2>2, PartBound, Periods
<1>. QED  BY <1>1, Invariance, PTL

\* No start-up cleanup removes the directory of an export that still uses it.
THEOREM SpoolsKept == Spec => []SpoolKept
<1>1. IInv => SpoolKept
  BY DEF IInv, AllGood, Spooled, SpoolKept
<1>. QED  BY <1>1, Invariance, PTL

-----------------------------------------------------------------------------
(***************************************************************************)
(* The counters of a process.                                              *)
(***************************************************************************)
Holders(nd, f, n) == {o \in Ops : nd[o] = n /\ f[o]}

Exact(c, nd, f) == \A n \in Nodes : c[n] = Cardinality(Holders(nd, f, n))

Counters == [Nodes -> Nat]
Flags == [Ops -> BOOLEAN]

\* Taking a unit raises the counter of the export's process by one.
LEMMA TakeExact ==
  ASSUME NEW c \in Counters, NEW f \in Flags, NEW nd, Exact(c, nd, f),
         NEW o \in Ops, ~f[o]
  PROVE  Exact([c EXCEPT ![nd[o]] = @ + 1], nd, [f EXCEPT ![o] = TRUE])
<1>. DEFINE g == [f EXCEPT ![o] = TRUE]
            d == [c EXCEPT ![nd[o]] = @ + 1]
<1>. SUFFICES ASSUME NEW n \in Nodes PROVE d[n] = Cardinality(Holders(nd, g, n))
  BY DEF Exact
<1>1. IsFiniteSet(Holders(nd, f, n)) /\ c[n] = Cardinality(Holders(nd, f, n))
  BY OpsFinite DEF Holders, Exact
<1>2. CASE n = nd[o]
  <2>1. Holders(nd, g, n) = Holders(nd, f, n) \cup {o} /\ o \notin Holders(nd, f, n)
    BY <1>2 DEF Holders, Flags
  <2>2. Cardinality(Holders(nd, g, n)) = Cardinality(Holders(nd, f, n)) + 1
    BY <1>1, <2>1, FS_AddElement
  <2>. QED  BY <1>1, <1>2, <2>2 DEF Counters
<1>3. CASE n # nd[o]
  <2>1. Holders(nd, g, n) = Holders(nd, f, n)
    BY <1>3 DEF Holders, Flags
  <2>. QED  BY <1>1, <1>3, <2>1 DEF Counters
<1>. QED  BY <1>2, <1>3

\* Giving a unit back, once or again, lowers it only if the export held one.
LEMMA GiveExact ==
  ASSUME NEW c \in Counters, NEW f \in Flags, NEW nd, Exact(c, nd, f), NEW o \in Ops
  PROVE  Exact([c EXCEPT ![nd[o]] = IF f[o] THEN OneLess(@) ELSE @], nd,
               [f EXCEPT ![o] = FALSE])
<1>. DEFINE g == [f EXCEPT ![o] = FALSE]
            d == [c EXCEPT ![nd[o]] = IF f[o] THEN OneLess(@) ELSE @]
<1>. SUFFICES ASSUME NEW n \in Nodes PROVE d[n] = Cardinality(Holders(nd, g, n))
  BY DEF Exact
<1>1. /\ IsFiniteSet(Holders(nd, f, n)) /\ c[n] = Cardinality(Holders(nd, f, n))
      /\ c[n] \in Nat
  BY OpsFinite DEF Holders, Exact, Counters
<1>2. CASE n = nd[o] /\ f[o]
  <2>1. Holders(nd, g, n) = Holders(nd, f, n) \ {o} /\ o \in Holders(nd, f, n)
    BY <1>2 DEF Holders, Flags
  <2>2. Cardinality(Holders(nd, g, n)) = Cardinality(Holders(nd, f, n)) - 1
    BY <1>1, <2>1, FS_RemoveElement
  <2>3. Cardinality(Holders(nd, g, n)) \in Nat
    BY OpsFinite DEF Holders
  <2>4. OneLess(c[n]) = c[n] - 1
    BY <1>1, <2>2, <2>3, Lowered
  <2>. QED  BY <1>1, <1>2, <2>2, <2>4 DEF Counters
<1>3. CASE ~(n = nd[o] /\ f[o])
  <2>1. Holders(nd, g, n) = Holders(nd, f, n)
    BY <1>3 DEF Holders, Flags
  <2>. QED  BY <1>1, <1>3, <2>1 DEF Counters
<1>. QED  BY <1>2, <1>3

\* Who comes or goes without holding anything is not counted.
LEMMA SameExact ==
  ASSUME NEW c, NEW f, NEW nd, NEW md, Exact(c, nd, f),
         \A o \in Ops : f[o] => md[o] = nd[o]
  PROVE  Exact(c, md, f)
<1>1. \A n \in Nodes : Holders(md, f, n) = Holders(nd, f, n)
  BY DEF Holders
<1>. QED  BY <1>1 DEF Exact

LEMMA CountersStep ==
  ASSUME IInv, CountersExact, [Next]_vars
  PROVE  CountersExact'
<1>0. /\ Exact(pool, node, slot) /\ Exact(reserved, node, spool)
      /\ pool \in Counters /\ reserved \in Counters /\ slot \in Flags /\ spool \in Flags
  BY DEF CountersExact, IInv, TypeOK, Exact, Holders, Counters, Flags
<1>. SUFFICES Exact(pool', node', slot') /\ Exact(reserved', node', spool')
  BY DEF CountersExact, Exact, Holders
<1>1. CASE UNCHANGED <<pool, reserved, slot, spool>> /\ \A o \in Ops : slot[o] \/ spool[o] => node'[o] = node[o]
  BY <1>0, <1>1, SameExact
<1>2. ASSUME NEW o \in Ops, node' = node, ReleaseGeneration(o), UNCHANGED <<reserved, spool>>
      PROVE  Exact(pool', node', slot') /\ Exact(reserved', node', spool')
  BY <1>0, <1>2, GiveExact DEF ReleaseGeneration
<1>3. ASSUME NEW o \in Ops, node' = node, ReleaseSpool(o), UNCHANGED <<pool, slot>>
      PROVE  Exact(pool', node', slot') /\ Exact(reserved', node', spool')
  BY <1>0, <1>3, GiveExact DEF ReleaseSpool
<1>4. ASSUME NEW n \in Nodes, Killed(n)
      PROVE  Exact(pool', node', slot') /\ Exact(reserved', node', spool')
  <2>. SUFFICES ASSUME NEW m \in Nodes
                PROVE  /\ pool'[m] = Cardinality(Holders(node', slot', m))
                       /\ reserved'[m] = Cardinality(Holders(node', spool', m))
    BY DEF Exact
  <2>1. CASE m = n
    <3>1. Holders(node', slot', m) = {} /\ Holders(node', spool', m) = {}
      BY <1>4, <2>1 DEF Killed, Holders
    <3>. QED  BY <1>0, <1>4, <2>1, <3>1, FS_EmptySet DEF Killed, Counters
  <2>2. CASE m # n
    <3>1. /\ Holders(node', slot', m) = Holders(node, slot, m)
          /\ Holders(node', spool', m) = Holders(node, spool, m)
      BY <1>4, <2>2, ExportAssumption DEF Killed, Holders
    <3>. QED  BY <1>0, <1>4, <2>2, <3>1 DEF Killed, Counters, Exact
  <2>. QED  BY <2>1, <2>2
<1>5. ASSUME NEW o \in Ops, Step(o)
      PROVE  Exact(pool', node', slot') /\ Exact(reserved', node', spool')
  <2>0. Spooled(o) /\ (pc[o] \in {"idle", "admitting", "finishing"} => ~slot[o] /\ ~spool[o])
    BY DEF IInv, AllGood, Spooled
  <2>1. CASE Request(o) \/ Admit(o) \/ Refuse(o) \/ Arm(o) \/ Abort(o) \/ Respond(o)
             \/ BodyEnds(o) \/ Finish(o) \/ Purge(o)
    <3>1. UNCHANGED <<pool, reserved, slot, spool>>
      BY <2>1 DEF Request, Admit, Refuse, Arm, Abort, Respond, BodyEnds, Finish, Purge
    <3>2. \A q \in Ops : slot[q] \/ spool[q] => node'[q] = node[q]
      <4>1. \A q \in Ops : q # o => node'[q] = node[q]
        BY <1>5, Others DEF IInv
      <4>2. node'[o] = node[o] \/ pc[o] \in {"idle", "admitting", "finishing"}
        BY <2>1 DEF Request, Admit, Refuse, Arm, Abort, Respond, BodyEnds, Finish, Purge
      <4>. QED  BY <2>0, <4>1, <4>2
    <3>. QED  BY <1>1, <3>1, <3>2
  <2>2. CASE Acquire(o)
    <3>1. CASE pool' = pool
      <4>1. UNCHANGED <<pool, reserved, slot, spool, node>>
        BY <1>0, <2>2, <3>1 DEF Acquire, Counters, IInv, AllGood, Placed
      <4>. QED  BY <1>1, <4>1
    <3>2. CASE pool' # pool
      <4>1. /\ pool' = [pool EXCEPT ![node[o]] = @ + 1] /\ slot' = [slot EXCEPT ![o] = TRUE]
            /\ UNCHANGED <<reserved, spool, node>> /\ ~slot[o]
        BY <2>0, <2>2, <3>2 DEF Acquire, Spooled
      <4>. QED  BY <1>0, <4>1, TakeExact
    <3>. QED  BY <3>1, <3>2
  <2>3. CASE OpenSpool(o)
    <3>1. CASE ReleaseGeneration(o) /\ UNCHANGED <<reserved, spool, node>>
      BY <1>2, <3>1
    <3>2. CASE /\ reserved' = [reserved EXCEPT ![node[o]] = @ + 1]
               /\ spool' = [spool EXCEPT ![o] = TRUE]
               /\ UNCHANGED <<pool, slot, node>>
      <4>1. ~spool[o]
        BY <2>0, <2>3 DEF OpenSpool, Spooled
      <4>. QED  BY <1>0, <3>2, <4>1, TakeExact
    <3>. QED  BY <2>3, <3>1, <3>2 DEF OpenSpool
  <2>4. CASE Generate(o) \/ GenerationFails(o)
    BY <1>2, <2>4 DEF Generate, GenerationFails
  <2>5. CASE FailureCleaned(o) \/ Cleaned(o)
    BY <1>3, <2>5 DEF FailureCleaned, Cleaned
  <2>. QED  BY <1>5, <2>1, <2>2, <2>3, <2>4, <2>5 DEF Step
<1>6. CASE UNCHANGED vars \/ Tick \/ \E a \in Actors : Erase(a)
  BY <1>1, <1>6 DEF vars, Tick, Erase
<1>. QED  BY <1>4, <1>5, <1>6 DEF Next, Crash, Watchdog

\* A process's counters never drift from what its exports hold.
THEOREM CountersNeverDrift == Spec => []CountersExact
<1>1. ASSUME Init
      PROVE  CountersExact
  <2>1. \A n \in Nodes : /\ {o \in Ops : node[o] = n /\ slot[o]} = {}
                         /\ {o \in Ops : node[o] = n /\ spool[o]} = {}
    BY <1>1 DEF Init
  <2>. QED  BY <1>1, <2>1, FS_EmptySet DEF Init, CountersExact
<1>2. IInv /\ CountersExact /\ [Next]_vars => CountersExact'
  BY CountersStep
<1>. QED  BY <1>1, <1>2, Invariance, PTL DEF Spec

-----------------------------------------------------------------------------
(***************************************************************************)
(* The rate of an actor.                                                   *)
(***************************************************************************)
\* The rows of an actor, in the window and of one age.
Young(e, a) == {o \in Ops : e[o].actor = a /\ e[o].age < Window}
Aged(e, a, k) == {o \in Ops : e[o].actor = a /\ e[o].age = k}

\* While a start is in the window, its row is there to be counted: neither a
\* release nor the clean-up removes it, and an erasure forgets both.
RateInv ==
  /\ \A o \in Ops : entry[o].state = "none" => entry[o] = NoRow
  /\ \A a \in Actors : Cardinality(Young(entry, a)) <= StartLimit
  /\ \A a \in Actors : \A k \in 0 .. Window - 1 : starts[a][k] = Cardinality(Aged(entry, a, k))

LEMMA RateInitially == Init => RateInv
<1>. SUFFICES ASSUME Init PROVE RateInv
  OBVIOUS
<1>1. \A a \in Actors : Young(entry, a) = {} /\ \A k : Aged(entry, a, k) = {}
  BY ExportAssumption DEF Init, Young, Aged, NoRow
<1>0. Cardinality({}) = 0
  BY FS_EmptySet
<1>2. \A a \in Actors : Cardinality(Young(entry, a)) <= StartLimit
  BY <1>0, <1>1, Periods
<1>3. \A a \in Actors : \A k \in 0 .. Window - 1 : starts[a][k] = Cardinality(Aged(entry, a, k))
  BY <1>0, <1>1 DEF Init
<1>4. \A o \in Ops : entry[o].state = "none" => entry[o] = NoRow
  BY DEF Init
<1>. QED  BY <1>2, <1>3, <1>4 DEF RateInv

\* QuotaRows whose actors and ages stay keep what is counted of them.
LEMMA RateSame ==
  ASSUME RateInv, UNCHANGED starts,
         \A o \in Ops : entry'[o].state = "none" => entry'[o] = NoRow,
         \A o \in Ops : entry'[o].actor = entry[o].actor /\ entry'[o].age = entry[o].age
  PROVE  RateInv'
<1>1. \A a \in Actors : Young(entry', a) = Young(entry, a) /\ \A k : Aged(entry', a, k) = Aged(entry, a, k)
  BY DEF Young, Aged
<1>. QED  BY <1>1 DEF RateInv

\* An admission adds one row and one start.
LEMMA RateAdmit ==
  ASSUME IInv, RateInv, NEW o \in Ops, Admit(o)
  PROVE  RateInv'
<1>0. actor[o] \in Actors /\ entry[o] = NoRow
  BY DEF Admit, IInv, AllGood, Placed
<1>. PICK a \in Actors : a = actor[o]
  BY <1>0
<1>. DEFINE r == [state |-> "held", actor |-> a, age |-> 0]
<1>1. a # NoActor /\ entry[o] = NoRow
  BY <1>0, ExportAssumption
<1>2. /\ entry' = [entry EXCEPT ![o] = r]
      /\ starts' = [starts EXCEPT ![a] = [starts[a] EXCEPT ![0] = @ + 1]]
      /\ Cardinality(Young(entry, a)) < StartLimit
  BY DEF Admit, Recent, Young
<1>3. \A q \in Ops : entry'[q] = IF q = o THEN r ELSE entry[q]
  BY <1>2 DEF IInv, TypeOK
<1>4. r.actor = a /\ r.age = 0 /\ r.state = "held"
  OBVIOUS
<1>. HIDE DEF r
<1>5. \A q \in Ops : entry'[q].state = "none" => entry'[q] = NoRow
  BY <1>3, <1>4 DEF RateInv
<1>6. \A b \in Actors : b # a => Young(entry', b) = Young(entry, b) /\ \A k : Aged(entry', b, k) = Aged(entry, b, k)
  BY <1>1, <1>3, <1>4, ExportAssumption DEF Young, Aged, NoRow
<1>7. Young(entry', a) \subseteq Young(entry, a) \cup {o}
  BY <1>3 DEF Young
<1>8. Cardinality(Young(entry', a)) <= StartLimit
  <2>1. IsFiniteSet(Young(entry, a))
    BY OpsFinite DEF Young
  <2>. QED  BY <1>2, <1>7, <2>1, OneMore, Periods
<1>9. \A k : k # 0 => Aged(entry', a, k) = Aged(entry, a, k)
  BY <1>1, <1>3, <1>4, ExportAssumption DEF Aged, NoRow
<1>10. Aged(entry', a, 0) = Aged(entry, a, 0) \cup {o} /\ o \notin Aged(entry, a, 0)
  BY <1>1, <1>3, <1>4, ExportAssumption DEF Aged, NoRow
<1>11. Cardinality(Aged(entry', a, 0)) = Cardinality(Aged(entry, a, 0)) + 1
  <2>1. IsFiniteSet(Aged(entry, a, 0))
    BY OpsFinite DEF Aged
  <2>. QED  BY <1>10, <2>1, FS_AddElement
<1>12. \A k \in 0 .. Window - 1 : starts[a][k] = Cardinality(Aged(entry, a, k))
  BY <1>1 DEF RateInv
<1>13. \A k \in 0 .. Window - 1 : starts'[a][k] = IF k = 0 THEN starts[a][0] + 1 ELSE starts[a][k]
  BY <1>1, <1>2 DEF IInv, TypeOK
<1>14. \A k \in 0 .. Window - 1 : starts'[a][k] = Cardinality(Aged(entry', a, k))
  BY <1>9, <1>11, <1>12, <1>13
<1>15. \A b \in Actors : b # a => starts'[b] = starts[b]
  BY <1>1, <1>2 DEF IInv, TypeOK
<1>16. \A b \in Actors : Cardinality(Young(entry', b)) <= StartLimit
  BY <1>6, <1>8 DEF RateInv
<1>17. \A b \in Actors : \A k \in 0 .. Window - 1 : starts'[b][k] = Cardinality(Aged(entry', b, k))
  BY <1>6, <1>14, <1>15 DEF RateInv
<1>. QED  BY <1>5, <1>16, <1>17 DEF RateInv

\* Only rows that have left the window are purged.
LEMMA RatePurge ==
  ASSUME IInv, RateInv, NEW o \in Ops, Purge(o)
  PROVE  RateInv'
<1>1. /\ entry[o].age >= Recovery /\ entry[o].age \in Nat /\ UNCHANGED starts
      /\ \A q \in Ops : entry'[q] = IF q = o THEN NoRow ELSE entry[q]
  BY DEF Purge, Purgeable, IInv, TypeOK
<1>2. \A a \in Actors : Young(entry', a) = Young(entry, a)
  BY <1>1, Periods, ExportAssumption DEF Young, NoRow
<1>3. \A a \in Actors : \A k \in 0 .. Window - 1 : Aged(entry', a, k) = Aged(entry, a, k)
  BY <1>1, Periods, ExportAssumption DEF Aged, NoRow
<1>4. \A q \in Ops : entry'[q].state = "none" => entry'[q] = NoRow
  BY <1>1 DEF RateInv
<1>. QED  BY <1>1, <1>2, <1>3, <1>4 DEF RateInv

\* An erasure forgets the rows and the starts of one actor.
LEMMA RateErase ==
  ASSUME IInv, RateInv, NEW b \in Actors, Erase(b)
  PROVE  RateInv'
<1>1. /\ \A o \in Ops : entry'[o] = IF entry[o].actor = b THEN NoRow ELSE entry[o]
      /\ starts' = [starts EXCEPT ![b] = [k \in 0 .. Window - 1 |-> 0]]
  BY DEF Erase
<1>2. \A k \in 0 .. Window - 1 : starts'[b][k] = 0
  BY <1>1 DEF IInv, TypeOK
<1>3. \A a \in Actors : a # b => starts'[a] = starts[a]
  BY <1>1 DEF IInv, TypeOK
<1>4. Young(entry', b) = {} /\ \A k : Aged(entry', b, k) = {}
  BY <1>1, ExportAssumption DEF Young, Aged, NoRow
<1>5. \A a \in Actors : a # b =>
        Young(entry', a) = Young(entry, a) /\ \A k : Aged(entry', a, k) = Aged(entry, a, k)
  BY <1>1, ExportAssumption DEF Young, Aged, NoRow
<1>6. \A o \in Ops : entry'[o].state = "none" => entry'[o] = NoRow
  BY <1>1 DEF RateInv
<1>0. Cardinality({}) = 0
  BY FS_EmptySet
<1>7. \A a \in Actors : Cardinality(Young(entry', a)) <= StartLimit
  BY <1>0, <1>4, <1>5, Periods DEF RateInv
<1>8. \A a \in Actors : \A k \in 0 .. Window - 1 : starts'[a][k] = Cardinality(Aged(entry', a, k))
  BY <1>0, <1>2, <1>3, <1>4, <1>5 DEF RateInv
<1>. QED  BY <1>6, <1>7, <1>8 DEF RateInv

\* QuotaRows and starts grow older together.
LEMMA RateTick ==
  ASSUME IInv, RateInv, Tick
  PROVE  RateInv'
<1>1. \A o \in Ops : /\ entry[o].age \in 0 .. Recovery
                     /\ entry[o].state = "none" => entry[o] = NoRow
                     /\ entry[o].actor \in Actors => entry[o].state # "none"
  BY ExportAssumption DEF IInv, TypeOK, RateInv, NoRow
<1>2. \A o \in Ops :
        IF entry[o].state = "none" THEN entry'[o] = NoRow
        ELSE /\ entry'[o].state = entry[o].state /\ entry'[o].actor = entry[o].actor
             /\ entry'[o].age = IF entry[o].age < Recovery THEN entry[o].age + 1
                                ELSE entry[o].age
  BY DEF Tick, Older, IInv, TypeOK
<1>3. \A o \in Ops : entry'[o].state = "none" => entry'[o] = NoRow
  BY <1>2
<1>4. ASSUME NEW a \in Actors
      PROVE  /\ Young(entry', a) \subseteq Young(entry, a)
             /\ Aged(entry', a, 0) = {}
             /\ \A k \in 0 .. Window - 1 : k # 0 => Aged(entry', a, k) = Aged(entry, a, k - 1)
  <2>1. \A o \in Ops : entry'[o].actor = a =>
          entry[o].actor = a /\ entry[o].state # "none"
    BY <1>2, ExportAssumption DEF NoRow
  <2>2. \A o \in Ops : entry[o].actor = a =>
          entry[o].state # "none" /\ entry'[o].actor = a
    BY <1>1, <1>2
  <2>3. Young(entry', a) \subseteq Young(entry, a)
    BY <1>1, <1>2, <2>1, Periods DEF Young
  <2>4. Aged(entry', a, 0) = {}
    BY <1>1, <1>2, <2>1, Periods DEF Aged
  <2>5. ASSUME NEW k \in 0 .. Window - 1, k # 0
        PROVE  Aged(entry', a, k) = Aged(entry, a, k - 1)
    BY <1>1, <1>2, <2>1, <2>2, <2>5, Periods DEF Aged
  <2>. QED  BY <2>3, <2>4, <2>5
<1>5. ASSUME NEW a \in Actors
      PROVE  Cardinality(Young(entry', a)) <= StartLimit
  <2>1. IsFiniteSet(Young(entry, a)) /\ Cardinality(Young(entry, a)) <= StartLimit
    BY OpsFinite DEF Young, RateInv
  <2>. QED  BY <1>4, <2>1, PartBound, Periods
<1>6. ASSUME NEW a \in Actors, NEW k \in 0 .. Window - 1
      PROVE  starts'[a][k] = Cardinality(Aged(entry', a, k))
  <2>1. starts'[a][k] = IF k = 0 THEN 0 ELSE starts[a][k - 1]
    BY DEF Tick
  <2>2. CASE k = 0
    BY <1>4, <2>1, <2>2, FS_EmptySet
  <2>3. CASE k # 0
    <3>1. k - 1 \in 0 .. Window - 1
      BY <2>3, Periods
    <3>2. starts[a][k - 1] = Cardinality(Aged(entry, a, k - 1))
      BY <3>1 DEF RateInv
    <3>. QED  BY <1>4, <2>1, <2>3, <3>2
  <2>. QED  BY <2>2, <2>3
<1>. QED  BY <1>3, <1>5, <1>6 DEF RateInv

LEMMA RateStep ==
  ASSUME IInv, RateInv, [Next]_vars
  PROVE  RateInv'
<1>1. CASE UNCHANGED <<entry, starts>>
  BY <1>1, RateSame DEF RateInv
<1>2. ASSUME NEW o \in Ops, Finish(o)
      PROVE  RateInv'
  <2>1. /\ entry[o].state = "none" => entry[o] = NoRow
        /\ \A q \in Ops : q # o => entry'[q] = entry[q]
        /\ entry'[o].actor = entry[o].actor /\ entry'[o].age = entry[o].age
        /\ entry'[o].state = "none" => entry'[o] = entry[o] /\ entry[o].state = "none"
        /\ UNCHANGED starts
    BY <1>2 DEF Finish, IInv, TypeOK, RateInv
  <2>2. \A q \in Ops : entry'[q].state = "none" => entry'[q] = NoRow
    BY <2>1 DEF RateInv
  <2>3. \A q \in Ops : entry'[q].actor = entry[q].actor /\ entry'[q].age = entry[q].age
    BY <2>1
  <2>. QED  BY <2>1, <2>2, <2>3, RateSame
<1>3. ASSUME NEW o \in Ops, Step(o)
      PROVE  \/ Admit(o) \/ Finish(o) \/ Purge(o)
             \/ UNCHANGED <<entry, starts>>
  BY <1>3 DEF Step, Request, Refuse, Arm, Abort, Acquire, OpenSpool, Generate,
              GenerationFails, FailureCleaned, Respond, BodyEnds, Cleaned
<1>4. UNCHANGED vars \/ (\E n \in Nodes : Killed(n)) => UNCHANGED <<entry, starts>>
  BY DEF vars, Killed
<1>. QED
  BY <1>1, <1>2, <1>3, <1>4, RateAdmit, RatePurge, RateErase, RateTick
     DEF Next, Crash, Watchdog

\* However exports end, and whatever is released, purged or erased, no window
\* of an actor holds more admissions than the limit
\* (acquireExportActorQuotaEntry).
THEOREM RateIsRespected == Spec => []RateRespected
<1>1. ASSUME IInv, RateInv
      PROVE  RateRespected
  <2>. SUFFICES ASSUME NEW a \in Actors
                PROVE  SumFunctionOnSet(starts[a], 0 .. Window - 1) <= StartLimit
    BY DEF RateRespected
  <2>. DEFINE K == 0 .. Window - 1
              T == Young(entry, a)
              label == [o \in T |-> entry[o].age]
              counts == [k \in K |-> Cardinality({o \in T : label[o] = k})]
  <2>1. IsFiniteSet(T) /\ Cardinality(T) <= StartLimit
    BY <1>1, OpsFinite DEF Young, RateInv
  <2>2. IsFiniteSet(K)
    BY Periods, FS_Interval
  <2>3. label \in [T -> K]
    BY <1>1, Periods DEF Young, IInv, TypeOK
  <2>4. ASSUME NEW k \in K
        PROVE  starts[a][k] = counts[k]
    <3>1. {o \in T : label[o] = k} = Aged(entry, a, k)
      BY Periods DEF Young, Aged
    <3>. QED  BY <1>1, <3>1 DEF RateInv
  <2>. HIDE DEF K, T, label
  <2>5. SumFunctionOnSet(counts, K) = Cardinality(T)
    BY <2>1, <2>2, <2>3, SumOfCounts
  <2>. HIDE DEF counts
  <2>6. SumFunctionOnSet(starts[a], K) = SumFunctionOnSet(counts, K)
    BY <2>2, <2>4, SumAgree
  <2>. QED  BY <2>1, <2>5, <2>6 DEF K
<1>2. IInv /\ RateInv /\ [Next]_vars => RateInv'
  BY RateStep
<1>. QED  BY <1>1, <1>2, RateInitially, Invariance, PTL DEF Spec

-----------------------------------------------------------------------------
(***************************************************************************)
(* The quota implements the semaphore of ExportSlots.                      *)
(***************************************************************************)
AtWork == [a \in Actors |-> {o \in Ops : actor[o] = a /\ pc[o] \in Working}]

LEMMA SlotsCardinality == \A S : Slots!Cardinality(S) = Cardinality(S)
  BY DEF Slots!Cardinality, Cardinality

\* What is at work for an actor occupies the actor's slots.
LEMMA AtWorkOccupies ==
  ASSUME IInv, NEW a \in Actors
  PROVE  AtWork[a] \subseteq Occupied(a)
  BY WorkOccupies DEF AtWork, Occupied

\* A step that lets nobody in is a stutter or a departure.
LEMMA OnlyOut ==
  ASSUME \A a \in Actors : AtWork'[a] \subseteq AtWork[a]
  PROVE  [Slots!Next]_(AtWork)
<1>1. AtWork' # AtWork => Slots!Leave
  BY DEF Slots!Leave, AtWork
<1>. QED  BY <1>1 DEF Slots!Next

LEMMA SlotsStep ==
  ASSUME IInv, IInv', [Next]_vars
  PROVE  [Slots!Next]_(AtWork)
<1>0. ASSUME NEW o \in Ops, pc[o] = "admitted"
      PROVE  \E a \in Actors : a = actor[o]
  BY <1>0 DEF IInv, AllGood, Placed
<1>1. ASSUME NEW o \in Ops, NEW a \in Actors, a = actor[o], Arm(o), pc'[o] = "acquiring"
      PROVE  Slots!Next
  <2>1. a \in Actors /\ pc[o] = "admitted" /\ age[o] < Recovery
    <3>1. Placed(o) /\ age[o] \in Nat
      BY DEF IInv, AllGood, TypeOK
    <3>2. pc[o] = "admitted" /\ age[o] < Lifetime
      BY <1>1, <3>1, Periods DEF Arm, IInv, TypeOK
    <3>. QED  BY <3>1, <3>2, Periods DEF Placed
  <2>2. o \in Occupied(a) /\ o \notin AtWork[a]
    <3>1. Leased(o) /\ entry[o].age \in Nat /\ age[o] \in Nat
      BY DEF IInv, AllGood, TypeOK
    <3>2. o \in Occupied(a)
      BY <1>1, <2>1, <3>1, Periods DEF Leased, Occupied, Occupies
    <3>. QED  BY <2>1, <3>2 DEF AtWork, Working
  <2>3. AtWork[a] \subseteq Occupied(a) \ {o}
    BY <2>1, <2>2, AtWorkOccupies
  <2>4. Cardinality(AtWork[a]) < ActiveLimit
    <3>1. /\ IsFiniteSet(Occupied(a)) /\ Cardinality(Occupied(a)) \in Nat
          /\ Cardinality(Occupied(a)) <= ActiveLimit
      BY <2>1, OpsFinite DEF IInv, RowsBounded, Occupied
    <3>2. /\ IsFiniteSet(Occupied(a) \ {o})
          /\ Cardinality(Occupied(a) \ {o}) = Cardinality(Occupied(a)) - 1
      BY <2>2, <3>1, FS_RemoveElement
    <3>3. IsFiniteSet(AtWork[a]) /\ Cardinality(AtWork[a]) <= Cardinality(Occupied(a) \ {o})
      BY <2>3, <3>2, FS_Subset
    <3>4. Cardinality(AtWork[a]) \in Nat
      BY <3>3, FS_CardinalityType
    <3>. QED  BY <3>1, <3>2, <3>3, <3>4, Periods
  <2>5. AtWork' = [AtWork EXCEPT ![a] = @ \cup {o}]
    <3>1. actor' = actor /\ pc' = [pc EXCEPT ![o] = "acquiring"]
      BY <1>1 DEF Arm, IInv, TypeOK
    <3>2. pc'[o] \in Working /\ \A q \in Ops : q # o => pc'[q] = pc[q]
      BY <3>1 DEF IInv, TypeOK, Working
    <3>3. \A b \in Actors : AtWork'[b] = IF b = a THEN AtWork[b] \cup {o} ELSE AtWork[b]
      BY <1>1, <2>1, <3>1, <3>2 DEF AtWork, Working
    <3>4. /\ AtWork = [b \in Actors |-> AtWork[b]]
          /\ AtWork' = [b \in Actors |-> AtWork'[b]]
      BY DEF AtWork
    <3>. QED  BY <2>1, <3>3, <3>4
  <2>6. Slots!Enter(a, o)
    BY <2>2, <2>4, <2>5, SlotsCardinality DEF Slots!Enter, AtWork
  <2>7. \E b \in Actors, q \in Ops : Slots!Enter(b, q)
    BY <2>1, <2>6
  <2>. QED  BY <2>7 DEF Slots!Next
<1>2. ASSUME \A o \in Ops :
               pc'[o] \in Working => pc[o] \in Working /\ actor'[o] = actor[o]
      PROVE  [Slots!Next]_(AtWork)
  BY <1>2, OnlyOut DEF AtWork
<1>3. ASSUME NEW o \in Ops, Step(o), ~(Arm(o) /\ pc'[o] = "acquiring")
      PROVE  [Slots!Next]_(AtWork)
  <2>1. \A q \in Ops : q # o => pc'[q] = pc[q] /\ actor'[q] = actor[q]
    BY <1>3, Others DEF IInv
  <2>2. pc'[o] \in Working => pc[o] \in Working /\ actor'[o] = actor[o]
    BY <1>3
    DEF Step, Request, Admit, Refuse, Arm, Abort, Acquire, OpenSpool, Generate,
        GenerationFails, FailureCleaned, Respond, BodyEnds, Cleaned, Finish,
        Purge, Gone, Working, IInv, TypeOK
  <2>. QED  BY <1>2, <2>1, <2>2
<1>4. CASE UNCHANGED vars \/ Tick \/ \E a \in Actors : Erase(a)
  BY <1>2, <1>4 DEF vars, Tick, Erase
<1>5. ASSUME NEW n \in Nodes, Killed(n)
      PROVE  [Slots!Next]_(AtWork)
  BY <1>2, <1>5 DEF Killed, Working
<1>6. ASSUME NEW o \in Ops, Step(o)
      PROVE  [Slots!Next]_(AtWork)
  <2>1. Arm(o) => pc[o] = "admitted"
    BY DEF Arm
  <2>. QED  BY <1>0, <1>1, <1>3, <1>6, <2>1
<1>. QED  BY <1>4, <1>5, <1>6 DEF Next, Crash, Watchdog

\* Over rows, watchdogs and crashes, the export quota is a semaphore.
THEOREM QuotaImplementsSlots == Spec => ImplementsSlots
<1>1. Init => Slots!Init
  BY DEF Init, Slots!Init, Working
<1>2. IInv /\ IInv' /\ [Next]_vars => [Slots!Next]_(AtWork)
  BY SlotsStep
<1>. QED  BY <1>1, <1>2, Invariance, PTL DEF Spec, ImplementsSlots, Slots!Spec, AtWork

-----------------------------------------------------------------------------
(***************************************************************************)
(* Requirement imports.                                                    *)
(***************************************************************************)
CallRecord == [pc : CallPhases, by : Principals \cup {NoPrincipal},
            dest : Dests \cup {NoDest}, token : Tokens \cup {NoToken},
            ref : Versions, budget : Versions, expires : Nat]

\* A validation has a principal and a destination, an execution a token.
Well(k) ==
  /\ k.pc \in {"admitted", "previewed"} => k.by \in Principals /\ k.dest \in Dests
  /\ k.pc \in {"executing", "committing"} => k.token \in Tokens

InWork(k) == {c \in Calls : k[c].pc \in Counted}

CallsGood ==
  /\ \A c \in Calls : Well(call[c])
  /\ active = Cardinality(InWork(call)) /\ active <= NodeLimit

Owns(s, p, at) == {t \in Tokens : s[t] # NoSession /\ s[t].expires > at /\ s[t].owner = p}
Fills(s, d, at) == {t \in Tokens : s[t] # NoSession /\ s[t].expires > at /\ s[t].dest = d}

\* Within the quotas that the latest session was admitted under.
SessionsWithin ==
  /\ \A p \in Principals :
       Cardinality(Owns(session, p, now)) <= granted.owner[p].perPrincipal
  /\ \A d \in Dests : Cardinality(Fills(session, d, now)) <= granted.dest[d].perDest

LiveIn(s, at) == {t \in Tokens : s[t] # NoSession /\ s[t].expires > at}
ReservedBy(s, at) == SumFunctionOnSet([t \in LiveIn(s, at) |-> s[t].bytes], LiveIn(s, at))

BytesWithin == ReservedBy(session, now) <= granted.last.bytes

\* A bucket counts what its window saw until nobody can use it any more, and
\* no window is used before it begins.
BucketsCount ==
  \A p \in Principals, w \in Windows :
    /\ w >= CurrentWindow => /\ bucket[p][w] = made[p][w]
                             /\ made[p][w] <= granted.owner[p].creations
    /\ w > CurrentWindow => made[p][w] = 0

\* Nothing is known of a token that was not issued.
Unissued ==
  \A t \in Tokens : t \notin issued =>
    session[t] = NoSession /\ \A r \in Rows : created[t][r] = 0

ImportIInv ==
  /\ ImportTypeOK /\ CallsGood /\ SessionsWithin /\ BytesWithin
  /\ BucketsCount /\ Unissued /\ ReceiptExact

-----------------------------------------------------------------------------
(***************************************************************************)
(* Constants, sets and calls.                                              *)
(***************************************************************************)
LEMMA Limits ==
  /\ NodeLimit \in Nat /\ NodeLimit > 0 /\ Ttl \in Nat /\ RateWindow \in Nat
  /\ RateWindow > 0 /\ Grace \in Nat /\ MaxTime \in Nat /\ MaxChanges \in Nat
  /\ IsFiniteSet(Tokens) /\ IsFiniteSet(Calls) /\ Sizes \subseteq Nat
<1>1. \A k \in {NodeLimit, Ttl, RateWindow} : k \in Nat \ {0}
  BY ImportAssumption
<1>2. \A k \in {Grace, MaxTime, MaxChanges} : k \in Nat
  BY ImportAssumption
<1>3. NodeLimit \in Nat \ {0} /\ Ttl \in Nat \ {0} /\ RateWindow \in Nat \ {0}
  BY <1>1
<1>4. Grace \in Nat /\ MaxTime \in Nat /\ MaxChanges \in Nat
  BY <1>2
<1>5. IsFiniteSet(Tokens) /\ IsFiniteSet(Calls) /\ Sizes \subseteq Nat
  BY ImportAssumption
<1>. QED  BY <1>3, <1>4, <1>5

LEMMA QuotaFields ==
  ASSUME NEW q \in Quotas
  PROVE  /\ q.perPrincipal \in Nat /\ q.perDest \in Nat
         /\ q.creations \in Nat /\ q.bytes \in Nat
  BY ImportAssumption

\* The quotas that sessions were admitted under are quotas.
LEMMA GrantedQuotas ==
  ASSUME ImportTypeOK
  PROVE  /\ \A p \in Principals : granted.owner[p] \in Quotas
         /\ \A d \in Dests : granted.dest[d] \in Quotas
         /\ granted.last \in Quotas /\ quotas \in Quotas
  BY DEF ImportTypeOK

\* One more element at most.
LEMMA OneMoreCall ==
  ASSUME NEW S, IsFiniteSet(S), NEW T, NEW x, T \subseteq S \cup {x}, NEW k \in Nat,
         Cardinality(S) < k
  PROVE  Cardinality(T) <= k
<1>0. Cardinality(S) \in Nat
  BY FS_CardinalityType
<1>1. IsFiniteSet(S \cup {x}) /\ Cardinality(S \cup {x}) <= Cardinality(S) + 1
  BY <1>0, FS_AddElement
<1>2. Cardinality(T) <= Cardinality(S \cup {x}) /\ Cardinality(T) \in Nat
  BY <1>1, FS_Subset, FS_CardinalityType
<1>3. Cardinality(S \cup {x}) \in Nat
  BY <1>1, FS_CardinalityType
<1>. QED  BY <1>0, <1>1, <1>2, <1>3

LEMMA NoMore ==
  ASSUME NEW S, IsFiniteSet(S), NEW T, T \subseteq S, NEW k \in Nat, Cardinality(S) <= k
  PROVE  Cardinality(T) <= k
<1>1. Cardinality(T) <= Cardinality(S) /\ Cardinality(T) \in Nat /\ Cardinality(S) \in Nat
  BY FS_Subset, FS_CardinalityType
<1>. QED  BY <1>1

LEMMA FiniteSets ==
  ASSUME NEW k, NEW s, NEW p, NEW at
  PROVE  /\ IsFiniteSet(InWork(k)) /\ Cardinality(InWork(k)) \in Nat
         /\ IsFiniteSet(Owns(s, p, at)) /\ IsFiniteSet(Fills(s, p, at))
<1>1. InWork(k) \in SUBSET Calls /\ Owns(s, p, at) \in SUBSET Tokens
      /\ Fills(s, p, at) \in SUBSET Tokens
  BY DEF InWork, Owns, Fills
<1>. QED  BY <1>1, Limits, FS_Subset, FS_CardinalityType

LEMMA NoCallType == NoCall \in CallRecord /\ Well(NoCall) /\ NoCall.pc \notin Counted
  BY DEF NoCall, CallRecord, CallPhases, Counted, Versions, Well

\* What one call does to the capacity.
Counts(old, new) ==
  \/ active' = active /\ (new \in Counted <=> old \in Counted)
  \/ active' = active + 1 /\ active < NodeLimit /\ new \in Counted /\ old \notin Counted
  \/ active' = active - 1 /\ new \notin Counted /\ old \in Counted

CallsKept == call' \in [Calls -> CallRecord] /\ CallsGood' /\ active' \in Nat

LEMMA OneCall ==
  ASSUME ImportTypeOK, CallsGood, NEW c \in Calls, NEW x \in CallRecord, Well(x),
         call' = [call EXCEPT ![c] = x], Counts(call[c].pc, x.pc)
  PROVE  CallsKept
<1>1. call \in [Calls -> CallRecord]
  BY DEF ImportTypeOK, CallRecord
<1>2. \A d \in Calls : call'[d] = IF d = c THEN x ELSE call[d]
  BY <1>1
<1>3. InWork(call') = IF x.pc \in Counted THEN InWork(call) \cup {c} ELSE InWork(call) \ {c}
  BY <1>2 DEF InWork
<1>4. c \in InWork(call) <=> call[c].pc \in Counted
  BY DEF InWork
<1>5. IsFiniteSet(InWork(call)) /\ Cardinality(InWork(call)) \in Nat
  BY FiniteSets
<1>6. /\ Cardinality(InWork(call) \cup {c}) =
           IF c \in InWork(call) THEN Cardinality(InWork(call)) ELSE Cardinality(InWork(call)) + 1
      /\ Cardinality(InWork(call) \ {c}) =
           IF c \in InWork(call) THEN Cardinality(InWork(call)) - 1 ELSE Cardinality(InWork(call))
  BY <1>5, FS_AddElement, FS_RemoveElement
<1>7. active = Cardinality(InWork(call)) /\ active <= NodeLimit
  BY DEF CallsGood
<1>8. active' = Cardinality(InWork(call'))
  BY <1>3, <1>4, <1>5, <1>6, <1>7 DEF Counts
<1>9. active' \in Nat
  BY <1>8, FiniteSets
<1>10. active' <= NodeLimit
  BY <1>5, <1>7, Limits DEF Counts
<1>11. call' \in [Calls -> CallRecord] /\ \A d \in Calls : Well(call'[d])
  BY <1>1, <1>2 DEF CallsGood
<1>. QED  BY <1>8, <1>9, <1>10, <1>11 DEF CallsKept, CallsGood

\* A call that ends, whether it had capacity or not.
LEMMA CallEnds ==
  ASSUME ImportTypeOK, CallsGood, NEW c \in Calls,
         \/ LeaveCapacity(c) /\ call[c].pc \in Counted
         \/ Ends(c) /\ UNCHANGED active /\ call[c].pc \notin Counted
  PROVE  CallsKept
  BY NoCallType, OneCall DEF LeaveCapacity, Ends, Counts

\* A call that enters, or finds no room.
LEMMA CallEnters ==
  ASSUME ImportTypeOK, CallsGood, NEW c \in Calls, NEW x \in CallRecord, Well(x),
         x.pc \in Counted, call[c].pc \notin Counted, Enter(c, x) \/ Busy(c)
  PROVE  CallsKept
<1>1. CASE Enter(c, x)
  BY <1>1, OneCall DEF Enter, Counts
<1>2. CASE Busy(c)
  BY <1>2, CallEnds DEF Busy
<1>. QED  BY <1>1, <1>2

LEMMA CallsStep ==
  ASSUME ImportTypeOK, CallsGood, [ImportNext]_importVars
  PROVE  CallsKept
<1>0. /\ call \in [Calls -> CallRecord] /\ active \in Nat
      /\ \A c \in Calls : call[c] \in CallRecord /\ Well(call[c])
  BY DEF ImportTypeOK, CallRecord, CallsGood
<1>1. CASE UNCHANGED <<call, active>>
  BY <1>0, <1>1 DEF CallsKept, CallsGood
<1>2. ASSUME NEW c \in Calls, NEW p \in Principals, NEW d \in Dests, Validate(c, p, d)
      PROVE  CallsKept
  <2>. DEFINE x == [NoCall EXCEPT !.pc = "admitted", !.by = p, !.dest = d, !.budget = budget]
  <2>1. x \in CallRecord /\ Well(x) /\ x.pc \notin Counted
    BY DEF NoCall, CallRecord, CallPhases, Counted, Versions, Well, ImportTypeOK
  <2>2. call' = [call EXCEPT ![c] = x] /\ UNCHANGED active /\ call[c].pc \notin Counted
    BY <1>2 DEF Validate, Counted
  <2>. HIDE DEF x
  <2>. QED  BY <2>1, <2>2, OneCall DEF Counts
<1>3. ASSUME NEW c \in Calls, Preview(c)
      PROVE  CallsKept
  <2>. DEFINE x == [call[c] EXCEPT !.pc = "previewed", !.ref = ref, !.expires = now + Ttl]
  <2>1. now + Ttl \in Nat /\ ref \in Versions
    BY Limits DEF ImportTypeOK
  <2>2. call[c] \in CallRecord /\ Well(call[c]) /\ call[c].pc = "admitted"
    BY <1>0, <1>3 DEF Preview
  <2>3. x \in CallRecord /\ x.pc = "previewed" /\ x.by = call[c].by /\ x.dest = call[c].dest
    BY <2>1, <2>2 DEF CallRecord, CallPhases, Counted
  <2>4. Well(x) /\ x.pc \in Counted /\ call[c].pc \notin Counted
    BY <2>2, <2>3 DEF Well, Counted
  <2>5. Enter(c, x) \/ Busy(c)
    BY <1>3 DEF Preview
  <2>. HIDE DEF x
  <2>. QED  BY <2>3, <2>4, <2>5, CallEnters
<1>4. ASSUME NEW c \in Calls, NEW t \in Tokens, NEW b \in Sizes, NEW e \in SUBSET Rows,
             CreateSession(c, t, b, e)
      PROVE  CallsKept
  BY <1>4, CallEnds DEF CreateSession, Counted
<1>5. ASSUME NEW c \in Calls, NEW p \in Principals, NEW t \in Tokens, Execute(c, p, t)
      PROVE  CallsKept
  <2>. DEFINE x == [NoCall EXCEPT !.pc = "executing", !.by = p, !.token = t]
  <2>1. x \in CallRecord /\ Well(x) /\ x.pc \notin Counted
    BY DEF NoCall, CallRecord, CallPhases, Counted, Versions, Well
  <2>2. call' = [call EXCEPT ![c] = x] /\ UNCHANGED active /\ call[c].pc \notin Counted
    BY <1>5 DEF Execute, Counted
  <2>. HIDE DEF x
  <2>. QED  BY <2>1, <2>2, OneCall DEF Counts
<1>6. ASSUME NEW c \in Calls, StartExecution(c)
      PROVE  CallsKept
  <2>. DEFINE x == [call[c] EXCEPT !.pc = "committing"]
  <2>1. call[c] \in CallRecord /\ Well(call[c]) /\ call[c].pc = "executing"
    BY <1>0, <1>6 DEF StartExecution
  <2>2. x \in CallRecord /\ x.pc = "committing" /\ x.token = call[c].token
    BY <2>1 DEF CallRecord, CallPhases, Counted
  <2>3. Well(x) /\ x.pc \in Counted /\ call[c].pc \notin Counted
    BY <2>1, <2>2 DEF Well, Counted
  <2>4. Enter(c, x) \/ Busy(c)
    BY <1>6 DEF StartExecution
  <2>. HIDE DEF x
  <2>. QED  BY <2>2, <2>3, <2>4, CallEnters
<1>7. ASSUME NEW c \in Calls, CommitExecution(c)
      PROVE  CallsKept
  BY <1>7, CallEnds DEF CommitExecution, Counted
<1>8. ASSUME NEW c \in Calls, Dialog(c)
      PROVE  CallsKept
  <2>. DEFINE x == [NoCall EXCEPT !.pc = "dialog", !.budget = budget]
  <2>1. x \in CallRecord /\ Well(x) /\ x.pc \in Counted
    BY DEF NoCall, CallRecord, CallPhases, Counted, Versions, Well, ImportTypeOK
  <2>2. Enter(c, x) /\ call[c].pc \notin Counted
    BY <1>8 DEF Dialog, Counted
  <2>. HIDE DEF x
  <2>. QED  BY <2>1, <2>2, CallEnters
<1>9. ASSUME NEW c \in Calls, WriteDialog(c)
      PROVE  CallsKept
  BY <1>9, CallEnds DEF WriteDialog, Counted
<1>10. ASSUME NEW c \in Calls, Fail(c)
       PROVE  CallsKept
  BY <1>10, CallEnds DEF Fail
<1>11. CASE ImportCrash
  <2>1. call' = [c \in Calls |-> NoCall] /\ active' = 0
    BY <1>11 DEF ImportCrash
  <2>2. InWork(call') = {}
    BY <2>1, NoCallType DEF InWork
  <2>. QED  BY <2>1, <2>2, NoCallType, Limits, FS_EmptySet DEF CallsKept, CallsGood
<1>12. \/ UNCHANGED importVars \/ CleanSessions \/ CleanBuckets \/ Administrate \/ ImportTick
       \/ \E p \in Principals : ErasePrincipal(p)
       => UNCHANGED <<call, active>>
  BY DEF importVars, CleanSessions, CleanBuckets, Administrate, ImportTick, ErasePrincipal
<1>. QED
  BY <1>1, <1>2, <1>3, <1>4, <1>5, <1>6, <1>7, <1>8, <1>9, <1>10, <1>11, <1>12 DEF ImportNext

-----------------------------------------------------------------------------
(***************************************************************************)
(* Sessions.                                                               *)
(***************************************************************************)
LEMMA SessionFields ==
  ASSUME NEW x \in Session
  PROVE  /\ x # NoSession /\ x.owner \in Principals /\ x.dest \in Dests
         /\ x.expires \in Nat /\ x.imported \in SUBSET Rows /\ x.eligible \in SUBSET Rows
         /\ x.bytes \in Nat
  BY NoSessionAssumption, Limits DEF Session

\* Every session that is there afterwards was there, with its owner, its
\* destination, its bytes and its expiry.
NoneAdded ==
  \A t \in Tokens : session'[t] # NoSession =>
    /\ session[t] # NoSession
    /\ session'[t].owner = session[t].owner
    /\ session'[t].dest = session[t].dest
    /\ session'[t].expires = session[t].expires
    /\ session'[t].bytes = session[t].bytes

LEMMA WithinStays ==
  ASSUME ImportTypeOK, SessionsWithin, NoneAdded, now' \in Nat, now' >= now,
         granted' = granted, session' \in [Tokens -> Session \cup {NoSession}]
  PROVE  SessionsWithin'
<1>1. \A t \in Tokens : session'[t] # NoSession /\ session'[t].expires > now' =>
        session[t].expires > now
  <2>1. \A t \in Tokens : session'[t] # NoSession => session'[t].expires \in Nat
    BY SessionFields
  <2>. QED  BY <2>1 DEF NoneAdded, ImportTypeOK
<1>2. ASSUME NEW p \in Principals
      PROVE  Cardinality(Owns(session', p, now')) <= granted.owner[p].perPrincipal
  <2>1. Owns(session', p, now') \subseteq Owns(session, p, now)
    BY <1>1 DEF Owns, NoneAdded
  <2>2. granted.owner[p].perPrincipal \in Nat
    BY GrantedQuotas, QuotaFields
  <2>. QED  BY <2>1, <2>2, FiniteSets, NoMore DEF SessionsWithin
<1>3. ASSUME NEW d \in Dests
      PROVE  Cardinality(Fills(session', d, now')) <= granted.dest[d].perDest
  <2>1. Fills(session', d, now') \subseteq Fills(session, d, now)
    BY <1>1 DEF Fills, NoneAdded
  <2>2. granted.dest[d].perDest \in Nat
    BY GrantedQuotas, QuotaFields
  <2>. QED  BY <2>1, <2>2, FiniteSets, NoMore DEF SessionsWithin
<1>. QED  BY <1>2, <1>3 DEF SessionsWithin

\* The sum over live sessions is a number.
LEMMA ReservedType ==
  ASSUME NEW s \in [Tokens -> Session \cup {NoSession}], NEW at
  PROVE  /\ IsFiniteSet(LiveIn(s, at)) /\ LiveIn(s, at) \in SUBSET Tokens
         /\ \A t \in LiveIn(s, at) : s[t] \in Session /\ s[t].bytes \in Nat
         /\ ReservedBy(s, at) \in Nat
<1>1. LiveIn(s, at) \in SUBSET Tokens /\ \A t \in LiveIn(s, at) : s[t] \in Session
  BY DEF LiveIn
<1>2. IsFiniteSet(LiveIn(s, at))
  BY <1>1, Limits, FS_Subset
<1>3. \A t \in LiveIn(s, at) : s[t].bytes \in Nat
  BY <1>1, SessionFields
<1>. DEFINE L == LiveIn(s, at)  f == [t \in L |-> s[t].bytes]
<1>4. \A t \in L : f[t] \in Nat
  BY <1>3
<1>5. SumFunctionOnSet(f, L) \in Nat
  <2>. HIDE DEF f, L
  <2>. QED  BY <1>2, <1>4, SumType DEF L
<1>. QED  BY <1>1, <1>2, <1>3, <1>5 DEF ReservedBy

\* Sessions that go, or expire, do not reserve more.
LEMMA ReservedShrinks ==
  ASSUME NEW s \in [Tokens -> Session \cup {NoSession}], NEW at,
         NEW s2 \in [Tokens -> Session \cup {NoSession}], NEW at2,
         LiveIn(s2, at2) \subseteq LiveIn(s, at),
         \A t \in LiveIn(s2, at2) : s2[t].bytes = s[t].bytes
  PROVE  ReservedBy(s2, at2) <= ReservedBy(s, at)
<1>. DEFINE L == LiveIn(s, at)  f == [t \in L |-> s[t].bytes]
            M == LiveIn(s2, at2)  g == [t \in M |-> s2[t].bytes]
<1>1. IsFiniteSet(L) /\ IsFiniteSet(M) /\ M \in SUBSET L
  BY ReservedType
<1>2. (\A t \in L : f[t] \in Nat) /\ (\A t \in M : g[t] = f[t])
  BY ReservedType
<1>3. ReservedBy(s2, at2) = SumFunctionOnSet(g, M) /\ ReservedBy(s, at) = SumFunctionOnSet(f, L)
  BY DEF ReservedBy
<1>. HIDE DEF L, M, f, g
<1>4. SumFunctionOnSet(g, M) = SumFunctionOnSet(f, M)
  BY <1>1, <1>2, SumAgree
<1>5. SumFunctionOnSet(f, M) <= SumFunctionOnSet(f, L)
  BY <1>1, <1>2, SumOfPart
<1>. QED  BY <1>3, <1>4, <1>5

\* A new session reserves its own bytes and no more.
LEMMA ReservedGrows ==
  ASSUME NEW s \in [Tokens -> Session \cup {NoSession}], NEW at,
         NEW t \in Tokens, s[t] = NoSession, NEW x \in Session, x.expires > at
  PROVE  ReservedBy([s EXCEPT ![t] = x], at) = ReservedBy(s, at) + x.bytes
<1>. DEFINE r == [s EXCEPT ![t] = x]
            L == LiveIn(s, at)  f == [u \in L |-> s[u].bytes]
            M == LiveIn(r, at)  g == [u \in M |-> r[u].bytes]
<1>1. r \in [Tokens -> Session \cup {NoSession}] /\ x # NoSession
  BY SessionFields
<1>2. /\ t \in M /\ t \notin L /\ M \ {t} = L
      /\ r[t] = x /\ \A u \in L : u \in M /\ r[u] = s[u]
  BY <1>1 DEF LiveIn
<1>3. /\ IsFiniteSet(L) /\ IsFiniteSet(M) /\ SumFunctionOnSet(f, L) \in Nat
      /\ \A u \in M : g[u] \in Nat
  BY <1>1, ReservedType DEF ReservedBy
<1>4. g[t] = x.bytes /\ \A u \in L : g[u] = f[u]
  <2>. HIDE DEF L, M, r
  <2>. QED  BY <1>2
<1>5. ReservedBy(r, at) = SumFunctionOnSet(g, M) /\ ReservedBy(s, at) = SumFunctionOnSet(f, L)
  BY DEF ReservedBy
<1>. HIDE DEF r, L, M, f, g
<1>6. SumFunctionOnSet(g, M) = g[t] + SumFunctionOnSet(g, M \ {t})
  BY <1>2, <1>3, SumWithout
<1>7. SumFunctionOnSet(g, L) = SumFunctionOnSet(f, L)
  BY <1>3, <1>4, SumAgree
<1>8. x.bytes \in Nat
  BY SessionFields
<1>9. ReservedBy(r, at) = ReservedBy(s, at) + x.bytes
  <2>1. SumFunctionOnSet(g, M) = x.bytes + SumFunctionOnSet(f, L)
    BY <1>2, <1>4, <1>6, <1>7
  <2>. QED  BY <1>3, <1>5, <1>8, <2>1
<1>. QED  BY <1>9 DEF r

LEMMA BytesStay ==
  ASSUME ImportTypeOK, BytesWithin, NoneAdded, now' \in Nat, now' >= now,
         granted' = granted, session' \in [Tokens -> Session \cup {NoSession}]
  PROVE  BytesWithin'
<1>1. now \in Nat /\ session \in [Tokens -> Session \cup {NoSession}]
      /\ granted.last.bytes \in Nat
  BY Limits, GrantedQuotas, QuotaFields DEF ImportTypeOK
<1>2. ASSUME NEW t \in LiveIn(session', now')
      PROVE  t \in LiveIn(session, now) /\ session'[t].bytes = session[t].bytes
  <2>1. t \in Tokens /\ session'[t] # NoSession /\ session'[t] \in Session
        /\ session'[t].expires > now'
    BY <1>2 DEF LiveIn
  <2>2. session[t] # NoSession /\ session'[t].expires = session[t].expires
        /\ session'[t].bytes = session[t].bytes
    BY <2>1 DEF NoneAdded
  <2>3. session'[t].expires \in Nat
    BY <2>1, SessionFields
  <2>. QED  BY <1>1, <2>1, <2>2, <2>3 DEF LiveIn
<1>3. ReservedBy(session', now') <= ReservedBy(session, now)
  BY <1>1, <1>2, ReservedShrinks
<1>4. ReservedBy(session', now') \in Nat /\ ReservedBy(session, now) \in Nat
  BY <1>1, ReservedType
<1>. QED  BY <1>1, <1>3, <1>4 DEF BytesWithin

\* The quotas as the code counts them.
LEMMA CountedAlike ==
  ASSUME NEW p, NEW d
  PROVE  /\ OwnedBy(p, now) = Owns(session, p, now) /\ Targeting(d, now) = Fills(session, d, now)
         /\ Reserved(now) = ReservedBy(session, now)
  BY DEF OwnedBy, Targeting, Live, Owns, Fills, Reserved, ReservedBy, LiveIn

\* A created session is counted once, by the one transaction that checked.
LEMMA WithinAdmits ==
  ASSUME ImportTypeOK, CallsGood, SessionsWithin,
         NEW c \in Calls, NEW t \in Tokens, NEW b \in Sizes, NEW e \in SUBSET Rows,
         CreateSession(c, t, b, e)
  PROVE  SessionsWithin'
<1>. DEFINE x == session'[t]
<1>1. session \in [Tokens -> Session \cup {NoSession}] /\ now' = now
  BY DEF ImportTypeOK, CreateSession
<1>2. /\ x.owner = call[c].by /\ x.dest = call[c].dest
      /\ \A u \in Tokens : u # t => session'[u] = session[u]
  BY <1>1 DEF CreateSession
<1>3. call[c].by \in Principals /\ call[c].dest \in Dests
  BY DEF CreateSession, CallsGood, Well
<1>4. /\ Cardinality(Owns(session, call[c].by, now)) < quotas.perPrincipal
      /\ Cardinality(Fills(session, call[c].dest, now)) < quotas.perDest
  BY CountedAlike DEF CreateSession, AdmitSession, WithinQuota
<1>5. /\ \A p \in Principals : granted'.owner[p] = IF p = call[c].by THEN quotas
                                                    ELSE granted.owner[p]
      /\ \A d \in Dests : granted'.dest[d] = IF d = call[c].dest THEN quotas
                                              ELSE granted.dest[d]
  BY <1>3 DEF CreateSession, ImportTypeOK
<1>6. quotas.perPrincipal \in Nat /\ quotas.perDest \in Nat
  BY GrantedQuotas, QuotaFields
<1>7. ASSUME NEW p \in Principals
      PROVE  Cardinality(Owns(session', p, now')) <= granted'.owner[p].perPrincipal
  <2>1. CASE p = call[c].by
    <3>1. Owns(session', p, now') \subseteq Owns(session, p, now) \cup {t}
      BY <1>1, <1>2 DEF Owns
    <3>2. Cardinality(Owns(session', p, now')) <= quotas.perPrincipal
      BY <2>1, <3>1, <1>4, <1>6, OneMoreCall, FiniteSets
    <3>. QED  BY <1>5, <2>1, <3>2
  <2>2. CASE p # call[c].by
    <3>1. Owns(session', p, now') \subseteq Owns(session, p, now)
      BY <1>1, <1>2, <2>2 DEF Owns
    <3>2. granted.owner[p].perPrincipal \in Nat
      BY GrantedQuotas, QuotaFields
    <3>3. Cardinality(Owns(session', p, now')) <= granted.owner[p].perPrincipal
      BY <3>1, <3>2, NoMore, FiniteSets DEF SessionsWithin
    <3>. QED  BY <1>5, <2>2, <3>3
  <2>. QED  BY <2>1, <2>2
<1>8. ASSUME NEW d \in Dests
      PROVE  Cardinality(Fills(session', d, now')) <= granted'.dest[d].perDest
  <2>1. CASE d = call[c].dest
    <3>1. Fills(session', d, now') \subseteq Fills(session, d, now) \cup {t}
      BY <1>1, <1>2 DEF Fills
    <3>2. Cardinality(Fills(session', d, now')) <= quotas.perDest
      BY <2>1, <3>1, <1>4, <1>6, OneMoreCall, FiniteSets
    <3>. QED  BY <1>5, <2>1, <3>2
  <2>2. CASE d # call[c].dest
    <3>1. Fills(session', d, now') \subseteq Fills(session, d, now)
      BY <1>1, <1>2, <2>2 DEF Fills
    <3>2. granted.dest[d].perDest \in Nat
      BY GrantedQuotas, QuotaFields
    <3>3. Cardinality(Fills(session', d, now')) <= granted.dest[d].perDest
      BY <3>1, <3>2, NoMore, FiniteSets DEF SessionsWithin
    <3>. QED  BY <1>5, <2>2, <3>3
  <2>. QED  BY <2>1, <2>2
<1>. QED  BY <1>7, <1>8 DEF SessionsWithin

-----------------------------------------------------------------------------
(***************************************************************************)
(* What a step does to the tables: nothing, a purge of sessions or of a    *)
(* bucket, an erasure, a creation, or an execution.                        *)
(***************************************************************************)
Books == <<issued, created, granted>>

Forgets(t) == session'[t] = session[t] \/ session'[t] = NoSession

OnlyForgets == session' \in [Tokens -> Session \cup {NoSession}]
               /\ (\A t \in Tokens : Forgets(t)) /\ UNCHANGED Books

LEMMA PurgeForgets ==
  ASSUME ImportTypeOK, PurgeSessions, UNCHANGED Books
  PROVE  OnlyForgets
<1>1. PICK batch \in SUBSET Tokens :
        session' = [t \in Tokens |-> IF t \in batch THEN NoSession ELSE session[t]]
  BY DEF PurgeSessions
<1>. QED  BY <1>1 DEF OnlyForgets, Forgets, ImportTypeOK

LEMMA ErasureForgets ==
  ASSUME ImportTypeOK, NEW p \in Principals, ErasePrincipal(p)
  PROVE  OnlyForgets /\ UNCHANGED now
<1>1. UNCHANGED Books /\ UNCHANGED now
  BY DEF ErasePrincipal, Books
<1>2. UNCHANGED session \/ EraseSessions(p)
  BY DEF ErasePrincipal
<1>3. CASE UNCHANGED session
  BY <1>1, <1>3 DEF OnlyForgets, Forgets, ImportTypeOK
<1>4. CASE EraseSessions(p)
  BY <1>1, <1>4 DEF OnlyForgets, Forgets, ImportTypeOK, EraseSessions, OwnedRows
<1>. QED  BY <1>1, <1>2, <1>3, <1>4

TablesKept == UNCHANGED tables
BucketsKept == UNCHANGED <<bucket, made>>

LEMMA TablesStep ==
  ASSUME ImportTypeOK, [ImportNext]_importVars
  PROVE  \/ OnlyForgets /\ BucketsKept /\ UNCHANGED now
         \/ \E p \in Principals : ErasePrincipal(p)
         \/ TablesKept /\ now' \in 0 .. MaxTime /\ now' >= now
         \/ CleanBuckets
         \/ \E c \in Calls, t \in Tokens, b \in Sizes, e \in SUBSET Rows : CreateSession(c, t, b, e)
         \/ \E c \in Calls : CommitExecution(c)
<1>0. now \in 0 .. MaxTime /\ now \in Nat /\ MaxTime \in Nat
  BY Limits DEF ImportTypeOK
<1>1. CASE \E c \in Calls, p \in Principals, d \in Dests : Validate(c, p, d)
  BY <1>1, PurgeForgets DEF Validate, Books, BucketsKept
<1>2. CASE \E c \in Calls, p \in Principals, t \in Tokens : Execute(c, p, t)
  BY <1>2, PurgeForgets DEF Execute, Books, BucketsKept
<1>3. CASE CleanSessions
  BY <1>3, PurgeForgets DEF CleanSessions, Books, BucketsKept
<1>4. CASE ImportTick
  BY <1>0, <1>4 DEF ImportTick, TablesKept
<1>5. Administrate => TablesKept /\ now' = now
  BY DEF Administrate, TablesKept
<1>6. ImportCrash \/ UNCHANGED importVars => TablesKept /\ now' = now
  BY DEF ImportCrash, importVars, TablesKept, tables
<1>7. (\E c \in Calls : Preview(c) \/ StartExecution(c) \/ Dialog(c) \/ WriteDialog(c) \/ Fail(c))
      => TablesKept /\ now' = now
  BY DEF Preview, StartExecution, Dialog, WriteDialog, Fail, TablesKept
<1>8. TablesKept /\ now' = now => TablesKept /\ now' \in 0 .. MaxTime /\ now' >= now
  BY <1>0
<1>. QED  BY <1>1, <1>2, <1>3, <1>4, <1>7, <1>8, <1>5, <1>6 DEF ImportNext

-----------------------------------------------------------------------------
(***************************************************************************)
(* Windows and buckets.                                                    *)
(***************************************************************************)
LEMMA Division ==
  ASSUME NEW n \in Nat, NEW k \in Nat, k > 0
  PROVE  n \div k \in Nat /\ (n \div k) * k <= n /\ n < (n \div k + 1) * k
  OBVIOUS

LEMMA LessFactor ==
  ASSUME NEW a \in Nat, NEW b \in Nat, NEW k \in Nat, k > 0, a * k < (b + 1) * k
  PROVE  a <= b
  OBVIOUS

LEMMA WindowGrows ==
  ASSUME NEW n \in Nat, NEW m \in Nat, n <= m
  PROVE  n \div RateWindow \in Nat /\ n \div RateWindow <= m \div RateWindow
<1>1. RateWindow \in Nat /\ RateWindow > 0
  BY Limits
<1>2. /\ n \div RateWindow \in Nat /\ m \div RateWindow \in Nat
      /\ (n \div RateWindow) * RateWindow <= n
      /\ m < (m \div RateWindow + 1) * RateWindow
  BY <1>1, Division
<1>. DEFINE a == n \div RateWindow  b == m \div RateWindow
<1>. HIDE DEF a, b
<1>3. a \in Nat /\ b \in Nat /\ a * RateWindow <= n /\ m < (b + 1) * RateWindow
  BY <1>2 DEF a, b
<1>4. a * RateWindow \in Nat /\ (b + 1) * RateWindow \in Nat
  BY <1>1, <1>3
<1>5. a * RateWindow < (b + 1) * RateWindow
  BY <1>3, <1>4
<1>6. a <= b
  BY <1>1, <1>3, <1>5, LessFactor
<1>. QED  BY <1>3, <1>6 DEF a, b

LEMMA WindowNow ==
  ASSUME ImportTypeOK
  PROVE  CurrentWindow \in Windows /\ CurrentWindow \in Nat
<1>1. now \in Nat /\ MaxTime \in Nat /\ now <= MaxTime
  BY Limits DEF ImportTypeOK
<1>2. now \div RateWindow \in Nat /\ MaxTime \div RateWindow \in Nat
      /\ now \div RateWindow <= MaxTime \div RateWindow
  BY <1>1, WindowGrows
<1>. QED  BY <1>2 DEF CurrentWindow, Windows

\* A bucket that has expired is of a window that is over.
LEMMA ExpiredIsOver ==
  ASSUME ImportTypeOK, NEW w \in Windows, BucketExpires(w) <= now
  PROVE  w < CurrentWindow
<1>1. now \in Nat /\ RateWindow \in Nat /\ RateWindow > 0 /\ Grace \in Nat /\ w \in Nat
  BY Limits DEF ImportTypeOK, Windows
<1>2. CurrentWindow \in Nat /\ now < (CurrentWindow + 1) * RateWindow
  BY <1>1, Division DEF CurrentWindow
<1>3. (w + 1) * RateWindow \in Nat /\ (CurrentWindow + 1) * RateWindow \in Nat /\ w + 1 \in Nat
  BY <1>1, <1>2
<1>4. (w + 1) * RateWindow < (CurrentWindow + 1) * RateWindow
  BY <1>1, <1>2, <1>3 DEF BucketExpires
<1>5. w + 1 <= CurrentWindow
  BY <1>1, <1>2, <1>3, <1>4, LessFactor
<1>. QED  BY <1>1, <1>2, <1>5

BucketsTyped ==
  /\ bucket \in [Principals -> [Windows -> Nat]]
  /\ made \in [Principals -> [Windows -> Nat]]

LEMMA BucketsStay ==
  ASSUME ImportTypeOK, BucketsCount, BucketsKept, now' \in Nat, now' >= now, granted' = granted
  PROVE  BucketsCount' /\ BucketsTyped'
<1>1. now \in Nat
  BY Limits DEF ImportTypeOK
<1>2. CurrentWindow \in Nat /\ CurrentWindow' \in Nat /\ CurrentWindow <= CurrentWindow'
  BY <1>1, WindowGrows DEF CurrentWindow
<1>3. ASSUME NEW w \in Windows
      PROVE  /\ w >= CurrentWindow' => w >= CurrentWindow
             /\ w > CurrentWindow' => w > CurrentWindow
  BY <1>2 DEF Windows
<1>4. BucketsTyped'
  BY DEF ImportTypeOK, BucketsTyped, BucketsKept
<1>5. bucket' = bucket /\ made' = made
  BY DEF BucketsKept
<1>. HIDE DEF CurrentWindow
<1>. QED  BY <1>3, <1>4, <1>5 DEF BucketsCount

LEMMA BucketsClean ==
  ASSUME ImportTypeOK, BucketsCount, CleanBuckets
  PROVE  BucketsCount' /\ BucketsTyped'
<1>1. PICK p \in Principals, w \in Windows :
        /\ BucketExpires(w) <= now /\ bucket' = [bucket EXCEPT ![p][w] = 0]
        /\ UNCHANGED <<now, made, granted>>
  BY DEF CleanBuckets
<1>2. w < CurrentWindow /\ CurrentWindow \in Nat /\ w \in Nat
  BY <1>1, ExpiredIsOver, WindowNow DEF Windows
<1>3. CurrentWindow' = CurrentWindow
  BY <1>1 DEF CurrentWindow
<1>4. BucketsTyped'
  BY <1>1 DEF ImportTypeOK, BucketsTyped
<1>5. \A q \in Principals, v \in Windows : v >= CurrentWindow => bucket'[q][v] = bucket[q][v]
  BY <1>1, <1>2 DEF ImportTypeOK
<1>6. made' = made /\ granted' = granted
  BY <1>1
<1>. HIDE DEF CurrentWindow
<1>. QED  BY <1>3, <1>4, <1>5, <1>6 DEF BucketsCount

\* An erasure of the buckets restarts their count, and that of the history.
LEMMA BucketsErased ==
  ASSUME ImportTypeOK, BucketsCount, NEW p \in Principals, ErasePrincipal(p)
  PROVE  BucketsCount' /\ BucketsTyped'
<1>1. now' = now /\ granted' = granted /\ (EraseBuckets(p) \/ BucketsKept)
  BY DEF ErasePrincipal, BucketsKept
<1>2. CASE BucketsKept
  <2>1. now' \in Nat /\ now' >= now
    BY <1>1, Limits DEF ImportTypeOK
  <2>. QED  BY <1>1, <1>2, <2>1, BucketsStay
<1>3. CASE EraseBuckets(p)
  <2>1. BucketsTyped'
    BY <1>3 DEF EraseBuckets, ImportTypeOK, BucketsTyped
  <2>2. \A q \in Principals, w \in Windows :
          /\ bucket'[q][w] = IF q = p THEN 0 ELSE bucket[q][w]
          /\ made'[q][w] = IF q = p THEN 0 ELSE made[q][w]
    BY <1>3 DEF EraseBuckets, ImportTypeOK
  <2>3. CurrentWindow' = CurrentWindow
    BY <1>1 DEF CurrentWindow
  <2>4. \A q \in Principals : 0 <= granted.owner[q].creations
    <3>1. \A q \in Principals : granted.owner[q].creations \in Nat
      BY GrantedQuotas, QuotaFields
    <3>. QED  BY <3>1
  <2>. HIDE DEF CurrentWindow
  <2>. QED  BY <1>1, <2>1, <2>2, <2>3, <2>4 DEF BucketsCount
<1>. QED  BY <1>1, <1>2, <1>3

\* The creation that the transaction admits is counted in the window it is in.
LEMMA BucketsAdmit ==
  ASSUME ImportTypeOK, CallsGood, BucketsCount,
         NEW c \in Calls, NEW t \in Tokens, NEW b \in Sizes, NEW e \in SUBSET Rows,
         CreateSession(c, t, b, e)
  PROVE  BucketsCount' /\ BucketsTyped'
<1>. DEFINE p == call[c].by  w == CurrentWindow
<1>1. p \in Principals /\ w \in Windows /\ w \in Nat
  BY WindowNow DEF CreateSession, CallsGood, Well
<1>2. /\ bucket' = [bucket EXCEPT ![p][w] = bucket[p][w] + 1]
      /\ made' = [made EXCEPT ![p][w] = made[p][w] + 1]
      /\ bucket[p][w] < quotas.creations
  BY DEF CreateSession, AdmitSession, WithinQuota
<1>3. w' = w
  BY DEF CreateSession, CurrentWindow
<1>4. \A q \in Principals : granted'.owner[q] = IF q = p THEN quotas ELSE granted.owner[q]
  BY <1>1 DEF CreateSession, ImportTypeOK
<1>5. quotas.creations \in Nat
  BY GrantedQuotas, QuotaFields
<1>. HIDE DEF p, w
<1>6. /\ bucket \in [Principals -> [Windows -> Nat]]
      /\ made \in [Principals -> [Windows -> Nat]]
  BY DEF ImportTypeOK
<1>7. BucketsTyped'
  BY <1>1, <1>2, <1>6 DEF BucketsTyped
<1>8. \A q \in Principals, v \in Windows :
        /\ bucket'[q][v] = IF q = p /\ v = w THEN bucket[p][w] + 1 ELSE bucket[q][v]
        /\ made'[q][v] = IF q = p /\ v = w THEN made[p][w] + 1 ELSE made[q][v]
  BY <1>1, <1>2, <1>6
<1>9. \A q \in Principals, v \in Windows :
        /\ v >= w => bucket[q][v] = made[q][v] /\ made[q][v] <= granted.owner[q].creations
        /\ v > w => made[q][v] = 0
  BY DEF BucketsCount, w
<1>10. ASSUME NEW q \in Principals, NEW v \in Windows
       PROVE  /\ v >= w => bucket'[q][v] = made'[q][v] /\ made'[q][v] <= granted'.owner[q].creations
              /\ v > w => made'[q][v] = 0
  <2>4. v \in Nat
    BY DEF Windows
  <2>5. w >= w /\ bucket[p][w] \in Nat
    BY <1>1, <1>6
  <2>6. bucket[p][w] = made[p][w]
    BY <1>1, <1>9, <2>5
  <2>0. v \in Nat /\ bucket[p][w] = made[p][w] /\ bucket[p][w] \in Nat
    BY <2>4, <2>5, <2>6
  <2>1. CASE q = p /\ v = w
    BY <1>1, <1>2, <1>4, <1>5, <1>8, <2>0, <2>1
  <2>2. CASE q = p /\ v # w
    BY <1>1, <1>4, <1>5, <1>8, <1>9, <2>0, <2>2
  <2>3. CASE q # p
    BY <1>4, <1>8, <1>9, <2>3
  <2>. QED  BY <2>1, <2>2, <2>3
<1>11. BucketsCount'
  BY <1>3, <1>10 DEF BucketsCount, w
<1>. QED  BY <1>7, <1>11

LEMMA BucketsStep ==
  ASSUME ImportTypeOK, CallsGood, BucketsCount, [ImportNext]_importVars
  PROVE  BucketsCount' /\ BucketsTyped'
<1>0. now \in Nat
  BY Limits DEF ImportTypeOK
<1>1. CASE OnlyForgets /\ BucketsKept /\ UNCHANGED now
  BY <1>0, <1>1, BucketsStay DEF OnlyForgets, Books
<1>2. CASE TablesKept /\ now' \in 0 .. MaxTime /\ now' >= now
  BY <1>2, Limits, BucketsStay DEF TablesKept, tables, BucketsKept
<1>3. ASSUME NEW c \in Calls, CommitExecution(c)
      PROVE  BucketsCount' /\ BucketsTyped'
  BY <1>0, <1>3, BucketsStay DEF CommitExecution, BucketsKept
<1>. QED  BY <1>1, <1>2, <1>3, TablesStep, BucketsClean, BucketsErased, BucketsAdmit

-----------------------------------------------------------------------------
(***************************************************************************)
(* The receipt.                                                            *)
(***************************************************************************)
Receipts ==
  /\ session \in [Tokens -> Session \cup {NoSession}] /\ issued \in SUBSET Tokens
  /\ created \in [Tokens -> [Rows -> Nat]]
  /\ Unissued /\ ReceiptExact

LEMMA ReceiptsStay ==
  ASSUME Receipts, session' \in [Tokens -> Session \cup {NoSession}],
         \A t \in Tokens : Forgets(t), UNCHANGED <<issued, created>>
  PROVE  Receipts'
<1>1. Unissued'
  BY DEF Receipts, Unissued, Forgets
<1>2. ReceiptExact'
  BY DEF Receipts, ReceiptExact, Forgets
<1>. QED  BY <1>1, <1>2 DEF Receipts

\* A new token starts with nothing imported and nothing created.
LEMMA ReceiptOfNew ==
  ASSUME ImportTypeOK, CallsGood, Receipts,
         NEW c \in Calls, NEW t \in Tokens, NEW b \in Sizes, NEW e \in SUBSET Rows,
         CreateSession(c, t, b, e)
  PROVE  Receipts'
<1>. DEFINE x == [owner |-> call[c].by, dest |-> call[c].dest, ref |-> call[c].ref,
                  budget |-> call[c].budget, bytes |-> b, eligible |-> e,
                  imported |-> {}, expires |-> call[c].expires]
<1>1. call[c] \in CallRecord /\ call[c].by \in Principals /\ call[c].dest \in Dests
  BY DEF ImportTypeOK, CallRecord, CreateSession, CallsGood, Well
<1>2. x \in Session
  BY <1>1 DEF Session, CallRecord
<1>3. /\ session' = [session EXCEPT ![t] = x] /\ issued' = issued \cup {t}
      /\ created' = created /\ t \notin issued
  BY DEF CreateSession
<1>4. x.imported = {}
  OBVIOUS
<1>. HIDE DEF x
<1>5. /\ session' \in [Tokens -> Session \cup {NoSession}]
      /\ \A u \in Tokens : session'[u] = IF u = t THEN x ELSE session[u]
  BY <1>2, <1>3 DEF Receipts
<1>6. Unissued'
  BY <1>3, <1>5 DEF Receipts, Unissued
<1>7. ReceiptExact'
  <2>1. ASSUME NEW r \in Rows
        PROVE  created[t][r] = 0
    BY <1>3 DEF Receipts, Unissued
  <2>. QED  BY <1>3, <1>4, <1>5, <2>1 DEF Receipts, ReceiptExact
<1>. QED  BY <1>3, <1>5, <1>6, <1>7 DEF Receipts

\* An execution creates each remaining row once and notes it as imported.
LEMMA ReceiptOfExecution ==
  ASSUME ImportTypeOK, CallsGood, Receipts, NEW c \in Calls, CommitExecution(c)
  PROVE  Receipts' /\ NoneAdded
<1>. DEFINE t == call[c].token  done == session[t].imported \cup Remaining(t)
<1>1. t \in Tokens /\ session[t] # NoSession /\ session[t] \in Session
  BY DEF CommitExecution, CallsGood, Well, Current, Found, Receipts
<1>2. /\ created' = [created EXCEPT ![t] =
           [r \in Rows |-> IF r \in Remaining(t) THEN created[t][r] + 1 ELSE created[t][r]]]
      /\ session' = [session EXCEPT ![t] = [session[t] EXCEPT !.imported = done]]
      /\ issued' = issued
  BY <1>1 DEF CommitExecution, Receipts
<1>3. done \in SUBSET Rows
  BY <1>1, SessionFields DEF Remaining
<1>4. [session[t] EXCEPT !.imported = done] \in Session
      /\ [session[t] EXCEPT !.imported = done].imported = done
  BY <1>1, <1>3 DEF Session
<1>5. \A r \in Rows : r \in Remaining(t) <=> r \in session[t].eligible /\ r \notin session[t].imported
  BY DEF Remaining
<1>6. \A r \in Rows : r \in done <=> r \in session[t].imported \/ r \in Remaining(t)
  OBVIOUS
<1>7. NoneAdded
  BY <1>1, <1>2 DEF NoneAdded, Receipts, Session
<1>. HIDE DEF t, done
<1>8. /\ session' \in [Tokens -> Session \cup {NoSession}]
      /\ \A u \in Tokens : u # t => session'[u] = session[u]
      /\ session'[t] # NoSession => session'[t].imported = done
  BY <1>1, <1>2, <1>4 DEF Receipts
<1>9. /\ created' \in [Tokens -> [Rows -> Nat]]
      /\ \A u \in Tokens : u # t => created'[u] = created[u]
      /\ \A r \in Rows : created'[t][r] =
           IF r \in Remaining(t) THEN created[t][r] + 1 ELSE created[t][r]
  BY <1>1, <1>2 DEF Receipts
<1>10. t \in issued
  BY <1>1 DEF Receipts, Unissued
<1>11. Unissued'
  BY <1>2, <1>8, <1>9, <1>10 DEF Receipts, Unissued
<1>12. \A r \in Rows : created[t][r] \in Nat /\ created[t][r] <= 1
                       /\ (created[t][r] = 1 <=> r \in session[t].imported)
  BY <1>1 DEF Receipts, ReceiptExact
<1>13. ASSUME NEW r \in Rows
       PROVE  created'[t][r] <= 1 /\ (created'[t][r] = 1 <=> r \in done)
  <2>1. CASE r \in Remaining(t)
    <3>1. created[t][r] = 0
      BY <1>5, <1>12, <2>1
    <3>. QED  BY <1>6, <1>9, <2>1, <3>1
  <2>2. CASE r \notin Remaining(t)
    BY <1>6, <1>9, <1>12, <2>2
  <2>. QED  BY <2>1, <2>2
<1>14. ReceiptExact'
  BY <1>8, <1>9, <1>13 DEF Receipts, ReceiptExact
<1>. QED  BY <1>2, <1>7, <1>8, <1>9, <1>11, <1>14 DEF Receipts

LEMMA ReceiptsStep ==
  ASSUME ImportTypeOK, CallsGood, Receipts, [ImportNext]_importVars
  PROVE  Receipts'
<1>1. CASE OnlyForgets
  BY <1>1, ReceiptsStay DEF OnlyForgets, Books
<1>2. CASE UNCHANGED <<session, issued, created>>
  BY <1>2, ReceiptsStay DEF Receipts, Forgets
<1>3. TablesKept \/ CleanBuckets => UNCHANGED <<session, issued, created>>
  BY DEF TablesKept, tables, CleanBuckets
<1>. QED  BY <1>1, <1>2, <1>3, ErasureForgets, ReceiptOfNew, ReceiptOfExecution, TablesStep

\* The bytes of a new session were checked in the transaction that adds it.
LEMMA BytesAdmit ==
  ASSUME ImportTypeOK, CallsGood, Unissued, BytesWithin,
         NEW c \in Calls, NEW t \in Tokens, NEW b \in Sizes, NEW e \in SUBSET Rows,
         CreateSession(c, t, b, e)
  PROVE  BytesWithin'
<1>. DEFINE x == [owner |-> call[c].by, dest |-> call[c].dest, ref |-> call[c].ref,
                  budget |-> call[c].budget, bytes |-> b, eligible |-> e,
                  imported |-> {}, expires |-> call[c].expires]
<1>1. call[c] \in CallRecord /\ call[c].by \in Principals /\ call[c].dest \in Dests
  BY DEF ImportTypeOK, CallRecord, CreateSession, CallsGood, Well
<1>2. x \in Session /\ x.bytes = b /\ x.expires = call[c].expires
  BY <1>1 DEF Session, CallRecord
<1>3. session' = [session EXCEPT ![t] = x] /\ now' = now
  BY DEF CreateSession
<1>8. x.expires > now
  BY <1>2 DEF CreateSession, AdmitSession
<1>4. Reserved(now) + b <= quotas.bytes /\ call[c].expires > now /\ t \notin issued
      /\ granted'.last = quotas
  BY DEF CreateSession, AdmitSession, WithinQuota
<1>5. session[t] = NoSession
  BY <1>4 DEF Unissued
<1>6. session \in [Tokens -> Session \cup {NoSession}]
  BY DEF ImportTypeOK
<1>. HIDE DEF x
<1>9. ReservedBy([session EXCEPT ![t] = x], now) = ReservedBy(session, now) + x.bytes
  BY <1>2, <1>5, <1>6, <1>8, ReservedGrows
<1>7. ReservedBy(session', now') = ReservedBy(session, now) + b
  BY <1>2, <1>3, <1>9
<1>. QED  BY <1>4, <1>7, CountedAlike DEF BytesWithin

-----------------------------------------------------------------------------
(***************************************************************************)
(* The invariant.                                                          *)
(***************************************************************************)
LEMMA ImportInitial == ImportInit => ImportIInv
<1>. SUFFICES ASSUME ImportInit PROVE ImportIInv
  OBVIOUS
<1>1. ImportTypeOK
  BY NoCallType, Limits DEF ImportInit, ImportTypeOK, CallRecord, Versions
<1>2. CallsGood
  <2>1. InWork(call) = {}
    BY NoCallType DEF ImportInit, InWork
  <2>2. \A c \in Calls : Well(call[c])
    BY NoCallType DEF ImportInit
  <2>3. active = 0 /\ Cardinality(InWork(call)) = 0
    BY <2>1, FS_EmptySet DEF ImportInit
  <2>. QED  BY <2>2, <2>3, Limits DEF CallsGood
<1>3. SessionsWithin
  <2>1. \A p, d : Owns(session, p, now) = {} /\ Fills(session, d, now) = {}
    BY DEF ImportInit, Owns, Fills
  <2>2. /\ \A p \in Principals : granted.owner[p].perPrincipal \in Nat
        /\ \A d \in Dests : granted.dest[d].perDest \in Nat
    BY <1>1, GrantedQuotas, QuotaFields
  <2>. QED  BY <2>1, <2>2, FS_EmptySet DEF SessionsWithin
<1>4. BytesWithin
  <2>1. LiveIn(session, now) = {}
    BY DEF ImportInit, LiveIn
  <2>2. ReservedBy(session, now) = 0
    BY <2>1, SumEmpty DEF ReservedBy
  <2>. QED  BY <1>1, <2>2, GrantedQuotas, QuotaFields DEF BytesWithin
<1>6. BucketsCount
  <2>1. \A p \in Principals : granted.owner[p].creations \in Nat
    BY <1>1, GrantedQuotas, QuotaFields
  <2>2. \A p \in Principals, w \in Windows : bucket[p][w] = 0 /\ made[p][w] = 0
    BY DEF ImportInit
  <2>. QED  BY <2>1, <2>2 DEF BucketsCount
<1>5. Unissued /\ ReceiptExact
  BY DEF ImportInit, Unissued, ReceiptExact
<1>. QED  BY <1>1, <1>2, <1>3, <1>4, <1>5, <1>6 DEF ImportIInv

LEMMA SessionsStep ==
  ASSUME ImportTypeOK, CallsGood, SessionsWithin, BytesWithin, Receipts, [ImportNext]_importVars
  PROVE  SessionsWithin' /\ BytesWithin' /\ now' \in 0 .. MaxTime
<1>0. now \in 0 .. MaxTime /\ now \in Nat /\ MaxTime \in Nat
      /\ session \in [Tokens -> Session \cup {NoSession}]
  BY Limits DEF ImportTypeOK
<1>1. session' \in [Tokens -> Session \cup {NoSession}]
  BY ReceiptsStep DEF Receipts
<1>2. CASE OnlyForgets /\ UNCHANGED now
  BY <1>0, <1>2, WithinStays, BytesStay DEF OnlyForgets, Books, Forgets, NoneAdded
<1>3. CASE TablesKept /\ now' \in 0 .. MaxTime /\ now' >= now
  BY <1>0, <1>3, WithinStays, BytesStay DEF TablesKept, tables, NoneAdded
<1>4. CASE CleanBuckets
  BY <1>0, <1>4, WithinStays, BytesStay DEF CleanBuckets, NoneAdded
<1>5. CASE \E c \in Calls, t \in Tokens, b \in Sizes, e \in SUBSET Rows : CreateSession(c, t, b, e)
  <2>1. PICK c \in Calls, t \in Tokens, b \in Sizes, e \in SUBSET Rows : CreateSession(c, t, b, e)
    BY <1>5
  <2>2. SessionsWithin' /\ BytesWithin'
    BY <2>1, WithinAdmits, BytesAdmit DEF Receipts
  <2>3. now' = now
    BY <2>1 DEF CreateSession
  <2>. QED  BY <1>0, <2>2, <2>3
<1>6. CASE \E c \in Calls : CommitExecution(c)
  <2>1. now' = now /\ NoneAdded /\ granted' = granted
    BY <1>6, ReceiptOfExecution DEF CommitExecution
  <2>. QED  BY <1>0, <1>1, <2>1, WithinStays, BytesStay
<1>. QED  BY <1>2, <1>3, <1>4, <1>5, <1>6, ErasureForgets, TablesStep

LEMMA SettingsStep ==
  ASSUME ImportTypeOK, [ImportNext]_importVars
  PROVE  /\ ref' \in Versions /\ budget' \in Versions
         /\ usable' \in SUBSET Dests /\ allowed' \in SUBSET Principals
         /\ quotas' \in Quotas /\ changes' \in 0 .. MaxChanges
<1>1. CASE Administrate
  BY <1>1, Limits DEF Administrate, ImportTypeOK, Versions
<1>2. ASSUME NEW c \in Calls, NEW p \in Principals, NEW d \in Dests, Validate(c, p, d)
      PROVE  UNCHANGED settings
  BY <1>2 DEF Validate
<1>3. ASSUME NEW c \in Calls, NEW t \in Tokens, NEW b \in Sizes, NEW e \in SUBSET Rows,
             CreateSession(c, t, b, e)
      PROVE  UNCHANGED settings
  BY <1>3 DEF CreateSession
<1>4. ASSUME NEW c \in Calls, NEW p \in Principals, NEW t \in Tokens, Execute(c, p, t)
      PROVE  UNCHANGED settings
  BY <1>4 DEF Execute
<1>5. ASSUME NEW c \in Calls, \/ Preview(c) \/ StartExecution(c) \/ CommitExecution(c)
                              \/ Dialog(c) \/ WriteDialog(c) \/ Fail(c)
      PROVE  UNCHANGED settings
  BY <1>5 DEF Preview, StartExecution, CommitExecution, Dialog, WriteDialog, Fail
<1>6. \/ ImportCrash \/ CleanSessions \/ CleanBuckets \/ ImportTick \/ UNCHANGED importVars
      \/ \E p \in Principals : ErasePrincipal(p)
      => UNCHANGED settings
  BY DEF ImportCrash, CleanSessions, CleanBuckets, ImportTick, importVars, settings, ErasePrincipal
<1>7. UNCHANGED settings => UNCHANGED <<ref, budget, usable, allowed, quotas, changes>>
  BY DEF settings
<1>. QED  BY <1>1, <1>2, <1>3, <1>4, <1>5, <1>6, <1>7 DEF ImportNext, ImportTypeOK

GrantedType ==
  [owner : [Principals -> Quotas], dest : [Dests -> Quotas], last : Quotas]

LEMMA GrantedStep ==
  ASSUME ImportTypeOK, CallsGood, [ImportNext]_importVars
  PROVE  granted' \in GrantedType
<1>1. granted \in GrantedType /\ quotas \in Quotas
  BY DEF ImportTypeOK, GrantedType
<1>2. CASE granted' = granted
  BY <1>1, <1>2
<1>3. ASSUME NEW c \in Calls, NEW t \in Tokens, NEW b \in Sizes, NEW e \in SUBSET Rows,
             CreateSession(c, t, b, e)
      PROVE  granted' \in GrantedType
  BY <1>1, <1>3 DEF CreateSession, GrantedType
<1>4. (\E c \in Calls : CommitExecution(c)) \/ OnlyForgets \/ TablesKept \/ CleanBuckets
      => granted' = granted
  BY DEF CommitExecution, OnlyForgets, Books, TablesKept, tables, CleanBuckets
<1>. QED  BY <1>2, <1>3, <1>4, ErasureForgets, TablesStep

LEMMA ImportInductive == ImportIInv /\ [ImportNext]_importVars => ImportIInv'
<1>. SUFFICES ASSUME ImportIInv, [ImportNext]_importVars PROVE ImportIInv'
  OBVIOUS
<1>1. ImportTypeOK /\ CallsGood /\ SessionsWithin /\ BytesWithin /\ BucketsCount /\ Receipts
  BY DEF ImportIInv, Receipts, ImportTypeOK
<1>2. CallsKept /\ Receipts' /\ SessionsWithin' /\ BytesWithin' /\ now' \in 0 .. MaxTime
  BY <1>1, CallsStep, ReceiptsStep, SessionsStep
<1>3. BucketsCount' /\ BucketsTyped' /\ granted' \in GrantedType
  BY <1>1, BucketsStep, GrantedStep
<1>4. ImportTypeOK'
  BY <1>1, <1>2, <1>3, SettingsStep
     DEF ImportTypeOK, CallsKept, Receipts, CallRecord, BucketsTyped, GrantedType
<1>. QED  BY <1>2, <1>3, <1>4 DEF ImportIInv, CallsKept, Receipts

LEMMA ImportAlways == ImportSpec => []ImportIInv
  BY ImportInitial, ImportInductive, PTL DEF ImportSpec

-----------------------------------------------------------------------------
\* Sessions, buckets, requests and the capacity stay what the tables and the
\* process can hold (requirement_import_validation_sessions,
\* withRequirementImportCapacity).
THEOREM ImportTypeCorrect == ImportSpec => []ImportTypeOK
  BY ImportAlways, PTL DEF ImportIInv

\* For any number of racing validations, changes of the quotas and erasures
\* the live sessions of a principal and of a destination, the creations of a
\* window since the last erasure of its buckets and the bytes that live
\* sessions reserve stay within the quotas that the latest one was admitted
\* under, and the calls at work within the node's limit
\* (createRequirementImportValidationSessionAtomically).
THEOREM ImportLimits == ImportSpec => []ImportLimitsHold
<1>1. ImportIInv => ImportCountsHold
  <2>1. InWork(call) = {c \in Calls : call[c].pc \in Counted}
    BY DEF InWork
  <2>2. ImportIInv => CurrentWindow \in Windows /\ CurrentWindow >= CurrentWindow
    BY WindowNow DEF ImportIInv
  <2>. HIDE DEF CurrentWindow
  <2>. QED  BY <2>1, <2>2, CountedAlike
            DEF ImportIInv, ImportCountsHold, CallsGood, SessionsWithin, BucketsCount
<1>2. ImportIInv => Reserved(now) <= granted.last.bytes
  BY CountedAlike DEF ImportIInv, BytesWithin
<1>3. ImportIInv => ImportLimitsHold
  BY <1>1, <1>2 DEF ImportLimitsHold
<1>. QED  BY <1>3, ImportAlways, PTL

\* However often and concurrently a token is executed, a row becomes one
\* requirement and the receipt says which ones did (execute).
THEOREM ReceiptsAreExact == ImportSpec => []ReceiptExact
  BY ImportAlways, PTL DEF ImportIInv

\* Rows are written only under the budget and the reference data they were
\* validated with, for an authorized owner of a live session (execute).
THEOREM ImportsAreCurrent == ImportSpec => WritesAreCurrent
<1>. DEFINE OneWrite ==
       \A t \in Tokens : created'[t] # created[t] =>
         /\ session[t].budget = budget /\ session[t].ref = ref
         /\ session[t].dest \in usable /\ session[t].owner \in allowed
         /\ session[t].expires > now
<1>1. ASSUME ImportIInv, [ImportNext]_importVars
      PROVE  OneWrite
  <2>1. CASE \E c \in Calls : CommitExecution(c)
    <3>1. PICK c \in Calls : CommitExecution(c)
      BY <2>1
    <3>2. call[c].token \in Tokens /\ Current(c, call[c].token)
          /\ \A t \in Tokens : t # call[c].token => created'[t] = created[t]
      BY <1>1, <3>1 DEF CommitExecution, ImportIInv, ImportTypeOK, CallsGood, Well
    <3>. QED  BY <3>2 DEF Current, Found
  <2>2. ~(\E c \in Calls : CommitExecution(c)) => created' = created
    BY <1>1, TablesStep, ErasureForgets
       DEF ImportIInv, OnlyForgets, Books, TablesKept, tables, CleanBuckets, CreateSession
  <2>. QED  BY <2>1, <2>2
<1>2. ImportIInv /\ [ImportNext]_importVars => [OneWrite]_importVars
  BY <1>1
<1>. QED  BY <1>2, ImportAlways, PTL DEF ImportSpec, WritesAreCurrent

-----------------------------------------------------------------------------
(***************************************************************************)
(* Verifications of persons.                                               *)
(***************************************************************************)
Policies == 1 .. 3
CheckRecord == [step : {"idle", "waiting", "holding"}, actor : HsaActors \cup {Anyone},
                target : HsaTargets \cup {Anyone}, window : HsaWindows, consumed : 0 .. 3]

\* The bucket of a policy for an actor and a target.
BucketOf(a, t, i) ==
  CASE i = 1 -> <<a, Anyone>>
    [] i = 2 -> <<a, t>>
    [] i = 3 -> <<Anyone, t>>

\* A request that has begun has its people and a window that has begun.
Begun(k, w) ==
  /\ k.step # "idle" =>
       k.actor \in HsaActors /\ k.target \in HsaTargets /\ k.window <= w /\ k.consumed <= 2
  /\ k.step = "idle" => k = NoCheck

\* The buckets that a request has consumed, its unit in one of them, and the
\* requests that have one.
PaidBy(k) == {BucketOf(k.actor, k.target, i) : i \in 1 .. k.consumed}
Unit(k, b, w) == IF k.window = w /\ b \in PaidBy(k) THEN 1 ELSE 0
Takers(chk, b, w) == {c \in Checks : chk[c].window = w /\ b \in PaidBy(chk[c])}

\* A unit that a request may still take back is in its bucket, whatever window
\* it is of; no window is counted before it begins.
HsaKept ==
  /\ \A c \in Checks : Begun(check[c], window)
  /\ \A b \in Buckets, w \in HsaWindows :
       /\ Cardinality(Takers(check, b, w)) <= count[b][w]
       /\ count[b][w] <= Limit(b)
       /\ w > window => count[b][w] = 0

\* Every unit of the current window has a request that explains it.
HsaCharged ==
  \A b \in Buckets :
    count[b][window] = admitted[b] + denied[b] + Cardinality(Takers(check, b, window))

HsaIInv == HsaTypeOK /\ HsaKept /\ HsaCharged

-----------------------------------------------------------------------------
\* Constants and buckets.
LEMMA HsaConstants ==
  /\ IsFiniteSet(Checks) /\ ActorLimit \in Nat /\ PairLimit \in Nat /\ TargetLimit \in Nat
  /\ MaxWindow \in Nat /\ Anyone \notin HsaActors /\ Anyone \notin HsaTargets
  BY HsaAssumption

\* The three buckets of two people are three, and buckets.
LEMMA BucketsOf ==
  ASSUME NEW a \in HsaActors, NEW t \in HsaTargets
  PROVE  \A i \in Policies :
           /\ BucketOf(a, t, i) \in Buckets
           /\ \A j \in Policies : BucketOf(a, t, i) = BucketOf(a, t, j) => i = j
<1>1. /\ BucketOf(a, t, 1) = <<a, Anyone>> /\ BucketOf(a, t, 2) = <<a, t>>
      /\ BucketOf(a, t, 3) = <<Anyone, t>>
  BY DEF BucketOf
<1>2. a # Anyone /\ t # Anyone
  BY HsaConstants
<1>3. \A j \in Policies : j \in {1, 2, 3}
  BY DEF Policies
<1>. QED  BY <1>1, <1>2, <1>3 DEF Buckets

LEMMA LimitType == ASSUME NEW b \in Buckets PROVE Limit(b) \in Nat
  BY HsaConstants DEF Limit

LEMMA PolicyIsBucket ==
  ASSUME NEW c, NEW i \in Policies
  PROVE  Policy(c, i) = BucketOf(check[c].actor, check[c].target, i)
  BY DEF Policy, BucketOf

LEMMA Units == \A k, b, w : Unit(k, b, w) \in {0, 1} /\ Unit(k, b, w) \in Nat
  BY DEF Unit

\* What the invariant says of the tables.
LEMMA TablesTyped ==
  ASSUME HsaIInv
  PROVE  /\ admitted \in [Buckets -> Nat] /\ denied \in [Buckets -> Nat]
         /\ count \in [Buckets -> [HsaWindows -> Nat]] /\ window \in HsaWindows
         /\ check \in [Checks -> CheckRecord]
         /\ \A b \in Buckets, w \in HsaWindows :
              count[b][w] \in Nat /\ count[b][w] <= Limit(b) /\ (w > window => count[b][w] = 0)
<1>1. /\ admitted \in [Buckets -> Nat] /\ denied \in [Buckets -> Nat]
      /\ count \in [Buckets -> [HsaWindows -> Nat]] /\ window \in HsaWindows
      /\ check \in [Checks -> CheckRecord]
  BY DEF HsaIInv, HsaTypeOK, CheckRecord
<1>2. \A b \in Buckets, w \in HsaWindows : count[b][w] \in Nat
  BY <1>1
<1>. QED  BY <1>1, <1>2 DEF HsaIInv, HsaKept

\* Windows and people of a request, and the bucket it is at.
LEMMA RequestFacts ==
  ASSUME HsaIInv, NEW c \in Checks, check[c].step # "idle"
  PROVE  /\ check[c].actor \in HsaActors /\ check[c].target \in HsaTargets
         /\ check[c].window \in HsaWindows /\ check[c].window <= window
         /\ check[c].consumed \in 0 .. 2 /\ check[c].consumed + 1 \in Policies
<1>1. check[c] \in CheckRecord /\ Begun(check[c], window)
  BY TablesTyped DEF HsaIInv, HsaKept
<1>2. check[c].consumed \in 0 .. 3 /\ check[c].window \in HsaWindows
  BY <1>1 DEF CheckRecord
<1>3. check[c].consumed \in 0 .. 2
  BY <1>1, <1>2 DEF Begun
<1>. QED  BY <1>1, <1>2, <1>3 DEF Begun, Policies

LEMMA PaidIs ==
  ASSUME HsaIInv, NEW c \in Checks
  PROVE  Paid(c) = PaidBy(check[c])
<1>1. check[c].consumed \in 0 .. 3
  BY TablesTyped DEF CheckRecord
<1>2. \A i \in 1 .. check[c].consumed : i \in Policies
  BY <1>1 DEF Policies
<1>3. \A i \in 1 .. check[c].consumed : Policy(c, i) = BucketOf(check[c].actor, check[c].target, i)
  BY <1>2, PolicyIsBucket
<1>. QED  BY <1>3 DEF Paid, PaidBy

\* An idle request has paid nothing.
LEMMA IdlePaysNothing ==
  ASSUME HsaIInv, NEW c \in Checks, check[c].step = "idle"
  PROVE  PaidBy(check[c]) = {} /\ check[c] = NoCheck
<1>1. check[c] = NoCheck
  BY DEF HsaIInv, HsaKept, Begun
<1>. QED  BY <1>1 DEF NoCheck, PaidBy

-----------------------------------------------------------------------------
(***************************************************************************)
(* One request.                                                            *)
(***************************************************************************)
\* Nothing but one request differs.
OneDiffers(chk, new, c) ==
  /\ c \in Checks /\ chk \in [Checks -> CheckRecord] /\ new \in [Checks -> CheckRecord]
  /\ \A d \in Checks : d # c => new[d] = chk[d]

\* What one request changes in the sets that are counted.
LEMMA TakersChange ==
  ASSUME NEW chk, NEW new, NEW c, OneDiffers(chk, new, c), NEW b, NEW w
  PROVE  /\ Cardinality(Takers(chk, b, w)) \in Nat /\ Cardinality(Takers(new, b, w)) \in Nat
         /\ Cardinality(Takers(new, b, w)) + Unit(chk[c], b, w)
              = Cardinality(Takers(chk, b, w)) + Unit(new[c], b, w)
<1>. DEFINE S == Takers(chk, b, w)  T == Takers(new, b, w)
<1>1. S \in SUBSET Checks /\ T \in SUBSET Checks
  BY DEF Takers
<1>2. c \in Checks /\ \A d \in Checks : d # c => (d \in S <=> d \in T)
  BY DEF Takers, OneDiffers
<1>3. /\ Unit(chk[c], b, w) = (IF c \in S THEN 1 ELSE 0)
      /\ Unit(new[c], b, w) = (IF c \in T THEN 1 ELSE 0)
  BY <1>2 DEF Takers, Unit
<1>. HIDE DEF S, T
<1>4. IsFiniteSet(S) /\ IsFiniteSet(T)
  BY <1>1, HsaConstants, FS_Subset
<1>5. Cardinality(S) \in Nat /\ Cardinality(T) \in Nat
  BY <1>4, FS_CardinalityType
<1>6. CASE c \in S /\ c \notin T
  <2>1. T = S \ {c}
    BY <1>1, <1>2, <1>6
  <2>. QED  BY <1>3, <1>4, <1>5, <1>6, <2>1, FS_RemoveElement DEF S, T
<1>7. CASE c \notin S /\ c \in T
  <2>1. T = S \cup {c}
    BY <1>1, <1>2, <1>7
  <2>. QED  BY <1>3, <1>4, <1>5, <1>7, <2>1, FS_AddElement DEF S, T
<1>8. CASE c \in S <=> c \in T
  <2>1. S = T
    BY <1>1, <1>2, <1>8
  <2>. QED  BY <1>3, <1>5, <1>8, <2>1 DEF S, T
<1>. QED  BY <1>6, <1>7, <1>8

\* A request becomes x: its unit in a bucket, and what the histories and the
\* bucket say of it, change alike.
Settles(c, x) ==
  /\ OneDiffers(check, check', c) /\ check'[c] = x /\ Begun(x, window)
  /\ window' = window
  /\ admitted' \in [Buckets -> Nat] /\ denied' \in [Buckets -> Nat]
  /\ count' \in [Buckets -> [HsaWindows -> Int]]
  /\ \A b \in Buckets, w \in HsaWindows :
       /\ count'[b][w] + Unit(check[c], b, w) >= count[b][w] + Unit(x, b, w)
       /\ count'[b][w] <= Limit(b)
       /\ w > window => count'[b][w] = 0
  /\ \A b \in Buckets :
       count'[b][window] + (admitted[b] + denied[b] + Unit(check[c], b, window))
       = count[b][window] + (admitted'[b] + denied'[b] + Unit(x, b, window))

LEMMA OneRequest ==
  ASSUME HsaIInv, NEW c, NEW x, Settles(c, x)
  PROVE  HsaIInv'
<1>1. /\ OneDiffers(check, check', c) /\ check'[c] = x /\ Begun(x, window)
      /\ window' = window /\ admitted' \in [Buckets -> Nat] /\ denied' \in [Buckets -> Nat]
      /\ count' \in [Buckets -> [HsaWindows -> Int]]
  BY DEF Settles
<1>2. ASSUME NEW b, NEW w
      PROVE  /\ Cardinality(Takers(check, b, w)) \in Nat /\ Cardinality(Takers(check', b, w)) \in Nat
             /\ Cardinality(Takers(check', b, w)) + Unit(check[c], b, w)
                  = Cardinality(Takers(check, b, w)) + Unit(x, b, w)
  <2>1. /\ Cardinality(Takers(check, b, w)) \in Nat /\ Cardinality(Takers(check', b, w)) \in Nat
        /\ Cardinality(Takers(check', b, w)) + Unit(check[c], b, w)
             = Cardinality(Takers(check, b, w)) + Unit(check'[c], b, w)
    BY <1>1, TakersChange
  <2>. QED  BY <1>1, <2>1
<1>3. ASSUME NEW b \in Buckets, NEW w \in HsaWindows
      PROVE  Cardinality(Takers(check', b, w)) <= count'[b][w] /\ count'[b][w] \in Nat
  <2>1. Cardinality(Takers(check, b, w)) <= count[b][w] /\ count[b][w] \in Nat
        /\ count'[b][w] \in Int
    BY <1>1, TablesTyped DEF HsaIInv, HsaKept
  <2>2. Unit(check[c], b, w) \in Nat /\ Unit(x, b, w) \in Nat
    BY Units
  <2>3. count'[b][w] + Unit(check[c], b, w) >= count[b][w] + Unit(x, b, w)
    BY DEF Settles
  <2>. QED  BY <1>2, <2>1, <2>2, <2>3
<1>4. count' \in [Buckets -> [HsaWindows -> Nat]]
  <2>1. /\ count' = [b \in Buckets |-> count'[b]]
        /\ \A b \in Buckets : count'[b] \in [HsaWindows -> Int]
    BY <1>1
  <2>2. \A b \in Buckets : count'[b] \in [HsaWindows -> Nat]
    BY <1>3, <2>1
  <2>. QED  BY <2>1, <2>2
<1>5. \A d \in Checks : Begun(check'[d], window')
  BY <1>1 DEF OneDiffers, HsaIInv, HsaKept
<1>6. HsaTypeOK'
  BY <1>1, <1>4, TablesTyped DEF HsaTypeOK, CheckRecord, OneDiffers
<1>7. HsaKept'
  <2>1. \A b \in Buckets, w \in HsaWindows :
          count'[b][w] <= Limit(b) /\ (w > window => count'[b][w] = 0)
    BY DEF Settles
  <2>. QED  BY <1>1, <1>3, <1>5, <2>1 DEF HsaKept
<1>8. ASSUME NEW b \in Buckets
      PROVE  count'[b][window] = admitted'[b] + denied'[b] + Cardinality(Takers(check', b, window))
  <2>. DEFINE n == Cardinality(Takers(check, b, window))  m == Cardinality(Takers(check', b, window))
              u == Unit(check[c], b, window)  v == Unit(x, b, window)
              y == count[b][window]  z == count'[b][window]
              a == admitted[b] + denied[b]  a2 == admitted'[b] + denied'[b]
  <2>1. n \in Nat /\ m \in Nat /\ m + u = n + v
    BY <1>2
  <2>2. u \in Nat /\ v \in Nat
    BY Units
  <2>3. /\ admitted[b] \in Nat /\ denied[b] \in Nat /\ admitted'[b] \in Nat /\ denied'[b] \in Nat
        /\ y \in Nat /\ z \in Nat
    BY <1>1, <1>4, TablesTyped
  <2>4. y = a + n
    BY DEF HsaIInv, HsaCharged
  <2>5. z + (a + u) = y + (a2 + v)
    BY DEF Settles
  <2>6. a \in Nat /\ a2 \in Nat
    BY <2>3
  <2>. HIDE DEF n, m, u, v, y, z, a, a2
  <2>7. z = a2 + m
    BY <2>1, <2>2, <2>3, <2>4, <2>5, <2>6
  <2>. QED  BY <2>7 DEF z, a2, m
<1>9. HsaCharged'
  BY <1>1, <1>8 DEF HsaCharged
<1>. QED  BY <1>6, <1>7, <1>9 DEF HsaIInv

\* A request changes, and with it no counter and no unit of its own.
LEMMA RequestMoves ==
  ASSUME HsaIInv, NEW c \in Checks, NEW x \in CheckRecord, Begun(x, window),
         check' = [check EXCEPT ![c] = x], UNCHANGED <<window, count, admitted, denied>>,
         \A b, w : Unit(x, b, w) = Unit(check[c], b, w)
  PROVE  HsaIInv'
<1>1. OneDiffers(check, check', c) /\ check'[c] = x
  BY TablesTyped DEF OneDiffers
<1>2. /\ admitted' \in [Buckets -> Nat] /\ denied' \in [Buckets -> Nat]
      /\ count' \in [Buckets -> [HsaWindows -> Int]] /\ window' = window
  <2>1. count \in [Buckets -> [HsaWindows -> Int]]
    BY TablesTyped
  <2>. QED  BY <2>1, TablesTyped
<1>3. ASSUME NEW b \in Buckets, NEW w \in HsaWindows
      PROVE  /\ count'[b][w] + Unit(check[c], b, w) >= count[b][w] + Unit(x, b, w)
             /\ count'[b][w] <= Limit(b)
             /\ w > window => count'[b][w] = 0
  <2>1. count[b][w] \in Nat /\ Unit(x, b, w) \in Nat /\ Unit(x, b, w) = Unit(check[c], b, w)
        /\ count[b][w] <= Limit(b) /\ (w > window => count[b][w] = 0) /\ count' = count
    BY TablesTyped, Units
  <2>. QED  BY <2>1
<1>4. ASSUME NEW b \in Buckets
      PROVE  count'[b][window] + (admitted[b] + denied[b] + Unit(check[c], b, window))
             = count[b][window] + (admitted'[b] + denied'[b] + Unit(x, b, window))
  <2>1. count' = count /\ admitted' = admitted /\ denied' = denied
        /\ Unit(x, b, window) = Unit(check[c], b, window)
    OBVIOUS
  <2>. QED  BY <2>1
<1>5. Settles(c, x)
  BY <1>1, <1>2, <1>3, <1>4 DEF Settles
<1>. QED  BY <1>5, OneRequest

LEMMA BeginKeeps ==
  ASSUME HsaIInv, NEW c \in Checks, NEW a \in HsaActors, NEW t \in HsaTargets, Begin(c, a, t)
  PROVE  HsaIInv'
<1>. DEFINE x == [step |-> "waiting", actor |-> a, target |-> t, window |-> window, consumed |-> 0]
<1>1. window \in HsaWindows /\ HsaWindows \subseteq Nat
  BY TablesTyped, HsaConstants DEF HsaWindows
<1>2. x \in CheckRecord /\ Begun(x, window) /\ x.consumed = 0
  BY <1>1 DEF CheckRecord, Begun
<1>3. check' = [check EXCEPT ![c] = x] /\ UNCHANGED <<window, count, admitted, denied>>
  BY DEF Begin
<1>4. PaidBy(check[c]) = {}
  BY IdlePaysNothing DEF Begin
<1>. HIDE DEF x
<1>5. PaidBy(x) = {}
  BY <1>2 DEF PaidBy
<1>6. \A b, w : Unit(x, b, w) = Unit(check[c], b, w)
  BY <1>4, <1>5 DEF Unit
<1>. QED  BY <1>2, <1>3, <1>6, RequestMoves

LEMMA LockKeeps ==
  ASSUME HsaIInv, NEW c \in Checks, Lock(c)
  PROVE  HsaIInv'
<1>1. check[c].step # "idle"
  BY DEF Lock
<1>2. /\ check[c].actor \in HsaActors /\ check[c].target \in HsaTargets
      /\ check[c].consumed \in 0 .. 2 /\ check[c] \in CheckRecord /\ check[c].window <= window
  BY <1>1, RequestFacts, TablesTyped
<1>. DEFINE x == [check[c] EXCEPT !.step = "holding"]
<1>3. /\ x \in CheckRecord /\ x.step = "holding" /\ x.actor = check[c].actor
      /\ x.target = check[c].target /\ x.window = check[c].window /\ x.consumed = check[c].consumed
  BY <1>2 DEF CheckRecord
<1>4. check' = [check EXCEPT ![c] = x] /\ UNCHANGED <<window, count, admitted, denied>>
  BY DEF Lock
<1>. HIDE DEF x
<1>5. Begun(x, window)
  BY <1>2, <1>3 DEF Begun
<1>6. \A b, w : Unit(x, b, w) = Unit(check[c], b, w)
  BY <1>3 DEF Unit, PaidBy
<1>. QED  BY <1>3, <1>4, <1>5, <1>6, RequestMoves

\* A request that is over has nothing of its own.
LEMMA RequestOver ==
  ASSUME HsaIInv, NEW c \in Checks, check' = [check EXCEPT ![c] = NoCheck]
  PROVE  /\ OneDiffers(check, check', c) /\ check'[c] = NoCheck /\ Begun(NoCheck, window)
         /\ \A b, w : Unit(NoCheck, b, w) = 0
<1>1. NoCheck \in CheckRecord /\ Begun(NoCheck, window)
  BY HsaConstants DEF NoCheck, CheckRecord, Begun, HsaWindows
<1>2. OneDiffers(check, check', c) /\ check'[c] = NoCheck
  BY <1>1, TablesTyped DEF OneDiffers
<1>3. PaidBy(NoCheck) = {}
  BY DEF NoCheck, PaidBy
<1>. QED  BY <1>1, <1>2, <1>3 DEF Unit

\* A denial by a later bucket takes the place of the request that is over in
\* each of the buckets it consumed.
LEMMA DenyKeeps ==
  ASSUME HsaIInv, NEW c \in Checks, Deny(c)
  PROVE  HsaIInv'
<1>1. /\ check' = [check EXCEPT ![c] = NoCheck] /\ UNCHANGED <<window, count, admitted>>
      /\ denied' = IF check[c].window = window THEN Noted(denied, PaidBy(check[c])) ELSE denied
  BY PaidIs DEF Deny
<1>2. /\ OneDiffers(check, check', c) /\ check'[c] = NoCheck /\ Begun(NoCheck, window)
      /\ \A b, w : Unit(NoCheck, b, w) = 0
  BY <1>1, RequestOver
<1>3. /\ denied' \in [Buckets -> Nat]
      /\ \A b \in Buckets : denied'[b] = denied[b] + Unit(check[c], b, window)
  <2>1. denied \in [Buckets -> Nat]
    BY TablesTyped
  <2>2. CASE check[c].window = window
    BY <1>1, <2>1, <2>2 DEF Noted, Unit
  <2>3. CASE check[c].window # window
    BY <1>1, <2>1, <2>3 DEF Unit
  <2>. QED  BY <2>2, <2>3
<1>4. admitted' \in [Buckets -> Nat] /\ count' \in [Buckets -> [HsaWindows -> Int]]
  <2>1. count \in [Buckets -> [HsaWindows -> Int]]
    BY TablesTyped
  <2>. QED  BY <1>1, <2>1, TablesTyped
<1>5. ASSUME NEW b \in Buckets, NEW w \in HsaWindows
      PROVE  /\ count'[b][w] + Unit(check[c], b, w) >= count[b][w] + Unit(NoCheck, b, w)
             /\ count'[b][w] <= Limit(b)
             /\ w > window => count'[b][w] = 0
  <2>1. count[b][w] \in Nat /\ Unit(check[c], b, w) \in Nat /\ Unit(NoCheck, b, w) = 0
        /\ count[b][w] <= Limit(b) /\ (w > window => count[b][w] = 0) /\ count' = count
    BY <1>1, <1>2, TablesTyped, Units
  <2>. QED  BY <2>1
<1>6. ASSUME NEW b \in Buckets
      PROVE  count'[b][window] + (admitted[b] + denied[b] + Unit(check[c], b, window))
             = count[b][window] + (admitted'[b] + denied'[b] + Unit(NoCheck, b, window))
  <2>1. /\ count[b][window] \in Nat /\ admitted[b] \in Nat /\ denied[b] \in Nat
        /\ Unit(check[c], b, window) \in Nat /\ Unit(NoCheck, b, window) = 0
        /\ count' = count /\ admitted' = admitted
        /\ denied'[b] = denied[b] + Unit(check[c], b, window)
    BY <1>1, <1>2, <1>3, TablesTyped, Units
  <2>. QED  BY <2>1
<1>7. Settles(c, NoCheck)
  BY <1>1, <1>2, <1>3, <1>4, <1>5, <1>6 DEF Settles
<1>. QED  BY <1>7, OneRequest

-----------------------------------------------------------------------------
\* One more in the bucket and the window of the request.
Hit(b, w, b0, w0) == IF b = b0 /\ w = w0 THEN 1 ELSE 0

LEMMA ConsumeCounts ==
  ASSUME HsaIInv, NEW c \in Checks, Consume(c)
  PROVE  LET b0 == BucketOf(check[c].actor, check[c].target, check[c].consumed + 1)
             w0 == check[c].window
         IN  /\ b0 \in Buckets /\ b0 \notin PaidBy(check[c])
             /\ count' \in [Buckets -> [HsaWindows -> Int]]
             /\ \A b \in Buckets, w \in HsaWindows :
                  /\ count'[b][w] = count[b][w] + Hit(b, w, b0, w0)
                  /\ count'[b][w] <= Limit(b)
                  /\ w > window => count'[b][w] = 0
<1>. DEFINE n == check[c].consumed  a == check[c].actor  t == check[c].target
            b0 == BucketOf(a, t, n + 1)  w0 == check[c].window
<1>1. /\ a \in HsaActors /\ t \in HsaTargets /\ w0 \in HsaWindows /\ w0 <= window
      /\ n \in 0 .. 2 /\ n + 1 \in Policies
  BY RequestFacts DEF Consume
<1>2. b0 \in Buckets
  BY <1>1, BucketsOf
<1>3. b0 \notin PaidBy(check[c])
  <2>1. ASSUME NEW i \in 1 .. n
        PROVE  b0 # BucketOf(a, t, i)
    <3>1. i \in Policies /\ i # n + 1
      BY <1>1 DEF Policies
    <3>. QED  BY <1>1, <3>1, BucketsOf
  <2>. QED  BY <2>1 DEF PaidBy
<1>4. Policy(c, n + 1) = b0
  BY <1>1, PolicyIsBucket
<1>5. count[b0][w0] < Limit(b0) /\ count' = [count EXCEPT ![b0][w0] = @ + 1]
  BY <1>4 DEF Consume, Room
<1>6. /\ count \in [Buckets -> [HsaWindows -> Nat]]
      /\ \A b \in Buckets, w \in HsaWindows :
           count[b][w] \in Nat /\ count[b][w] <= Limit(b) /\ (w > window => count[b][w] = 0)
      /\ window \in Nat /\ \A w \in HsaWindows : w \in Nat
  BY TablesTyped, HsaConstants DEF HsaWindows
<1>7. Limit(b0) \in Nat
  BY <1>2, LimitType
<1>. HIDE DEF n, a, t, b0, w0
<1>8. \A b \in Buckets, w \in HsaWindows : count'[b][w] = count[b][w] + Hit(b, w, b0, w0)
  BY <1>1, <1>2, <1>5, <1>6 DEF Hit
<1>9. count' \in [Buckets -> [HsaWindows -> Int]]
  <2>1. count \in [Buckets -> [HsaWindows -> Int]] /\ count[b0][w0] + 1 \in Int
    BY <1>1, <1>2, <1>6
  <2>. QED  BY <1>1, <1>2, <1>5, <2>1
<1>10. ASSUME NEW b \in Buckets, NEW w \in HsaWindows
       PROVE  count'[b][w] <= Limit(b) /\ (w > window => count'[b][w] = 0)
  <2>1. CASE b = b0 /\ w = w0
    <3>1. count'[b][w] = count[b0][w0] + 1 /\ count[b0][w0] \in Nat /\ w \in Nat /\ w0 <= window
      BY <1>1, <1>6, <1>8, <2>1 DEF Hit
    <3>. QED  BY <1>5, <1>6, <1>7, <2>1, <3>1
  <2>2. CASE ~(b = b0 /\ w = w0)
    <3>1. count'[b][w] = count[b][w]
      BY <1>6, <1>8, <2>2 DEF Hit
    <3>. QED  BY <1>6, <3>1
  <2>. QED  BY <2>1, <2>2
<1>. QED  BY <1>2, <1>3, <1>8, <1>9, <1>10 DEF n, a, t, b0, w0

\* Allowed by the first or the second bucket.
LEMMA ConsumeFirst ==
  ASSUME HsaIInv, NEW c \in Checks, Consume(c), check[c].consumed < 2
  PROVE  HsaIInv'
<1>. DEFINE n == check[c].consumed  a == check[c].actor  t == check[c].target
            b0 == BucketOf(a, t, n + 1)  w0 == check[c].window
            x == [check[c] EXCEPT !.step = "waiting", !.consumed = n + 1]
<1>1. /\ a \in HsaActors /\ t \in HsaTargets /\ w0 <= window
      /\ n \in 0 .. 2 /\ check[c] \in CheckRecord
  BY RequestFacts, TablesTyped DEF Consume
<1>2. /\ b0 \in Buckets /\ b0 \notin PaidBy(check[c])
      /\ count' \in [Buckets -> [HsaWindows -> Int]]
      /\ \A b \in Buckets, w \in HsaWindows :
           /\ count'[b][w] = count[b][w] + Hit(b, w, b0, w0)
           /\ count'[b][w] <= Limit(b)
           /\ w > window => count'[b][w] = 0
  BY ConsumeCounts
<1>3. n + 1 \in 0 .. 3 /\ n + 1 <= 2
  BY <1>1
<1>4. /\ x \in CheckRecord /\ x.step = "waiting" /\ x.actor = a /\ x.target = t
      /\ x.window = w0 /\ x.consumed = n + 1
  <2>. DEFINE m == n + 1
  <2>1. m \in 0 .. 3
    BY <1>3
  <2>. HIDE DEF m
  <2>2. /\ [check[c] EXCEPT !.step = "waiting", !.consumed = m] \in CheckRecord
        /\ [check[c] EXCEPT !.step = "waiting", !.consumed = m].step = "waiting"
        /\ [check[c] EXCEPT !.step = "waiting", !.consumed = m].actor = a
        /\ [check[c] EXCEPT !.step = "waiting", !.consumed = m].target = t
        /\ [check[c] EXCEPT !.step = "waiting", !.consumed = m].window = w0
        /\ [check[c] EXCEPT !.step = "waiting", !.consumed = m].consumed = m
    BY <1>1, <2>1 DEF CheckRecord
  <2>. QED  BY <2>2 DEF m
<1>5. check' = [check EXCEPT ![c] = x] /\ UNCHANGED <<window, admitted, denied>>
  <2>1. check' = [check EXCEPT ![c].step = "waiting", ![c].consumed = @ + 1]
        /\ UNCHANGED <<window, admitted, denied>>
    BY DEF Consume
  <2>. QED  BY <1>1, <2>1, TablesTyped
<1>6. \A i : i \in 1 .. n + 1 <=> i \in 1 .. n \/ i = n + 1
  BY <1>1
<1>7. PaidBy(x) = PaidBy(check[c]) \cup {b0}
  <2>. HIDE DEF n, x
  <2>. QED  BY <1>4, <1>6 DEF PaidBy, n
<1>. HIDE DEF n, a, t, b0, w0, x
<1>8. \A b, w : Unit(x, b, w) = Unit(check[c], b, w) + Hit(b, w, b0, w0)
  BY <1>2, <1>4, <1>7 DEF Unit, Hit, w0
<1>9. OneDiffers(check, check', c) /\ check'[c] = x /\ Begun(x, window)
  <2>1. OneDiffers(check, check', c) /\ check'[c] = x
    BY <1>4, <1>5, TablesTyped DEF OneDiffers
  <2>2. Begun(x, window)
    BY <1>1, <1>4, <1>3 DEF Begun
  <2>. QED  BY <2>1, <2>2
<1>10. ASSUME NEW b \in Buckets, NEW w \in HsaWindows
      PROVE  count'[b][w] + Unit(check[c], b, w) = count[b][w] + Unit(x, b, w)
  <2>1. count[b][w] \in Nat /\ Unit(check[c], b, w) \in Nat /\ Hit(b, w, b0, w0) \in Nat
    BY TablesTyped, Units DEF Hit
  <2>. QED  BY <1>2, <1>8, <2>1
<1>11. ASSUME NEW b \in Buckets, NEW w \in HsaWindows
       PROVE  count'[b][w] + Unit(check[c], b, w) >= count[b][w] + Unit(x, b, w)
  <2>1. count[b][w] \in Nat /\ Unit(x, b, w) \in Nat
    BY TablesTyped, Units
  <2>. QED  BY <1>10, <2>1
<1>12. ASSUME NEW b \in Buckets
       PROVE  count'[b][window] + (admitted[b] + denied[b] + Unit(check[c], b, window))
              = count[b][window] + (admitted'[b] + denied'[b] + Unit(x, b, window))
  <2>1. /\ count[b][window] \in Nat /\ Unit(check[c], b, window) \in Nat
        /\ Hit(b, window, b0, w0) \in Nat /\ admitted[b] \in Nat /\ denied[b] \in Nat
        /\ admitted' = admitted /\ denied' = denied
    BY <1>5, TablesTyped, Units DEF Hit
  <2>2. count'[b][window] = count[b][window] + Hit(b, window, b0, w0)
    BY <1>2, TablesTyped
  <2>. QED  BY <1>8, <2>1, <2>2
<1>13. admitted' \in [Buckets -> Nat] /\ denied' \in [Buckets -> Nat] /\ window' = window
  BY <1>5, TablesTyped
<1>14. Settles(c, x)
  BY <1>2, <1>9, <1>11, <1>12, <1>13 DEF Settles
<1>. QED  BY <1>14, OneRequest

\* Allowed by all three.
LEMMA ConsumeLast ==
  ASSUME HsaIInv, NEW c \in Checks, Consume(c), ~(check[c].consumed < 2)
  PROVE  HsaIInv'
<1>. DEFINE n == check[c].consumed  a == check[c].actor  t == check[c].target
            b0 == BucketOf(a, t, n + 1)  w0 == check[c].window
<1>1. n + 1 \in Policies /\ w0 \in HsaWindows
  BY RequestFacts DEF Consume
<1>2. /\ b0 \in Buckets /\ b0 \notin PaidBy(check[c])
      /\ count' \in [Buckets -> [HsaWindows -> Int]]
      /\ \A b \in Buckets, w \in HsaWindows :
           /\ count'[b][w] = count[b][w] + Hit(b, w, b0, w0)
           /\ count'[b][w] <= Limit(b)
           /\ w > window => count'[b][w] = 0
  BY ConsumeCounts
<1>3. Policy(c, n + 1) = b0
  BY <1>1, PolicyIsBucket
<1>4. /\ check' = [check EXCEPT ![c] = NoCheck] /\ UNCHANGED <<window, denied>>
      /\ admitted' = IF w0 = window THEN Noted(admitted, PaidBy(check[c]) \cup {b0}) ELSE admitted
  BY <1>3, PaidIs DEF Consume
<1>5. /\ OneDiffers(check, check', c) /\ check'[c] = NoCheck /\ Begun(NoCheck, window)
      /\ \A b, w : Unit(NoCheck, b, w) = 0
  BY <1>4, RequestOver
<1>. HIDE DEF n, a, t, b0
<1>6. /\ admitted' \in [Buckets -> Nat]
      /\ \A b \in Buckets :
           admitted'[b] = admitted[b] + (Unit(check[c], b, window) + Hit(b, window, b0, w0))
  <2>1. admitted \in [Buckets -> Nat]
    BY TablesTyped
  <2>2. CASE w0 = window
    <3>1. admitted' = Noted(admitted, PaidBy(check[c]) \cup {b0})
      BY <1>4, <2>2
    <3>2. \A b \in Buckets : (Unit(check[c], b, window) + Hit(b, window, b0, w0))
                               = IF b \in PaidBy(check[c]) \cup {b0} THEN 1 ELSE 0
      BY <1>2, <2>2 DEF Unit, Hit
    <3>. QED  BY <2>1, <3>1, <3>2 DEF Noted
  <2>3. CASE w0 # window
    <3>1. \A b \in Buckets : Unit(check[c], b, window) = 0 /\ Hit(b, window, b0, w0) = 0
      BY <2>3 DEF Unit, Hit
    <3>. QED  BY <1>4, <2>1, <2>3, <3>1
  <2>. QED  BY <2>2, <2>3
<1>. HIDE DEF w0
<1>7. ASSUME NEW b \in Buckets, NEW w \in HsaWindows
      PROVE  count'[b][w] + Unit(check[c], b, w) >= count[b][w] + Unit(NoCheck, b, w)
  <2>1. count[b][w] \in Nat /\ Unit(check[c], b, w) \in Nat /\ Hit(b, w, b0, w0) \in Nat
        /\ Unit(NoCheck, b, w) = 0
    BY <1>5, TablesTyped, Units DEF Hit
  <2>. QED  BY <1>2, <2>1
<1>8. ASSUME NEW b \in Buckets
      PROVE  count'[b][window] + (admitted[b] + denied[b] + Unit(check[c], b, window))
             = count[b][window] + (admitted'[b] + denied'[b] + Unit(NoCheck, b, window))
  <2>1. /\ count[b][window] \in Nat /\ Unit(check[c], b, window) \in Nat
        /\ Hit(b, window, b0, w0) \in Nat /\ admitted[b] \in Nat /\ denied[b] \in Nat
        /\ denied' = denied /\ Unit(NoCheck, b, window) = 0
    BY <1>4, <1>5, TablesTyped, Units DEF Hit
  <2>2. count'[b][window] = count[b][window] + Hit(b, window, b0, w0)
    BY <1>2, TablesTyped
  <2>. QED  BY <1>6, <2>1, <2>2
<1>9. denied' \in [Buckets -> Nat] /\ window' = window
  BY <1>4, TablesTyped
<1>10. Settles(c, NoCheck)
  BY <1>2, <1>5, <1>6, <1>7, <1>8, <1>9 DEF Settles
<1>. QED  BY <1>10, OneRequest

\* A request that fails takes back exactly the units it has.
LEMMA RollbackKeeps ==
  ASSUME HsaIInv, NEW c \in Checks, Rollback(c)
  PROVE  HsaIInv'
<1>. DEFINE w0 == check[c].window
<1>1. w0 \in HsaWindows /\ w0 <= window
  BY RequestFacts DEF Rollback
<1>2. /\ check' = [check EXCEPT ![c] = NoCheck] /\ UNCHANGED <<window, admitted, denied>>
      /\ count' = [b \in Buckets |->
           [count[b] EXCEPT ![w0] = IF b \in PaidBy(check[c]) THEN @ - 1 ELSE @]]
  BY PaidIs DEF Rollback
<1>3. /\ OneDiffers(check, check', c) /\ check'[c] = NoCheck /\ Begun(NoCheck, window)
      /\ \A b, w : Unit(NoCheck, b, w) = 0
  BY <1>2, RequestOver
<1>4. /\ count \in [Buckets -> [HsaWindows -> Nat]]
      /\ \A b \in Buckets, w \in HsaWindows :
           count[b][w] \in Nat /\ count[b][w] <= Limit(b) /\ (w > window => count[b][w] = 0)
      /\ window \in Nat /\ \A w \in HsaWindows : w \in Nat
  BY TablesTyped, HsaConstants DEF HsaWindows
<1>5. ASSUME NEW b \in Buckets
      PROVE  /\ count'[b] \in [HsaWindows -> Int]
             /\ \A w \in HsaWindows : count'[b][w] = count[b][w] - Unit(check[c], b, w)
  <2>1. count[b] \in [HsaWindows -> Nat]
    BY <1>4
  <2>2. CASE b \in PaidBy(check[c])
    <3>1. count'[b] = [count[b] EXCEPT ![w0] = @ - 1]
      BY <1>2, <2>2
    <3>2. count[b][w0] - 1 \in Int
      BY <1>1, <2>1
    <3>. QED  BY <1>1, <2>1, <2>2, <3>1, <3>2 DEF Unit
  <2>3. CASE b \notin PaidBy(check[c])
    <3>1. count'[b] = count[b]
      BY <1>1, <1>2, <2>1, <2>3
    <3>. QED  BY <2>1, <2>3, <3>1 DEF Unit
  <2>. QED  BY <2>2, <2>3
<1>6. count' \in [Buckets -> [HsaWindows -> Int]]
  <2>1. count' = [b \in Buckets |-> count'[b]]
    BY <1>2
  <2>. QED  BY <1>5, <2>1
<1>7. ASSUME NEW b \in Buckets, NEW w \in HsaWindows
      PROVE  /\ count'[b][w] + Unit(check[c], b, w) >= count[b][w] + Unit(NoCheck, b, w)
             /\ count'[b][w] <= Limit(b)
             /\ w > window => count'[b][w] = 0
  <2>1. /\ count[b][w] \in Nat /\ count[b][w] <= Limit(b) /\ (w > window => count[b][w] = 0)
        /\ Unit(check[c], b, w) \in Nat /\ Unit(NoCheck, b, w) = 0 /\ Limit(b) \in Nat
        /\ count'[b][w] = count[b][w] - Unit(check[c], b, w)
    BY <1>3, <1>4, <1>5, Units, LimitType
  <2>2. w > window => Unit(check[c], b, w) = 0
    <3>1. w > window => w # w0
      BY <1>1, <1>4
    <3>. QED  BY <3>1 DEF Unit
  <2>. QED  BY <2>1, <2>2
<1>8. ASSUME NEW b \in Buckets
      PROVE  count'[b][window] + (admitted[b] + denied[b] + Unit(check[c], b, window))
             = count[b][window] + (admitted'[b] + denied'[b] + Unit(NoCheck, b, window))
  <2>1. /\ count[b][window] \in Nat /\ Unit(check[c], b, window) \in Nat
        /\ admitted[b] \in Nat /\ denied[b] \in Nat /\ admitted' = admitted /\ denied' = denied
        /\ Unit(NoCheck, b, window) = 0
        /\ count'[b][window] = count[b][window] - Unit(check[c], b, window)
    BY <1>2, <1>3, <1>5, TablesTyped, Units
  <2>. QED  BY <2>1
<1>9. admitted' \in [Buckets -> Nat] /\ denied' \in [Buckets -> Nat] /\ window' = window
  BY <1>2, TablesTyped
<1>10. Settles(c, NoCheck)
  BY <1>3, <1>6, <1>7, <1>8, <1>9 DEF Settles
<1>. QED  BY <1>10, OneRequest

-----------------------------------------------------------------------------
(***************************************************************************)
(* The tables.                                                             *)
(***************************************************************************)
\* The clean-up skips the rows that a request has written.
LEMMA PurgeKeeps ==
  ASSUME HsaIInv, PurgeBuckets
  PROVE  HsaIInv'
<1>1. PICK b0 \in Buckets, w0 \in HsaWindows :
        /\ w0 < window
        /\ \A c \in Checks : check[c].step # "idle" /\ check[c].window = w0 => b0 \notin Locks(c)
        /\ count' = [count EXCEPT ![b0][w0] = 0]
        /\ UNCHANGED <<window, check, admitted, denied>>
  BY DEF PurgeBuckets, Over
<1>2. ASSUME NEW c \in Checks, check[c].window = w0
      PROVE  b0 \notin PaidBy(check[c])
  <2>1. CASE check[c].step = "idle"
    BY <2>1, IdlePaysNothing
  <2>2. CASE check[c].step # "idle"
    <3>1. check[c].consumed \in 0 .. 2
      BY <2>2, RequestFacts
    <3>2. \A i \in 1 .. check[c].consumed :
            i \in 1 .. (check[c].consumed + IF check[c].step = "holding" THEN 1 ELSE 0)
      BY <3>1
    <3>3. Paid(c) \subseteq Locks(c)
      BY <3>2 DEF Paid, Locks
    <3>. QED  BY <1>1, <1>2, <2>2, <3>3, PaidIs
  <2>. QED  BY <2>1, <2>2
<1>3. Takers(check, b0, w0) = {}
  BY <1>2 DEF Takers
<1>4. /\ count' \in [Buckets -> [HsaWindows -> Nat]]
      /\ \A b \in Buckets, w \in HsaWindows :
           count'[b][w] = IF b = b0 /\ w = w0 THEN 0 ELSE count[b][w]
  BY <1>1, TablesTyped
<1>5. HsaTypeOK'
  BY <1>1, <1>4 DEF HsaIInv, HsaTypeOK
<1>6. \A b \in Buckets : Limit(b) \in Nat
  BY LimitType
<1>7. HsaKept'
  <2>1. ASSUME NEW b \in Buckets, NEW w \in HsaWindows
        PROVE  /\ Cardinality(Takers(check, b, w)) <= count'[b][w]
               /\ count'[b][w] <= Limit(b)
               /\ w > window => count'[b][w] = 0
    <3>1. CASE b = b0 /\ w = w0
      <4>1. Cardinality(Takers(check, b, w)) = 0
        BY <1>3, <3>1, FS_EmptySet
      <4>. QED  BY <1>4, <1>6, <3>1, <4>1
    <3>2. CASE ~(b = b0 /\ w = w0)
      BY <1>4, <3>2 DEF HsaIInv, HsaKept
    <3>. QED  BY <3>1, <3>2
  <2>2. window' = window /\ check' = check
    BY <1>1
  <2>. QED  BY <2>1, <2>2 DEF HsaKept, HsaIInv
<1>8. HsaCharged'
  <2>1. \A b \in Buckets : count'[b][window] = count[b][window]
    <3>1. window # w0 /\ window \in HsaWindows
      BY <1>1, TablesTyped, HsaConstants DEF HsaWindows
    <3>. QED  BY <1>4, <3>1
  <2>2. window' = window /\ check' = check /\ admitted' = admitted /\ denied' = denied
    BY <1>1
  <2>. QED  BY <2>1, <2>2 DEF HsaCharged, HsaIInv
<1>. QED  BY <1>5, <1>7, <1>8 DEF HsaIInv

\* An erasure waits for the rows that requests have written, so it takes away
\* no unit that somebody may still take back.
LEMMA EraseKeeps ==
  ASSUME HsaIInv, NEW person \in Buckets, EraseSubject(person)
  PROVE  HsaIInv'
<1>1. /\ \A c \in Checks : PaidBy(check[c]) \cap About(person) = {}
      /\ count' = [b \in Buckets |->
           IF b \in About(person) THEN [w \in HsaWindows |-> 0] ELSE count[b]]
      /\ admitted' = Forget(admitted, person) /\ denied' = Forget(denied, person)
      /\ window' = window /\ check' = check
  BY PaidIs DEF EraseSubject
<1>2. \A b \in About(person) : \A w : Takers(check, b, w) = {}
  BY <1>1 DEF Takers
<1>3. /\ count' \in [Buckets -> [HsaWindows -> Nat]]
      /\ admitted' \in [Buckets -> Nat] /\ denied' \in [Buckets -> Nat]
  BY <1>1, TablesTyped DEF Forget
<1>4. HsaTypeOK'
  BY <1>1, <1>3 DEF HsaIInv, HsaTypeOK
<1>5. ASSUME NEW b \in Buckets, b \in About(person)
      PROVE  /\ \A w \in HsaWindows : count'[b][w] = 0
             /\ admitted'[b] = 0 /\ denied'[b] = 0
             /\ \A w : Cardinality(Takers(check, b, w)) = 0
  <2>1. \A w : Cardinality(Takers(check, b, w)) = 0
    BY <1>2, <1>5, FS_EmptySet
  <2>. QED  BY <1>1, <1>5, <2>1 DEF Forget
<1>6. ASSUME NEW b \in Buckets, b \notin About(person)
      PROVE  count'[b] = count[b] /\ admitted'[b] = admitted[b] /\ denied'[b] = denied[b]
  BY <1>1, <1>6 DEF Forget
<1>7. HsaKept'
  <2>1. ASSUME NEW b \in Buckets, NEW w \in HsaWindows
        PROVE  /\ Cardinality(Takers(check, b, w)) <= count'[b][w]
               /\ count'[b][w] <= Limit(b)
               /\ w > window => count'[b][w] = 0
    <3>1. CASE b \in About(person)
      <4>1. Limit(b) \in Nat
        BY LimitType
      <4>. QED  BY <1>5, <3>1, <4>1
    <3>2. CASE b \notin About(person)
      BY <1>6, <3>2 DEF HsaIInv, HsaKept
    <3>. QED  BY <3>1, <3>2
  <2>. QED  BY <1>1, <2>1 DEF HsaKept, HsaIInv
<1>8. HsaCharged'
  <2>1. ASSUME NEW b \in Buckets
        PROVE  count'[b][window]
                 = admitted'[b] + denied'[b] + Cardinality(Takers(check, b, window))
    <3>1. CASE b \in About(person)
      BY <1>5, <3>1, TablesTyped
    <3>2. CASE b \notin About(person)
      BY <1>6, <3>2 DEF HsaIInv, HsaCharged
    <3>. QED  BY <3>1, <3>2
  <2>. QED  BY <1>1, <2>1 DEF HsaCharged
<1>. QED  BY <1>4, <1>7, <1>8 DEF HsaIInv

\* A new window has no row and nobody in it.
LEMMA HsaTickKeeps ==
  ASSUME HsaIInv, HsaTick
  PROVE  HsaIInv'
<1>1. /\ window < MaxWindow /\ window' = window + 1 /\ count' = count /\ check' = check
      /\ admitted' = [b \in Buckets |-> 0] /\ denied' = [b \in Buckets |-> 0]
  BY DEF HsaTick
<1>2. window \in Nat /\ MaxWindow \in Nat /\ window + 1 \in HsaWindows /\ \A w \in HsaWindows : w \in Nat
  BY <1>1, TablesTyped, HsaConstants DEF HsaWindows
<1>3. HsaTypeOK'
  BY <1>1, <1>2 DEF HsaIInv, HsaTypeOK
<1>4. ASSUME NEW c \in Checks
      PROVE  Begun(check[c], window + 1) /\ (check[c].window = window + 1 => PaidBy(check[c]) = {})
  <2>1. CASE check[c].step = "idle"
    BY <2>1, IdlePaysNothing DEF Begun, NoCheck
  <2>2. CASE check[c].step # "idle"
    <3>1. check[c].window \in Nat /\ check[c].window <= window
      BY <1>2, <2>2, RequestFacts
    <3>2. Begun(check[c], window)
      BY DEF HsaIInv, HsaKept
    <3>. QED  BY <1>2, <2>2, <3>1, <3>2 DEF Begun
  <2>. QED  BY <2>1, <2>2
<1>5. HsaKept'
  <2>1. \A w \in HsaWindows : w > window + 1 => w > window
    BY <1>2
  <2>. QED  BY <1>1, <1>4, <2>1 DEF HsaKept, HsaIInv
<1>6. \A b : Takers(check, b, window + 1) = {}
  BY <1>4 DEF Takers
<1>7. HsaCharged'
  <2>1. ASSUME NEW b \in Buckets
        PROVE  count[b][window + 1] = 0 + 0 + Cardinality(Takers(check, b, window + 1))
    <3>1. count[b][window + 1] = 0
      BY <1>2, TablesTyped
    <3>2. Cardinality(Takers(check, b, window + 1)) = 0
      BY <1>6, FS_EmptySet
    <3>. QED  BY <3>1, <3>2
  <2>2. \A b \in Buckets : admitted'[b] = 0 /\ denied'[b] = 0
    BY <1>1
  <2>. QED  BY <1>1, <2>1, <2>2 DEF HsaCharged
<1>. QED  BY <1>3, <1>5, <1>7 DEF HsaIInv

-----------------------------------------------------------------------------
LEMMA HsaInitially == ASSUME HsaInit PROVE HsaIInv
<1>1. HsaTypeOK
  BY HsaConstants DEF HsaInit, HsaTypeOK, NoCheck, HsaWindows
<1>2. \A c \in Checks : check[c] = NoCheck /\ PaidBy(check[c]) = {}
  BY DEF HsaInit, NoCheck, PaidBy
<1>3. \A b, w : Cardinality(Takers(check, b, w)) = 0
  <2>1. \A b, w : Takers(check, b, w) = {}
    BY <1>2 DEF Takers
  <2>. QED  BY <2>1, FS_EmptySet
<1>4. \A b \in Buckets : admitted[b] = 0 /\ denied[b] = 0 /\ Limit(b) \in Nat
  BY LimitType DEF HsaInit
<1>5. \A b \in Buckets, w \in HsaWindows : count[b][w] = 0
  BY DEF HsaInit
<1>6. window \in HsaWindows
  BY <1>1 DEF HsaTypeOK
<1>7. HsaKept
  BY <1>2, <1>3, <1>4, <1>5 DEF HsaKept, Begun, NoCheck
<1>8. HsaCharged
  BY <1>3, <1>4, <1>5, <1>6 DEF HsaCharged
<1>. QED  BY <1>1, <1>7, <1>8 DEF HsaIInv

LEMMA HsaStep == ASSUME HsaIInv, [HsaNext]_hsaVars PROVE HsaIInv'
<1>1. CASE UNCHANGED hsaVars
  BY <1>1 DEF hsaVars, HsaIInv, HsaTypeOK, HsaKept, HsaCharged
<1>2. ASSUME NEW c \in Checks, NEW a \in HsaActors, NEW t \in HsaTargets, Begin(c, a, t)
      PROVE  HsaIInv'
  BY <1>2, BeginKeeps
<1>3. ASSUME NEW c \in Checks, Lock(c)
      PROVE  HsaIInv'
  BY <1>3, LockKeeps
<1>4. ASSUME NEW c \in Checks, Consume(c)
      PROVE  HsaIInv'
  BY <1>4, ConsumeFirst, ConsumeLast
<1>5. ASSUME NEW c \in Checks, Deny(c)
      PROVE  HsaIInv'
  BY <1>5, DenyKeeps
<1>6. ASSUME NEW c \in Checks, Rollback(c)
      PROVE  HsaIInv'
  BY <1>6, RollbackKeeps
<1>7. ASSUME NEW person \in Buckets, EraseSubject(person)
      PROVE  HsaIInv'
  BY <1>7, EraseKeeps
<1>. QED
  BY <1>1, <1>2, <1>3, <1>4, <1>5, <1>6, <1>7, PurgeKeeps, HsaTickKeeps DEF HsaNext

LEMMA HsaInductive == HsaSpec => []HsaIInv
<1>1. HsaInit => HsaIInv
  BY HsaInitially
<1>2. HsaIInv /\ [HsaNext]_hsaVars => HsaIInv'
  BY HsaStep
<1>. QED  BY <1>1, <1>2, PTL DEF HsaSpec

-----------------------------------------------------------------------------
\* The rows, the requests and what is counted stay well typed.
THEOREM HsaTypeCorrect == HsaSpec => []HsaTypeOK
<1>1. HsaIInv => HsaTypeOK
  BY DEF HsaIInv
<1>. QED  BY <1>1, HsaInductive, PTL

\* For any number of people and racing requests on all nodes, and whenever a
\* person is erased, every bucket of the current window holds exactly what its
\* requests since its last erasure account for, and no actor, pair or target is
\* allowed more than its limit since then (consumeHsaVerificationQuota).
THEOREM HsaQuotaIsExact == HsaSpec => []HsaQuotaExact
<1>1. ASSUME HsaIInv PROVE HsaQuotaExact
  <2>1. ASSUME NEW b \in Buckets
        PROVE  /\ admitted[b] <= Limit(b)
               /\ count[b][window] = admitted[b] + denied[b] + Cardinality(UnderWay(b))
    <3>1. UnderWay(b) = Takers(check, b, window)
      BY <1>1, PaidIs DEF UnderWay, Takers
    <3>2. count[b][window] = admitted[b] + denied[b] + Cardinality(Takers(check, b, window))
      BY <1>1 DEF HsaIInv, HsaCharged
    <3>3. /\ count[b][window] \in Nat /\ count[b][window] <= Limit(b) /\ Limit(b) \in Nat
          /\ admitted[b] \in Nat /\ denied[b] \in Nat
      BY <1>1, TablesTyped, LimitType
    <3>4. Cardinality(Takers(check, b, window)) \in Nat
      <4>1. IsFiniteSet(Takers(check, b, window))
        BY HsaConstants, FS_Subset DEF Takers
      <4>. QED  BY <4>1, FS_CardinalityType
    <3>5. admitted[b] <= Limit(b)
      BY <3>2, <3>3, <3>4
    <3>. QED  BY <3>1, <3>2, <3>5
  <2>. QED  BY <2>1 DEF HsaQuotaExact
<1>. QED  BY <1>1, HsaInductive, PTL
=============================================================================
