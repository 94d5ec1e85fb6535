---------------------------- MODULE AiRunProofs ----------------------------
(***************************************************************************)
(* What the coordination of AI runs guarantees for every number of runs,   *)
(* probes and models and every limit.  The argument has two layers: Next   *)
(* is a step of the tables under the conditions the local variables of the *)
(* instances guarantee (StoreStep), and each invariant of the tables is    *)
(* preserved by StoreStep.                                                 *)
(***************************************************************************)
EXTENDS AiRunCoordination, FiniteSetTheorems, TLAPS

Tables == [Ids -> EntryType]

Fits(t) ==
  /\ Cardinality(Holding(t)) <= MaxConnection
  /\ \A m \in Models : Cardinality(Holding(t) \cap Of(t, m)) <= MaxModel

\* Every entry names a model.
RowsNameModels == \A i \in Present(entry) : entry[i].model \in Models

\* What a generator's program counter says about its entry, unless the entry
\* is gone.
Agrees(v, e) ==
  /\ v.pc = "idle" => v.attempt = 0
  /\ v.pc = "queued" =>
       v.attempt = 0 /\ (e.status # "none" => e.status = "queued" /\ e.attempts = 0)
  /\ v.pc = "retry_wait" =>
       v.attempt = 1 /\ (e.status # "none" => e.status = "retry_wait" /\ e.attempts = 1)
  /\ v.pc = "running" /\ e.status # "none" =>
       e.status = "running" /\ e.attempts = v.attempt
  /\ v.pc = "settling" => v.outcome # "none"
  /\ v.pc = "settling" /\ e.status = "running" /\ e.lease = "valid" =>
       e.attempts = v.attempt

RunsAgree == \A r \in Runs : Agrees(run[r], entry[r])

\* A probe id that was drawn but not used yet names nothing; no two models
\* name the same probe.
ProbesAgree ==
  /\ \A p \in Probes :
       /\ probe[p].pc = "listed" => Fresh(p)
       /\ probe[p].pc # "idle" => probe[p].model \in Models
  /\ \A m, n \in Models : op[m].holder = op[n].holder =>
       m = n \/ op[m].holder = NoProbe

\* A closed breaker has room for one more failure and has used no trial; any
\* other has a reason.
Consistent(s) ==
  /\ s.breaker = "closed" =>
       s.reason = "none" /\ s.failures < FailureLimit /\ s.recoveries = 0
  /\ s.breaker # "closed" => s.reason # "none"

BreakerConsistent == \A m \in Models : Consistent(op[m])

IInv ==
  /\ TypeOK /\ RowsNameModels /\ RunsAgree /\ ProbesAgree
  /\ CapacityRespected /\ ProbeOccupiesSlot
  /\ SuspensionReachesRuns /\ BreakerConsistent

-----------------------------------------------------------------------------
(***************************************************************************)
(* Facts about tables.                                                     *)
(***************************************************************************)
\* Removing entries leaves the others as they were, save the order.
Kept(a, b) ==
  /\ b.status = a.status /\ b.model = a.model /\ b.lease = a.lease
  /\ b.cancelled = a.cancelled /\ b.attempts = a.attempts

\* An absent row is well typed.
LEMMA NoEntryType == NoEntry \in EntryType
  BY DEF NoEntry, EntryType

\* Deleting rows leaves the others as they were, but for whom they wait behind.
LEMMA WithoutFacts ==
  ASSUME NEW t \in Tables, NEW S
  PROVE  /\ Without(t, S) \in Tables
         /\ \A i \in Ids \cap S : Without(t, S)[i] = NoEntry
         /\ \A i \in Ids \ S : Kept(t[i], Without(t, S)[i])
<1>1. \A i \in Ids : [t[i] EXCEPT !.earlier = @ \ S] \in EntryType
  BY DEF Tables, EntryType
<1>2. Without(t, S) \in Tables
  BY <1>1, NoEntryType DEF Without, Tables
<1>3. \A i \in Ids \ S : Kept(t[i], Without(t, S)[i])
  BY DEF Without, Kept, Tables, EntryType
<1>. QED  BY <1>2, <1>3 DEF Without

\* A purge deletes no valid lease and changes no other row.
LEMMA PurgeFacts ==
  ASSUME NEW t \in Tables
  PROVE  /\ Purge(t) \in Tables
         /\ \A i \in Ids : Purge(t)[i] = NoEntry \/ Kept(t[i], Purge(t)[i])
         /\ Holding(Purge(t)) = Holding(t)
<1> DEFINE S == Lapsed(t) \cup {i \in Waiting(t) : t[i].late}
<1>1. Purge(t) = Without(t, S)
  BY DEF Purge
<1>2. S \cap Holding(t) = {}
  BY DEF Lapsed, Waiting, Holding
<1> HIDE DEF S
<1>3. \A i \in Ids : i \in S \/ Kept(t[i], Purge(t)[i])
  BY <1>1, WithoutFacts
<1>4. Holding(Purge(t)) = Holding(t)
  BY <1>1, <1>2, WithoutFacts DEF Holding, Kept, NoEntry
<1>. QED  BY <1>1, <1>3, <1>4, WithoutFacts

\* The valid leases can be counted.
LEMMA HoldingFinite ==
  ASSUME NEW t
  PROVE  /\ IsFiniteSet(Holding(t))
         /\ \A m : IsFiniteSet(Holding(t) \cap Of(t, m))
<1>1. IsFiniteSet(Ids)
  BY StoreAssumption DEF Ids
<1>2. Holding(t) \subseteq Ids
  BY DEF Holding
<1>3. \A m : Holding(t) \cap Of(t, m) \subseteq Ids
  BY <1>2
<1>. QED  BY <1>1, <1>2, <1>3, FS_Subset

\* A part of a bounded set is bounded.
LEMMA SubsetBound ==
  ASSUME NEW A, NEW B, IsFiniteSet(B), A \subseteq B, NEW max \in Nat,
         Cardinality(B) <= max
  PROVE  Cardinality(A) <= max
<1>1. Cardinality(A) <= Cardinality(B) /\ IsFiniteSet(A)
  BY FS_Subset
<1>2. Cardinality(A) \in Nat /\ Cardinality(B) \in Nat
  BY <1>1, FS_CardinalityType
<1>. QED  BY <1>1, <1>2

\* Below the limit there is room for one more.
LEMMA AddOneBound ==
  ASSUME NEW A, NEW B, NEW x, IsFiniteSet(B), A \subseteq B \cup {x},
         NEW max \in Nat, ~(Cardinality(B) >= max)
  PROVE  Cardinality(A) <= max
<1>1. /\ IsFiniteSet(B \cup {x})
      /\ Cardinality(B \cup {x}) =
           IF x \in B THEN Cardinality(B) ELSE Cardinality(B) + 1
  BY FS_AddElement
<1>2. Cardinality(B) \in Nat
  BY FS_CardinalityType
<1>3. Cardinality(B \cup {x}) <= max
  BY <1>1, <1>2
<1>. QED  BY <1>1, <1>3, SubsetBound

\* A step that gives no new lease keeps within the limits.
LEMMA FitsShrinks ==
  ASSUME NEW t \in Tables, NEW u \in Tables, Fits(t),
         \A i \in Holding(u) : i \in Holding(t) /\ u[i].model = t[i].model
  PROVE  Fits(u)
<1>1. Holding(u) \subseteq Holding(t)
  OBVIOUS
<1>2. \A m : Holding(u) \cap Of(u, m) \subseteq Holding(t) \cap Of(t, m)
  BY DEF Of
<1>3. Cardinality(Holding(u)) <= MaxConnection
  BY <1>1, HoldingFinite, SubsetBound, StoreAssumption DEF Fits
<1>4. ASSUME NEW m \in Models
      PROVE  Cardinality(Holding(u) \cap Of(u, m)) <= MaxModel
  BY <1>2, HoldingFinite, SubsetBound, StoreAssumption DEF Fits
<1>. QED  BY <1>3, <1>4 DEF Fits

\* A new lease that is given when neither limit is reached keeps within them.
LEMMA FitsGrows ==
  ASSUME NEW t \in Tables, NEW u \in Tables, NEW x \in Ids, NEW k \in Models,
         Fits(t), ~ConnectionFull(t), ~ModelFull(t, k),
         u[x].model = k,
         \A i \in Holding(u) \ {x} : i \in Holding(t) /\ u[i].model = t[i].model
  PROVE  Fits(u)
<1>1. Holding(u) \subseteq Holding(t) \cup {x}
  OBVIOUS
<1>2. \A m : Holding(u) \cap Of(u, m) \subseteq (Holding(t) \cap Of(t, m)) \cup {x}
  BY DEF Of
<1>3. \A m : m # k =>
        Holding(u) \cap Of(u, m) \subseteq Holding(t) \cap Of(t, m)
  BY DEF Of
<1>4. Cardinality(Holding(u)) <= MaxConnection
  BY <1>1, HoldingFinite, AddOneBound, StoreAssumption DEF ConnectionFull
<1>5. ASSUME NEW m \in Models, m # k
      PROVE  Cardinality(Holding(u) \cap Of(u, m)) <= MaxModel
  BY <1>3, <1>5, HoldingFinite, SubsetBound, StoreAssumption DEF Fits
<1>6. Cardinality(Holding(u) \cap Of(u, k)) <= MaxModel
  BY <1>2, HoldingFinite, AddOneBound, StoreAssumption DEF ModelFull
<1>. QED  BY <1>4, <1>5, <1>6 DEF Fits

-----------------------------------------------------------------------------
(***************************************************************************)
(* The kinds of steps the tables take.  Each says what a statement does    *)
(* under the conditions its caller guarantees.                             *)
(***************************************************************************)
Ended == {"completed", "authentication_failed", "unavailable", "stopped"}
Results == {"succeeded", "failed", "authentication_failed", "capability_mismatch"}

\* Entries that hold no valid lease may go.
Shrinks(t, u) ==
  /\ u \in Tables
  /\ \A i \in Ids : u[i].status = "none" \/ Kept(t[i], u[i])
  /\ Holding(u) = Holding(t)

Removal == Shrinks(entry, entry') /\ UNCHANGED <<op, settings>>

Queueing(r, m, t) ==
  /\ Shrinks(entry, t) /\ r \notin Present(entry) /\ Admits(m)
  /\ entry' = Queued(t, r, m)
  /\ UNCHANGED <<op, settings>>

Leasing(r, t) ==
  /\ Shrinks(entry, t)
  /\ r \in Waiting(t) /\ t[r].attempts < 2 /\ ~t[r].cancelled
  /\ verified[t[r].model] /\ op[t[r].model].breaker = "closed"
  /\ ~ConnectionFull(t) /\ ~ModelFull(t, t[r].model)
  /\ entry' = Leased(t, r)
  /\ UNCHANGED <<op, settings>>

Requeueing(r) ==
  /\ r \in Holding(entry)
  /\ entry' = Requeued(entry, r)
  /\ UNCHANGED <<op, settings>>

Finishing(r, outcome) ==
  /\ r \in Holding(entry)
  /\ op' = [op EXCEPT ![entry[r].model] = AfterRun(@, outcome)]
  /\ entry' = Without(entry, {r})
  /\ UNCHANGED settings

Probed(s, p, automatic) ==
  IF automatic
  THEN [s EXCEPT !.breaker = "half_open", !.holder = p,
                 !.recoveries = @ + 1, !.lease = "valid"]
  ELSE [s EXCEPT !.breaker = IF @ = "open" THEN "half_open" ELSE @,
                 !.holder = p, !.lease = "valid"]

Probing(p, m, t, automatic) ==
  /\ Shrinks(entry, t) /\ Fresh(p) /\ op[m].lease # "valid" /\ HasRoom(t, m)
  /\ automatic => MayProbe(op[m])
  /\ ~automatic => op[m].breaker # "half_open"
  /\ op' = [op EXCEPT ![m] = Probed(@, p, automatic)]
  /\ entry' = [t EXCEPT ![p] = ProbeEntry(m)]
  /\ UNCHANGED settings

GivingUp(m) ==
  /\ Shrinks(entry, entry')
  /\ op' = [op EXCEPT ![m] = GiveUpRecovery(@)]
  /\ UNCHANGED settings

ProbeEnding(p, m, result) ==
  /\ ProbeCurrent(p, m) /\ ReasonCheck(AfterProbe(op[m], result))
  /\ probe[p].pc = "probing" /\ probe[p].model = m
  /\ op' = [op EXCEPT ![m] = AfterProbe(@, result)]
  /\ entry' = Without(entry, Holding(entry) \cap {p})
  /\ UNCHANGED settings

Administration ==
  \/ suspendConnection \/ activateConnection \/ updateConnection
  \/ \E m \in Models : suspendProfile(m) \/ enableProfile(m) \/ recordHealth(m)

StoreStep ==
  \/ Removal
  \/ \E r \in Runs, m \in Models, t \in Tables : Queueing(r, m, t)
  \/ \E r \in Runs, t \in Tables : Leasing(r, t)
  \/ \E r \in Runs : Requeueing(r)
  \/ \E r \in Runs, outcome \in Ended : Finishing(r, outcome)
  \/ \E p \in Probes, m \in Models, t \in Tables, automatic \in BOOLEAN :
       Probing(p, m, t, automatic)
  \/ \E m \in Models : GivingUp(m)
  \/ \E p \in Probes, m \in Models, result \in Results :
       ProbeEnding(p, m, result)
  \/ Administration
  \/ \E i \in Ids : LeaseLapses(i)
  \/ \E m \in Models : RecoveryTimePasses(m)
  \/ UNCHANGED storeVars

\* Rows that keep their identity and their leases count as shrinking.
LEMMA ShrinksRefl ==
  ASSUME NEW t \in Tables, NEW u \in Tables, Holding(u) = Holding(t),
         \A i \in Ids : Kept(t[i], u[i])
  PROVE  Shrinks(t, u)
  BY DEF Shrinks

\* A purge only shrinks the table.
LEMMA PurgeShrinks ==
  ASSUME NEW t \in Tables PROVE Purge(t) \in Tables /\ Shrinks(t, Purge(t))
  BY PurgeFacts DEF Shrinks, NoEntry

\* Deleting rows without a valid lease only shrinks the table.
LEMMA DeletionShrinks ==
  ASSUME NEW t \in Tables, NEW S, S \cap Holding(t) = {}
  PROVE  Without(t, S) \in Tables /\ Shrinks(t, Without(t, S))
<1>1. Holding(Without(t, S)) = Holding(t)
  BY WithoutFacts DEF Holding, Kept, NoEntry
<1>. QED  BY <1>1, WithoutFacts DEF Shrinks, NoEntry

\* Shrinking is transitive.
LEMMA ShrinksTwice ==
  ASSUME NEW t \in Tables, NEW u \in Tables, NEW v \in Tables,
         Shrinks(t, u), Shrinks(u, v)
  PROVE  Shrinks(t, v)
  BY DEF Shrinks, Kept, NoEntry

\* What a probe deletes first has no valid lease: its table only shrinks.
LEMMA ProbePurgeShrinks ==
  ASSUME TypeOK, RowsNameModels, ProbesAgree, ProbeOccupiesSlot, NEW m \in Models
  PROVE  ProbePurge(entry, m) \in Tables /\ Shrinks(entry, ProbePurge(entry, m))
<1> DEFINE S == Lapsed(entry) \cup {i \in Ids : /\ entry[i].status = "running"
                                               /\ op[m].holder = i
                                               /\ op[m].lease = "expired"}
<1>1. ProbePurge(entry, m) = Without(entry, S)
  BY DEF ProbePurge
<1>2. ASSUME NEW i \in Ids, i \in Holding(entry), op[m].holder = i,
             op[m].lease = "expired"
      PROVE  FALSE
  <2>1. i \in Probes
    BY <1>2, StoreAssumption DEF TypeOK, StoreTypeOK, OpType, Ids
  <2>2. entry[i].model \in Models
    BY <1>2 DEF RowsNameModels, Present, Holding
  <2>3. op[entry[i].model].holder = i /\ op[entry[i].model].lease = "valid"
    BY <2>1, <1>2 DEF ProbeOccupiesSlot
  <2>4. entry[i].model = m
    BY <2>2, <2>3, <1>2, StoreAssumption DEF ProbesAgree, Ids
  <2>. QED  BY <2>3, <2>4, <1>2
<1>3. Lapsed(entry) \cap Holding(entry) = {}
  BY DEF Lapsed, Holding
<1>4. S \cap Holding(entry) = {}
  BY <1>2, <1>3
<1>5. entry \in Tables
  BY DEF TypeOK, StoreTypeOK, Tables
<1> HIDE DEF S
<1>. QED  BY <1>1, <1>4, <1>5, DeletionShrinks

-----------------------------------------------------------------------------
(***************************************************************************)
(* Every action is a step of one of these kinds.                           *)
(***************************************************************************)
LEMMA EnqueueStep ==
  ASSUME TypeOK, NEW r \in Runs, NEW m \in Models, NEW answer,
         r \notin Present(entry), enqueue(r, m, answer)
  PROVE  StoreStep
<1> DEFINE t == Purge(entry)
<1>1. t \in Tables /\ Shrinks(entry, t)
  BY PurgeShrinks DEF TypeOK, StoreTypeOK, Tables
<1>2. CASE answer = "queued"
  <2>1. Admits(m) /\ entry' = Queued(t, r, m) /\ UNCHANGED <<op, settings>>
    BY <1>2 DEF enqueue
  <2> HIDE DEF t
  <2>2. Queueing(r, m, t)
    BY <1>1, <2>1 DEF Queueing
  <2>. QED  BY <1>1, <2>2 DEF StoreStep
<1>3. CASE answer # "queued"
  <2>1. entry' = t /\ UNCHANGED <<op, settings>>
    BY <1>3 DEF enqueue
  <2> HIDE DEF t
  <2>2. Removal
    BY <1>1, <2>1 DEF Removal
  <2>. QED  BY <2>2 DEF StoreStep
<1>. QED  BY <1>2, <1>3

\* A run that polls waits, and has an attempt left.
LEMMA AcquireStep ==
  ASSUME TypeOK, RunsAgree, NEW r \in Runs, NEW answer,
         run[r].pc \in {"queued", "retry_wait"}, acquire(r, answer)
  PROVE  StoreStep
<1> DEFINE t == Purge(entry)
<1>1. t \in Tables /\ Shrinks(entry, t)
  BY PurgeShrinks DEF TypeOK, StoreTypeOK, Tables
<1>2. r \in Ids
  BY DEF Ids
<1>3. CASE answer = "acquired"
  <2>1. AcquireAnswer(t, r) = "acquired" /\ entry' = Leased(t, r)
        /\ UNCHANGED <<op, settings>>
    BY <1>3 DEF acquire
  <2> HIDE DEF t
  <2>2. /\ r \in Present(t) /\ ~t[r].cancelled
        /\ verified[t[r].model] /\ op[t[r].model].breaker = "closed"
        /\ ~ConnectionFull(t) /\ ~ModelFull(t, t[r].model)
    BY <2>1 DEF AcquireAnswer
  <2>3. Kept(entry[r], t[r])
    BY <1>1, <1>2, <2>2 DEF Shrinks, Present
  <2>4. r \in Present(entry)
    BY <2>2, <2>3, <1>2 DEF Kept, Present
  <2>5. entry[r].status \in {"queued", "retry_wait"} /\ entry[r].attempts < 2
    BY <1>2, <2>4 DEF RunsAgree, Agrees, Present
  <2>6. r \in Waiting(t) /\ t[r].attempts < 2
    BY <2>5, <2>3, <1>2 DEF Kept, Waiting
  <2>7. Leasing(r, t)
    BY <1>1, <2>1, <2>2, <2>6 DEF Leasing
  <2>. QED  BY <1>1, <2>7 DEF StoreStep
<1>4. CASE answer # "acquired"
  <2>1. /\ entry' = t \/ (r \in Waiting(t) /\ entry' = Without(t, {r}))
        /\ UNCHANGED <<op, settings>>
    BY <1>4 DEF acquire, Unverified
  <2> HIDE DEF t
  <2>2. r \in Waiting(t) => {r} \cap Holding(t) = {}
    BY DEF Waiting, Holding
  <2>3. r \in Waiting(t) =>
          Without(t, {r}) \in Tables /\ Shrinks(t, Without(t, {r}))
    BY <1>1, <2>2, DeletionShrinks
  <2>4. entry \in Tables
    BY DEF TypeOK, StoreTypeOK, Tables
  <2>5. Shrinks(entry, entry')
    BY <1>1, <2>1, <2>3, <2>4, ShrinksTwice
  <2>6. Removal
    BY <2>1, <2>5 DEF Removal
  <2>. QED  BY <2>6 DEF StoreStep
<1>. QED  BY <1>3, <1>4

\* finish is a step of the tables.
LEMMA FinishStep ==
  ASSUME TypeOK, NEW r \in Runs, NEW outcome \in Ended, finish(r, outcome)
  PROVE  StoreStep
<1>1. CASE r \in Holding(entry)
  <2>1. Holding(entry) \cap {r} = {r}
    BY <1>1
  <2>2. Finishing(r, outcome)
    BY <1>1, <2>1 DEF Finishing, finish
  <2>. QED  BY <2>2 DEF StoreStep
<1>2. CASE r \notin Holding(entry)
  <2>1. Holding(entry) \cap {r} = {}
    BY <1>2
  <2>2. entry' = Without(entry, {}) /\ UNCHANGED <<op, settings>>
    BY <1>2, <2>1 DEF finish
  <2>3. entry \in Tables
    BY DEF TypeOK, StoreTypeOK, Tables
  <2>4. Removal
    BY <2>2, <2>3, DeletionShrinks DEF Removal
  <2>. QED  BY <2>4 DEF StoreStep
<1>. QED  BY <1>1, <1>2

\* abandon is a step of the tables.
LEMMA AbandonStep ==
  ASSUME TypeOK, NEW r \in Runs, abandon(r)
  PROVE  StoreStep
<1> DEFINE S == Waiting(entry) \cap {r}
<1>1. entry \in Tables
  BY DEF TypeOK, StoreTypeOK, Tables
<1>2. S \cap Holding(entry) = {}
  BY DEF Waiting, Holding
<1>3. entry' = Without(entry, S) /\ UNCHANGED <<op, settings>>
  BY DEF abandon
<1> HIDE DEF S
<1>4. Removal
  BY <1>1, <1>2, <1>3, DeletionShrinks DEF Removal
<1>. QED  BY <1>4 DEF StoreStep

\* requeueForRetry is a step of the tables.
LEMMA RequeueStep ==
  ASSUME TypeOK, NEW r \in Runs, NEW answer, requeueForRetry(r, answer)
  PROVE  StoreStep
<1>1. CASE r \in Holding(entry)
  BY <1>1 DEF requeueForRetry, Requeueing, StoreStep
<1>2. CASE r \notin Holding(entry)
  BY <1>2 DEF requeueForRetry, StoreStep, storeVars, settings
<1>. QED  BY <1>1, <1>2

\* acquireRecoveryProbe by a fresh probe is a step of the tables.
LEMMA AcquireProbeStep ==
  ASSUME TypeOK, RowsNameModels, ProbesAgree, ProbeOccupiesSlot,
         NEW p \in Probes, NEW m \in Models, NEW answer \in BOOLEAN,
         Fresh(p), acquireRecoveryProbe(p, m, answer)
  PROVE  StoreStep
<1> DEFINE t == ProbePurge(entry, m)
<1>1. t \in Tables /\ Shrinks(entry, t)
  BY ProbePurgeShrinks
<1>2. /\ answer = (MayProbe(GiveUpRecovery(op[m])) /\ HasRoom(t, m))
      /\ op' = [op EXCEPT ![m] =
                  IF answer THEN Probed(GiveUpRecovery(op[m]), p, TRUE)
                  ELSE GiveUpRecovery(op[m])]
      /\ entry' = IF answer THEN [t EXCEPT ![p] = ProbeEntry(m)] ELSE t
      /\ UNCHANGED settings
  BY DEF acquireRecoveryProbe, Probed
<1> HIDE DEF t
<1>3. CASE answer
  <2>1. MayProbe(GiveUpRecovery(op[m])) /\ HasRoom(t, m)
    BY <1>2, <1>3
  <2>2. op \in [Models -> OpType] /\ op[m] \in OpType
    BY DEF TypeOK, StoreTypeOK
  <2>3. ~Exhausted(op[m])
    BY <2>1, <2>2 DEF MayProbe, GiveUpRecovery, OpType
  <2>4. GiveUpRecovery(op[m]) = op[m]
    BY <2>3 DEF GiveUpRecovery
  <2>5. op[m].lease # "valid"
    BY <2>1, <2>4 DEF MayProbe
  <2>6. Probing(p, m, t, TRUE)
    BY <1>1, <1>2, <1>3, <2>1, <2>4, <2>5 DEF Probing
  <2>. QED  BY <1>1, <2>6 DEF StoreStep
<1>4. CASE ~answer
  BY <1>1, <1>2, <1>4 DEF GivingUp, StoreStep
<1>. QED  BY <1>3, <1>4

\* acquireManualRecoveryProbe by a fresh probe is a step of the tables.
LEMMA AcquireManualStep ==
  ASSUME TypeOK, RowsNameModels, ProbesAgree, ProbeOccupiesSlot,
         NEW p \in Probes, NEW m \in Models, NEW answer \in BOOLEAN,
         Fresh(p), acquireManualRecoveryProbe(p, m, answer)
  PROVE  StoreStep
<1> DEFINE t == ProbePurge(entry, m)
<1>1. t \in Tables /\ Shrinks(entry, t)
  BY ProbePurgeShrinks
<1>2. op \in [Models -> OpType]
  BY DEF TypeOK, StoreTypeOK
<1>3. CASE answer
  <2>1. /\ op[m].breaker # "half_open" /\ op[m].lease # "valid"
        /\ HasRoom(t, m)
        /\ op' = [op EXCEPT ![m].breaker = IF @ = "open" THEN "half_open" ELSE @,
                            ![m].holder = p, ![m].lease = "valid"]
        /\ entry' = [t EXCEPT ![p] = ProbeEntry(m)]
        /\ UNCHANGED settings
    BY <1>3 DEF acquireManualRecoveryProbe, LeaseFree
  <2>2. op' = [op EXCEPT ![m] = Probed(@, p, FALSE)]
    BY <1>2, <2>1 DEF Probed, OpType
  <2> HIDE DEF t
  <2>3. Probing(p, m, t, FALSE)
    BY <1>1, <2>1, <2>2 DEF Probing
  <2>. QED  BY <1>1, <2>3 DEF StoreStep
<1>4. CASE ~answer
  <2>1. entry' = t /\ UNCHANGED <<op, settings>>
    BY <1>4 DEF acquireManualRecoveryProbe
  <2>2. Removal
    BY <1>1, <2>1 DEF Removal
  <2>. QED  BY <2>2 DEF StoreStep
<1>. QED  BY <1>3, <1>4

\* finishRecoveryProbe is a step of the tables.
LEMMA FinishProbeStep ==
  ASSUME TypeOK, NEW p \in Probes, NEW m \in Models, NEW result \in Results,
         NEW answer, probe[p].pc = "probing", probe[p].model = m,
         finishRecoveryProbe(p, m, result, answer)
  PROVE  StoreStep
<1>1. CASE answer = "applied"
  <2>1. ProbeEnding(p, m, result)
    BY <1>1 DEF finishRecoveryProbe, ProbeEnding
  <2>. QED  BY <2>1 DEF StoreStep
<1>2. CASE answer # "applied"
  BY <1>2 DEF finishRecoveryProbe, StoreStep, storeVars, settings
<1>. QED  BY <1>1, <1>2

\* A deadline or a retry delay that passes keeps the fields that matter.
LEMMA ClockStep ==
  ASSUME TypeOK, NEW r \in Runs, DeadlinePasses(r) \/ RetryDue(r)
  PROVE  StoreStep
<1>1. entry \in Tables /\ r \in Ids
  BY DEF TypeOK, StoreTypeOK, Tables, Ids
<1>2. \/ entry' = [entry EXCEPT ![r].late = TRUE]
      \/ entry' = [entry EXCEPT ![r].due = TRUE]
  BY DEF DeadlinePasses, RetryDue
<1>3. entry' \in Tables
  <2>1. /\ [entry[r] EXCEPT !.late = TRUE] \in EntryType
        /\ [entry[r] EXCEPT !.due = TRUE] \in EntryType
    BY <1>1 DEF Tables, EntryType
  <2>. QED  BY <1>1, <1>2, <2>1 DEF Tables
<1>4. \A i \in Ids : Kept(entry[i], entry'[i])
  BY <1>1, <1>2 DEF Tables, EntryType, Kept
<1>5. Holding(entry') = Holding(entry)
  BY <1>4 DEF Holding, Kept
<1>6. Shrinks(entry, entry')
  BY <1>1, <1>3, <1>4, <1>5, ShrinksRefl
<1>7. Removal
  BY <1>6 DEF Removal, DeadlinePasses, RetryDue
<1>. QED  BY <1>7 DEF StoreStep

\* First layer: every action, as the instances take it, is a step of the tables.
LEMMA NextStore ==
  ASSUME IInv, [Next]_vars
  PROVE  StoreStep
<1>. USE DEF IInv
<1>1. CASE UNCHANGED vars
  BY <1>1 DEF vars, StoreStep
<1>2. ASSUME NEW r \in Runs, RunStep(r)
      PROVE  StoreStep
  <2>1. ASSUME NEW m \in Models, Start(r, m)
        PROVE  StoreStep
    BY <2>1, EnqueueStep DEF Start
  <2>2. CASE Poll(r)
    BY <2>2, AcquireStep DEF Poll
  <2>3. CASE StopWaiting(r) \/ AttemptEnds(r) \/ NoticeCancellation(r)
             \/ LoseLease(r) \/ Crash(r)
    BY <2>3 DEF StopWaiting, AttemptEnds, NoticeCancellation, LoseLease, Crash,
                StoreStep
  <2>4. CASE Retry(r)
    BY <2>4, RequeueStep DEF Retry
  <2>5. CASE Finish(r)
    <3>1. run[r].outcome \in Ended
      BY <2>5 DEF TypeOK, RunType, RunsAgree, Agrees, Finish, Ended
    <3>. QED  BY <2>5, <3>1, FinishStep DEF Finish, StoreStep
  <2>6. CASE Leave(r)
    BY <2>6, AbandonStep DEF Leave, StoreStep
  <2>. QED  BY <1>2, <2>1, <2>2, <2>3, <2>4, <2>5, <2>6 DEF RunStep
<1>3. ASSUME NEW p \in Probes, ProbeStep(p)
      PROVE  StoreStep
  <2>1. CASE ListDue(p) \/ ProbeUnfinished(p) \/ Report(p) \/ ProbeCrash(p)
    BY <2>1 DEF ListDue, ProbeUnfinished, Report, ProbeCrash, StoreStep
  <2>2. CASE AcquireListed(p)
    <3>1. Fresh(p) /\ probe[p].model \in Models
      BY <2>2 DEF AcquireListed, ProbesAgree
    <3>. QED  BY <2>2, <3>1, AcquireProbeStep DEF AcquireListed
  <2>3. ASSUME NEW m \in Models, RunManualHealthProbe(p, m)
        PROVE  StoreStep
    BY <2>3, AcquireManualStep DEF RunManualHealthProbe
  <2>4. CASE FinishProbe(p)
    <3>1. probe[p].pc = "probing" /\ probe[p].model \in Models
      BY <2>4 DEF FinishProbe, ProbesAgree
    <3>2. ProbeResults \subseteq Results
      BY DisturbanceAssumption DEF Results
    <3>. QED  BY <2>4, <3>1, <3>2, FinishProbeStep DEF FinishProbe
  <2>. QED  BY <1>3, <2>1, <2>2, <2>3, <2>4 DEF ProbeStep
<1>4. CASE Time
  BY <1>4, ClockStep
     DEF Time, LapseOf, DeadlineOf, RetryDueOf, RecoveryDueOf, StoreStep
<1>5. CASE CleanUp
  <2>1. entry \in Tables
    BY DEF TypeOK, StoreTypeOK, Tables
  <2>2. Removal
    BY <1>5, <2>1, PurgeShrinks
       DEF CleanUp, purgeExpiredAiRunCoordinationEntries, Removal
  <2>. QED  BY <2>2 DEF StoreStep
<1>6. CASE Administer
  BY <1>6 DEF Administer, Administration, StoreStep
<1>. QED  BY <1>1, <1>2, <1>3, <1>4, <1>5, <1>6 DEF Next

-----------------------------------------------------------------------------
(***************************************************************************)
(* Facts about rows.                                                       *)
(***************************************************************************)
LEMMA HealthyFacts == Healthy \in OpType /\ Consistent(Healthy)
  BY StoreAssumption DEF Healthy, OpType, Consistent

\* The outcome of a run moves no probe and no trial, and closes nothing.
LEMMA AfterRunFacts ==
  ASSUME NEW s \in OpType, NEW outcome \in Ended, Consistent(s),
         NEW u, u = AfterRun(s, outcome)
  PROVE  /\ u \in OpType /\ Consistent(u)
         /\ u.holder = s.holder /\ u.lease = s.lease
         /\ u.recoveries = s.recoveries
         /\ s.breaker # "closed" => u.breaker # "closed"
<1>1. CASE outcome = "completed" /\ Resets(s)
  <2>1. u = [Healthy EXCEPT !.holder = s.holder, !.lease = s.lease]
    BY <1>1 DEF AfterRun
  <2>2. u = [breaker |-> "closed", reason |-> "none", failures |-> 0,
             recoveries |-> 0, manual |-> FALSE, next |-> "none",
             holder |-> s.holder, lease |-> s.lease]
    BY <2>1 DEF Healthy
  <2>3. u \in OpType
    BY <2>2, StoreAssumption DEF OpType
  <2>. QED  BY <2>2, <2>3, <1>1, StoreAssumption DEF Consistent, Resets
<1>2. CASE outcome = "authentication_failed"
  <2>1. u = [s EXCEPT !.breaker = "open", !.reason = "authentication_failed",
                      !.failures = FailureLimit, !.manual = TRUE,
                      !.next = "none"]
    BY <1>2 DEF AfterRun
  <2>2. FailureLimit \in 0 .. FailureLimit
    BY StoreAssumption
  <2>3. u \in OpType
    BY <2>1, <2>2 DEF OpType, Reasons
  <2>. QED  BY <2>1, <2>3 DEF OpType, Consistent
<1>3. CASE outcome = "unavailable" /\ s.breaker = "closed" /\ ~Trips(s)
  <2>1. u = [s EXCEPT !.failures = @ + 1]
    BY <1>3 DEF AfterRun
  <2>2. s.failures + 1 < FailureLimit
    BY <1>3, StoreAssumption DEF Trips, OpType
  <2>3. u \in OpType
    BY <2>1, <2>2, StoreAssumption DEF OpType
  <2>. QED  BY <2>1, <2>2, <2>3, <1>3 DEF OpType, Consistent
<1>4. CASE outcome = "unavailable" /\ s.breaker = "closed" /\ Trips(s)
  <2>1. u = [s EXCEPT !.failures = FailureLimit, !.breaker = "open",
                      !.reason = "unavailable", !.next = "later"]
    BY <1>4 DEF AfterRun
  <2>2. FailureLimit \in 0 .. FailureLimit
    BY StoreAssumption
  <2>3. u \in OpType
    BY <2>1, <2>2 DEF OpType, Reasons
  <2>. QED  BY <2>1, <2>3, <1>4 DEF OpType, Consistent
<1>5. CASE /\ ~(outcome = "completed" /\ Resets(s))
           /\ outcome # "authentication_failed"
           /\ ~(outcome = "unavailable" /\ s.breaker = "closed")
  <2>1. u = s
    BY <1>5 DEF AfterRun
  <2>. QED  BY <2>1
<1>. QED  BY <1>1, <1>2, <1>3, <1>4, <1>5

\* A probe's result releases its lease.
LEMMA AfterProbeFacts ==
  ASSUME NEW s \in OpType, NEW result \in Results, Consistent(s),
         NEW u, u = AfterProbe(s, result), ReasonCheck(u)
  PROVE  /\ u \in OpType /\ Consistent(u)
         /\ u.holder = NoProbe /\ u.lease = "none"
<1>1. CASE result = "succeeded"
  <2>1. u = Healthy
    BY <1>1 DEF AfterProbe
  <2>. QED  BY <2>1, HealthyFacts DEF Healthy
<1>2. CASE result \in {"authentication_failed", "capability_mismatch"}
  <2>1. u = [Released(s) EXCEPT !.breaker = "open", !.reason = result,
                                !.manual = TRUE, !.next = "none"]
    BY <1>2 DEF AfterProbe
  <2>. QED  BY <2>1, <1>2, StoreAssumption
            DEF OpType, Consistent, Reasons, Released
<1>3. CASE result = "failed"
  <2>1. u = [Released(s) EXCEPT
               !.breaker = "open", !.manual = ManualAfter(s),
               !.next = IF s.recoveries >= RecoveryLimit THEN "none"
                        ELSE "later"]
    BY <1>3 DEF AfterProbe
  <2>2. ManualAfter(s) \in BOOLEAN
    BY DEF ManualAfter
  <2>3. ReasonCheck(u)
    OBVIOUS
  <2>. QED  BY <2>1, <2>2, <2>3, StoreAssumption
            DEF OpType, Consistent, Released, ReasonCheck
<1>. QED  BY <1>1, <1>2, <1>3 DEF Results

\* Acquiring a probe leaves reason and failures alone.
LEMMA ProbedFacts ==
  ASSUME NEW s \in OpType, NEW p \in Probes, NEW automatic \in BOOLEAN,
         NEW u, u = Probed(s, p, automatic), Consistent(s),
         automatic => MayProbe(s), ~automatic => s.breaker # "half_open"
  PROVE  /\ u \in OpType /\ Consistent(u)
         /\ u.holder = p /\ u.lease = "valid"
         /\ u.reason = s.reason /\ u.failures = s.failures
         /\ u.recoveries = IF automatic THEN s.recoveries + 1 ELSE s.recoveries
         /\ u.breaker = "closed" <=> s.breaker = "closed"
<1>1. CASE automatic
  <2>1. u = [s EXCEPT !.breaker = "half_open", !.holder = p,
                      !.recoveries = @ + 1, !.lease = "valid"]
    BY <1>1 DEF Probed
  <2>2. s.recoveries < RecoveryLimit /\ s.breaker \in {"open", "half_open"}
    BY <1>1 DEF MayProbe
  <2>3. s.recoveries + 1 \in 0 .. RecoveryLimit
    BY <2>2, StoreAssumption DEF OpType
  <2>4. u \in OpType
    BY <2>1, <2>3 DEF OpType
  <2>. QED  BY <1>1, <2>1, <2>2, <2>4 DEF OpType, Consistent
<1>2. CASE ~automatic
  <2>1. u = [s EXCEPT !.breaker = IF @ = "open" THEN "half_open" ELSE @,
                      !.holder = p, !.lease = "valid"]
    BY <1>2 DEF Probed
  <2>. QED  BY <2>1, <1>2, StoreAssumption DEF OpType, Consistent
<1>. QED  BY <1>1, <1>2

\* Giving up recovery changes a row only after its lease has lapsed.
LEMMA GiveUpFacts ==
  ASSUME NEW s \in OpType, Consistent(s), NEW u, u = GiveUpRecovery(s)
  PROVE  /\ u \in OpType /\ Consistent(u)
         /\ u = s \/ (s.lease = "expired" /\ u.holder = NoProbe
                      /\ u.lease = "none")
         /\ u.breaker = "closed" <=> s.breaker = "closed"
         /\ u.reason = s.reason /\ u.recoveries = s.recoveries
         /\ u.failures = s.failures
<1>1. CASE Exhausted(s)
  <2>1. u = [s EXCEPT !.breaker = "open", !.manual = TRUE, !.next = "none",
                      !.holder = NoProbe, !.lease = "none"]
    BY <1>1 DEF GiveUpRecovery
  <2>. QED  BY <2>1, <1>1 DEF OpType, Consistent, Exhausted
<1>2. CASE ~Exhausted(s)
  BY <1>2 DEF GiveUpRecovery
<1>. QED  BY <1>1, <1>2

\* What enqueueing writes.
LEMMA QueuedFacts ==
  ASSUME NEW t \in Tables, NEW r \in Runs, NEW m \in Models,
         NEW u, u = Queued(t, r, m)
  PROVE  /\ u \in Tables
         /\ \A i \in Ids \ {r} : u[i] = t[i]
         /\ u[r].status = "queued" /\ u[r].model = m /\ ~u[r].cancelled
         /\ u[r].attempts = 0
<1> DEFINE e == [NoEntry EXCEPT !.status = "queued", !.model = m,
                                !.earlier = Present(t) \cap Runs]
<1>1. /\ e \in EntryType
      /\ e.status = "queued" /\ e.model = m /\ ~e.cancelled /\ e.attempts = 0
  <2>1. NoEntry.attempts = 0 /\ ~NoEntry.cancelled
    BY DEF NoEntry
  <2>2. Present(t) \cap Runs \subseteq Runs
    OBVIOUS
  <2>. QED  BY <2>1, <2>2, NoEntryType DEF EntryType
<1>2. u = [t EXCEPT ![r] = e]
  BY DEF Queued
<1> HIDE DEF e
<1>. QED  BY <1>1, <1>2 DEF Tables, Ids

\* What an acquisition writes.
LEMMA LeasedFacts ==
  ASSUME NEW t \in Tables, NEW r \in Runs, t[r].attempts < 2,
         NEW u, u = Leased(t, r)
  PROVE  /\ u \in Tables
         /\ \A i \in Ids \ {r} : u[i] = t[i]
         /\ u[r].status = "running" /\ u[r].model = t[r].model
         /\ u[r].cancelled = t[r].cancelled
         /\ u[r].attempts = t[r].attempts + 1
<1> DEFINE e == [t[r] EXCEPT !.status = "running", !.lease = "valid",
                             !.attempts = @ + 1]
<1>1. t[r] \in EntryType
  BY DEF Tables, Ids
<1>2. /\ e \in EntryType
      /\ e.status = "running" /\ e.model = t[r].model
      /\ e.cancelled = t[r].cancelled /\ e.attempts = t[r].attempts + 1
  <2>1. t[r].attempts + 1 \in 0 .. 2
    BY <1>1 DEF EntryType
  <2>2. e \in EntryType
    BY <1>1, <2>1 DEF EntryType
  <2>. QED  BY <1>1, <2>2 DEF EntryType
<1>3. u = [t EXCEPT ![r] = e]
  BY <1>1 DEF Leased, Tables, EntryType
<1> HIDE DEF e
<1>. QED  BY <1>2, <1>3 DEF Tables, Ids

\* What a requeue writes: the cancellation stays.
LEMMA RequeuedFacts ==
  ASSUME NEW t \in Tables, NEW r \in Runs, NEW u, u = Requeued(t, r)
  PROVE  /\ u \in Tables
         /\ \A i \in Ids \ {r} : u[i] = t[i]
         /\ u[r].status = "retry_wait" /\ u[r].model = t[r].model
         /\ u[r].cancelled = t[r].cancelled /\ u[r].attempts = t[r].attempts
<1> DEFINE e == [t[r] EXCEPT !.status = "retry_wait", !.lease = "none",
                             !.due = FALSE]
<1>1. t[r] \in EntryType
  BY DEF Tables, Ids
<1>2. /\ e \in EntryType
      /\ e.status = "retry_wait" /\ e.model = t[r].model
      /\ e.cancelled = t[r].cancelled /\ e.attempts = t[r].attempts
  BY <1>1 DEF EntryType
<1>3. u = [t EXCEPT ![r] = e]
  BY <1>1 DEF Requeued, Tables, EntryType
<1> HIDE DEF e
<1>. QED  BY <1>2, <1>3 DEF Tables, Ids

WithProbe(t, p, m) == [t EXCEPT ![p] = ProbeEntry(m)]

\* What a probe's acquisition writes.
LEMMA ProbeEntryFacts ==
  ASSUME NEW t \in Tables, NEW p \in Probes, NEW m \in Models,
         NEW u, u = WithProbe(t, p, m)
  PROVE  /\ u \in Tables
         /\ \A i \in Ids \ {p} : u[i] = t[i]
         /\ u[p].status = "running" /\ u[p].model = m /\ u[p].lease = "valid"
<1>1. /\ ProbeEntry(m) \in EntryType
      /\ ProbeEntry(m).status = "running" /\ ProbeEntry(m).model = m
      /\ ProbeEntry(m).lease = "valid"
  <2>1. 1 \in 0 .. 2
    OBVIOUS
  <2>2. ProbeEntry(m) \in EntryType
    BY <2>1, NoEntryType DEF ProbeEntry, EntryType
  <2>. QED  BY <2>2, NoEntryType DEF ProbeEntry, EntryType
<1>. QED  BY <1>1 DEF Tables, Ids, WithProbe

\* Marking entries changes nothing else.
LEMMA CancelledFacts ==
  ASSUME NEW t \in Tables, NEW S, NEW u, u = Cancelled(t, S)
  PROVE  /\ u \in Tables
         /\ \A i \in Ids :
              /\ u[i].status = t[i].status /\ u[i].model = t[i].model
              /\ u[i].lease = t[i].lease /\ u[i].attempts = t[i].attempts
              /\ t[i].cancelled => u[i].cancelled
         /\ \A i \in S \cap Present(t) : u[i].cancelled
         /\ \A i \in Ids \ S : u[i] = t[i]
<1>1. \A i \in Ids : [t[i] EXCEPT !.cancelled = TRUE] \in EntryType
  BY DEF Tables, EntryType
<1>2. u \in Tables
  BY <1>1 DEF Cancelled, Tables
<1>3. ASSUME NEW i \in Ids
      PROVE  /\ u[i].status = t[i].status /\ u[i].model = t[i].model
             /\ u[i].lease = t[i].lease /\ u[i].attempts = t[i].attempts
             /\ t[i].cancelled => u[i].cancelled
             /\ i \in S \cap Present(t) => u[i].cancelled
             /\ i \notin S => u[i] = t[i]
  <2>1. u[i] = IF i \in S \cap Present(t)
               THEN [t[i] EXCEPT !.cancelled = TRUE] ELSE t[i]
    BY <1>3 DEF Cancelled
  <2>2. t[i] \in EntryType
    BY <1>3 DEF Tables
  <2>. QED  BY <2>1, <2>2 DEF EntryType
<1>4. Present(t) \subseteq Ids
  BY DEF Present
<1>. QED  BY <1>2, <1>3, <1>4

\* An expired lease changes nothing else.
WithLapse(t, i) == [t EXCEPT ![i].lease = "expired"]

\* What the passing of a lease changes.
LEMMA LapseFacts ==
  ASSUME NEW t \in Tables, NEW i \in Ids, NEW u, u = WithLapse(t, i)
  PROVE  /\ u \in Tables
         /\ \A j \in Ids \ {i} : u[j] = t[j]
         /\ u[i].status = t[i].status /\ u[i].model = t[i].model
         /\ u[i].lease = "expired" /\ u[i].cancelled = t[i].cancelled
         /\ u[i].attempts = t[i].attempts
<1>1. t[i] \in EntryType
  BY DEF Tables
<1>2. [t[i] EXCEPT !.lease = "expired"] \in EntryType
  BY <1>1 DEF EntryType
<1>. QED  BY <1>1, <1>2 DEF Tables, EntryType, WithLapse

-----------------------------------------------------------------------------
(***************************************************************************)
(* Each kind of step preserves the invariants of the tables.               *)
(***************************************************************************)
LEMMA EntryTyped ==
  ASSUME IInv, StoreStep
  PROVE  /\ entry' \in Tables
         /\ \A i \in Ids : entry'[i].status # "none" => entry'[i].model \in Models
<1> DEFINE Named(t) == \A i \in Ids : t[i].status # "none" => t[i].model \in Models
<1>1. entry \in Tables /\ Named(entry)
  BY DEF IInv, TypeOK, StoreTypeOK, Tables, RowsNameModels, Present
<1>2. \A t : Shrinks(entry, t) => t \in Tables /\ Named(t)
  BY <1>1 DEF Shrinks, Kept
<1>3. \A S : Without(entry, S) \in Tables /\ Named(Without(entry, S))
  BY <1>1, WithoutFacts DEF Kept, NoEntry
<1>4. \A S : Cancelled(entry, S) \in Tables /\ Named(Cancelled(entry, S))
  BY <1>1, CancelledFacts
<1> SUFFICES entry' \in Tables /\ Named(entry')
  OBVIOUS
<1>5. CASE Removal \/ \E m \in Models : GivingUp(m)
  BY <1>2, <1>5 DEF Removal, GivingUp
<1>6. ASSUME NEW r \in Runs, NEW m \in Models, NEW t \in Tables, Queueing(r, m, t)
      PROVE  entry' \in Tables /\ Named(entry')
  BY <1>2, <1>6, QueuedFacts DEF Queueing
<1>7. ASSUME NEW r \in Runs, NEW t \in Tables, Leasing(r, t)
      PROVE  entry' \in Tables /\ Named(entry')
  BY <1>2, <1>7, LeasedFacts DEF Leasing, Waiting
<1>8. ASSUME NEW r \in Runs, Requeueing(r)
      PROVE  entry' \in Tables /\ Named(entry')
  BY <1>1, <1>8, RequeuedFacts DEF Requeueing, Holding
<1>9. ASSUME NEW p \in Probes, NEW m \in Models, NEW t \in Tables,
             NEW automatic \in BOOLEAN, Probing(p, m, t, automatic)
      PROVE  entry' \in Tables /\ Named(entry')
  <2>1. entry' = WithProbe(t, p, m) /\ Named(t)
    BY <1>2, <1>9 DEF Probing, WithProbe
  <2>. QED  BY <2>1, ProbeEntryFacts
<1>10. CASE \/ \E r \in Runs, outcome \in Ended : Finishing(r, outcome)
            \/ \E p \in Probes, m \in Models, result \in Results :
                 ProbeEnding(p, m, result)
  BY <1>3, <1>10 DEF Finishing, ProbeEnding
<1>11. CASE Administration
  <2>1. entry' = entry \/ \E S : entry' = Cancelled(entry, S)
    BY <1>11
       DEF Administration, suspendConnection, activateConnection,
           suspendProfile, enableProfile, recordHealth, updateConnection
  <2> HIDE DEF Named
  <2>. QED  BY <1>1, <1>4, <2>1
<1>12. ASSUME NEW i \in Ids, LeaseLapses(i)
       PROVE  entry' \in Tables /\ Named(entry')
  <2>1. entry' = WithLapse(entry, i)
    BY <1>12 DEF LeaseLapses, WithLapse
  <2>. QED  BY <1>1, <2>1, LapseFacts
<1>13. CASE (\E m \in Models : RecoveryTimePasses(m)) \/ UNCHANGED storeVars
  BY <1>1, <1>13 DEF RecoveryTimePasses, storeVars
<1>. QED  BY <1>5, <1>6, <1>7, <1>8, <1>9, <1>10, <1>11, <1>12, <1>13 DEF StoreStep

\* The operational states keep their type and their consistency.
LEMMA OpTyped ==
  ASSUME IInv, StoreStep
  PROVE  op' \in [Models -> OpType] /\ BreakerConsistent'
<1> DEFINE Right(o) == o \in [Models -> OpType] /\ \A m \in Models : Consistent(o[m])
<1>1. Right(op)
  BY DEF IInv, TypeOK, StoreTypeOK, BreakerConsistent
<1>2. ASSUME NEW m \in Models, NEW s \in OpType, Consistent(s)
      PROVE  Right([op EXCEPT ![m] = s])
  BY <1>1, <1>2
<1> SUFFICES Right(op')
  BY DEF BreakerConsistent
<1>3. CASE op' = op
  BY <1>1, <1>3
<1>4. ASSUME NEW r \in Runs, NEW outcome \in Ended, Finishing(r, outcome)
      PROVE  Right(op')
  <2> DEFINE m == entry[r].model
  <2>1. m \in Models
    BY <1>4 DEF IInv, RowsNameModels, Finishing, Present, Holding
  <2>2. op' = [op EXCEPT ![m] = AfterRun(op[m], outcome)]
    BY <1>4 DEF Finishing
  <2> HIDE DEF m
  <2>3. op[m] \in OpType /\ Consistent(op[m])
    BY <1>1, <2>1
  <2>4. AfterRun(op[m], outcome) \in OpType /\ Consistent(AfterRun(op[m], outcome))
    BY <2>3, AfterRunFacts
  <2> HIDE DEF Right
  <2>. QED  BY <1>2, <2>1, <2>2, <2>4
<1>5. ASSUME NEW p \in Probes, NEW m \in Models, NEW t \in Tables,
             NEW automatic \in BOOLEAN, Probing(p, m, t, automatic)
      PROVE  Right(op')
  <2>1. op[m] \in OpType /\ Consistent(op[m])
    BY <1>1
  <2>2. /\ automatic => MayProbe(op[m])
        /\ ~automatic => op[m].breaker # "half_open"
        /\ op' = [op EXCEPT ![m] = Probed(op[m], p, automatic)]
    BY <1>5 DEF Probing
  <2>3. /\ Probed(op[m], p, automatic) \in OpType
        /\ Consistent(Probed(op[m], p, automatic))
    BY <2>1, <2>2, ProbedFacts
  <2> HIDE DEF Right
  <2>. QED  BY <1>2, <2>2, <2>3
<1>6. ASSUME NEW m \in Models, GivingUp(m)
      PROVE  Right(op')
  <2>1. op[m] \in OpType /\ Consistent(op[m])
    BY <1>1
  <2>2. GiveUpRecovery(op[m]) \in OpType /\ Consistent(GiveUpRecovery(op[m]))
    BY <2>1, GiveUpFacts
  <2>3. op' = [op EXCEPT ![m] = GiveUpRecovery(op[m])]
    BY <1>6 DEF GivingUp
  <2> HIDE DEF Right
  <2>. QED  BY <1>2, <2>2, <2>3
<1>7. ASSUME NEW p \in Probes, NEW m \in Models, NEW result \in Results,
             ProbeEnding(p, m, result)
      PROVE  Right(op')
  <2>1. op[m] \in OpType /\ Consistent(op[m])
    BY <1>1
  <2>2. /\ ReasonCheck(AfterProbe(op[m], result))
        /\ op' = [op EXCEPT ![m] = AfterProbe(op[m], result)]
    BY <1>7 DEF ProbeEnding
  <2>3. /\ AfterProbe(op[m], result) \in OpType
        /\ Consistent(AfterProbe(op[m], result))
    BY <2>1, <2>2, AfterProbeFacts
  <2> HIDE DEF Right
  <2>. QED  BY <1>2, <2>2, <2>3
<1>8. ASSUME NEW i \in Ids, LeaseLapses(i)
      PROVE  Right(op')
  <2>1. \A s \in OpType : Consistent(s) =>
          /\ [s EXCEPT !.lease = "expired"] \in OpType
          /\ Consistent([s EXCEPT !.lease = "expired"])
    BY DEF OpType, Consistent
  <2>2. op' = [m \in Models |-> IF op[m].holder = i
                                THEN [op[m] EXCEPT !.lease = "expired"]
                                ELSE op[m]]
    BY <1>8 DEF LeaseLapses
  <2>. QED  BY <1>1, <2>1, <2>2
<1>9. ASSUME NEW m \in Models, RecoveryTimePasses(m)
      PROVE  Right(op')
  <2>1. op[m] \in OpType /\ Consistent(op[m])
    BY <1>1
  <2>2. /\ [op[m] EXCEPT !.next = "due"] \in OpType
        /\ Consistent([op[m] EXCEPT !.next = "due"])
    BY <2>1 DEF OpType, Consistent
  <2>3. op' = [op EXCEPT ![m] = [op[m] EXCEPT !.next = "due"]]
    BY <1>1, <1>9 DEF RecoveryTimePasses
  <2> HIDE DEF Right
  <2>. QED  BY <1>2, <2>2, <2>3
<1>10. CASE Administration
  BY <1>3, <1>10
     DEF Administration, suspendConnection, activateConnection, suspendProfile,
         enableProfile, recordHealth, updateConnection
<1> HIDE DEF Right
<1>. QED  BY <1>3, <1>4, <1>5, <1>6, <1>7, <1>8, <1>9, <1>10
          DEF StoreStep, Removal, Queueing, Leasing, Requeueing, storeVars

\* The tables keep their type.
LEMMA StoreTyped ==
  ASSUME IInv, StoreStep
  PROVE  StoreTypeOK' /\ RowsNameModels' /\ BreakerConsistent'
<1>1. /\ active' \in BOOLEAN
      /\ enabled' \in [Models -> BOOLEAN]
      /\ verified' \in [Models -> BOOLEAN]
  BY DEF IInv, TypeOK, StoreTypeOK, StoreStep, Removal, Queueing, Leasing,
         Requeueing, Finishing, Probing, GivingUp, ProbeEnding, Administration,
         suspendConnection, activateConnection, suspendProfile, enableProfile,
         recordHealth, updateConnection, LeaseLapses, RecoveryTimePasses,
         storeVars, settings
<1>. QED  BY <1>1, EntryTyped, OpTyped DEF StoreTypeOK, RowsNameModels, Present, Tables

\* A table that only shrinks stays within its limits.
LEMMA ShrinksFits ==
  ASSUME NEW t \in Tables, NEW u \in Tables, Shrinks(t, u), Fits(t)
  PROVE  Fits(u)
<1>1. \A i \in Holding(u) : i \in Holding(t) /\ u[i].model = t[i].model
  BY DEF Shrinks, Kept, Holding
<1>. QED  BY <1>1, FitsShrinks

\* Every step of the tables respects the capacity limits.
LEMMA KeepsCapacity ==
  ASSUME IInv, StoreStep
  PROVE  CapacityRespected'
<1>1. entry \in Tables /\ entry' \in Tables /\ Fits(entry)
  BY EntryTyped DEF IInv, CapacityRespected, Fits, TypeOK, StoreTypeOK, Tables
<1> SUFFICES Fits(entry')
  BY DEF CapacityRespected, Fits
\* Steps that give no lease.
<1>2. ASSUME \A i \in Holding(entry') :
               i \in Holding(entry) /\ entry'[i].model = entry[i].model
      PROVE  Fits(entry')
  <2>1. PICK u \in Tables : u = entry'
    BY <1>1
  <2>2. \A i \in Holding(u) : i \in Holding(entry) /\ u[i].model = entry[i].model
    BY <1>2, <2>1
  <2>3. Fits(u)
    BY <1>1, <2>2, FitsShrinks
  <2>. QED  BY <2>1, <2>3
<1>3. CASE Removal \/ \E m \in Models : GivingUp(m)
  BY <1>1, <1>3, ShrinksFits DEF Removal, GivingUp
<1>4. ASSUME NEW r \in Runs, NEW m \in Models, NEW t \in Tables, Queueing(r, m, t)
      PROVE  Fits(entry')
  <2>1. entry' = Queued(t, r, m) /\ Shrinks(entry, t)
    BY <1>4 DEF Queueing
  <2>2. /\ \A i \in Ids \ {r} : entry'[i] = t[i]
        /\ entry'[r].status = "queued"
    BY <2>1, QueuedFacts
  <2>. QED  BY <1>2, <2>1, <2>2 DEF Shrinks, Kept, Holding
<1>5. ASSUME NEW r \in Runs, NEW t \in Tables, Leasing(r, t)
      PROVE  Fits(entry')
  <2>1. /\ entry' = Leased(t, r) /\ Shrinks(entry, t) /\ r \in Waiting(t)
        /\ t[r].attempts < 2
        /\ ~ConnectionFull(t) /\ ~ModelFull(t, t[r].model)
    BY <1>5 DEF Leasing
  <2>2. PICK k \in Models : k = t[r].model
    BY <1>1, <2>1 DEF IInv, RowsNameModels, Present, Waiting, Shrinks, Kept
  <2>3. PICK u \in Tables : u = Leased(t, r)
    BY <1>1, <2>1
  <2>4. (\A i \in Ids \ {r} : u[i] = t[i]) /\ u[r].model = k
    BY <2>1, <2>2, <2>3, LeasedFacts
  <2>5. \A i \in Holding(u) \ {r} : i \in Holding(t) /\ u[i].model = t[i].model
    BY <2>4 DEF Holding
  <2>6. Fits(t) /\ r \in Ids
    BY <1>1, <2>1, ShrinksFits DEF Ids
  <2>7. Fits(u)
    BY <2>1, <2>2, <2>4, <2>5, <2>6, FitsGrows
  <2>. QED  BY <2>1, <2>3, <2>7
<1>6. ASSUME NEW r \in Runs, Requeueing(r)
      PROVE  Fits(entry')
  <2>1. entry' = Requeued(entry, r)
    BY <1>6 DEF Requeueing
  <2>2. /\ \A i \in Ids \ {r} : entry'[i] = entry[i]
        /\ entry'[r].status = "retry_wait"
    BY <1>1, <2>1, RequeuedFacts
  <2>. QED  BY <1>2, <2>2 DEF Holding
<1>7. ASSUME NEW p \in Probes, NEW m \in Models, NEW t \in Tables,
             NEW automatic \in BOOLEAN, Probing(p, m, t, automatic)
      PROVE  Fits(entry')
  <2>1. /\ entry' = WithProbe(t, p, m) /\ Shrinks(entry, t)
        /\ ~ConnectionFull(t) /\ ~ModelFull(t, m)
    BY <1>7 DEF Probing, HasRoom, WithProbe
  <2>2. PICK u \in Tables : u = WithProbe(t, p, m)
    BY <1>1, <2>1
  <2>3. (\A i \in Ids \ {p} : u[i] = t[i]) /\ u[p].model = m
    BY <2>2, ProbeEntryFacts
  <2>4. \A i \in Holding(u) \ {p} : i \in Holding(t) /\ u[i].model = t[i].model
    BY <2>3 DEF Holding
  <2>5. Fits(t) /\ p \in Ids
    BY <1>1, <2>1, ShrinksFits DEF Ids
  <2>6. Fits(u)
    BY <2>1, <2>3, <2>4, <2>5, FitsGrows
  <2>. QED  BY <2>1, <2>2, <2>6
<1>8. ASSUME NEW S, entry' = Without(entry, S)
      PROVE  Fits(entry')
  <2>1. \A i \in Ids : entry'[i] = NoEntry \/ Kept(entry[i], entry'[i])
    BY <1>1, <1>8, WithoutFacts
  <2>. QED  BY <1>2, <2>1 DEF Holding, Kept, NoEntry
<1>9. ASSUME NEW S, entry' = Cancelled(entry, S)
      PROVE  Fits(entry')
  <2>1. \A i \in Ids : /\ entry'[i].status = entry[i].status
                       /\ entry'[i].model = entry[i].model
                       /\ entry'[i].lease = entry[i].lease
    BY <1>1, <1>9, CancelledFacts
  <2>. QED  BY <1>2, <2>1 DEF Holding
<1>10. ASSUME NEW i \in Ids, LeaseLapses(i)
       PROVE  Fits(entry')
  <2>1. entry' = WithLapse(entry, i)
    BY <1>10 DEF LeaseLapses, WithLapse
  <2>2. (\A j \in Ids \ {i} : entry'[j] = entry[j]) /\ entry'[i].lease = "expired"
    BY <1>1, <2>1, LapseFacts
  <2>. QED  BY <1>2, <2>2 DEF Holding
<1>11. CASE entry' = entry
  BY <1>1, <1>11
<1>12. CASE Administration
  BY <1>9, <1>11, <1>12
     DEF Administration, suspendConnection, activateConnection, suspendProfile,
         enableProfile, recordHealth, updateConnection
<1>. QED  BY <1>3, <1>4, <1>5, <1>6, <1>7, <1>8, <1>10, <1>11, <1>12
          DEF StoreStep, Finishing, ProbeEnding, RecoveryTimePasses, storeVars

\* No probe's entry comes, goes or changes its lease.
ProbesKept(t, u) ==
  \A p \in Probes : /\ p \in Holding(u) <=> p \in Holding(t)
                    /\ p \in Holding(t) => u[p].model = t[p].model

LeasesKept ==
  \A m \in Models : op'[m].holder = op[m].holder /\ op'[m].lease = op[m].lease

\* A table that only shrinks keeps the entries of its probes.
LEMMA ShrinksKeepsProbes ==
  ASSUME NEW t, NEW u, Shrinks(t, u)
  PROVE  ProbesKept(t, u)
  BY DEF Shrinks, ProbesKept, Kept, Holding

\* Every step of the tables moves a probe's two leases together.
LEMMA KeepsProbeSlots ==
  ASSUME IInv, StoreStep
  PROVE  ProbeOccupiesSlot'
<1>1. /\ entry \in Tables /\ entry' \in Tables
      /\ op \in [Models -> OpType] /\ op' \in [Models -> OpType]
      /\ ProbeOccupiesSlot
      /\ \A i \in Ids : entry[i].status # "none" => entry[i].model \in Models
  BY EntryTyped, OpTyped
     DEF IInv, TypeOK, StoreTypeOK, Tables, RowsNameModels, Present
<1>2. \A m \in Models : op[m].holder \in Holding(entry) => op[m].holder \in Probes
  BY <1>1, StoreAssumption DEF OpType, Holding, Ids
<1>3. Runs \cap Probes = {} /\ Probes \subseteq Ids /\ Runs \subseteq Ids
  BY StoreAssumption DEF Ids
<1>4. ASSUME ProbesKept(entry, entry'), LeasesKept
      PROVE  ProbeOccupiesSlot'
  BY <1>1, <1>2, <1>4 DEF ProbesKept, LeasesKept, ProbeOccupiesSlot, Holding
<1>5. op' = op => LeasesKept
  BY DEF LeasesKept
<1>6. CASE Removal
  BY <1>4, <1>5, <1>6, ShrinksKeepsProbes DEF Removal
<1>7. ASSUME NEW r \in Runs, NEW m \in Models, NEW t \in Tables, Queueing(r, m, t)
      PROVE  ProbeOccupiesSlot'
  <2>1. entry' = Queued(t, r, m) /\ Shrinks(entry, t) /\ op' = op
    BY <1>7 DEF Queueing
  <2>2. \A p \in Probes : entry'[p] = t[p]
    BY <1>3, <2>1, QueuedFacts
  <2>3. ProbesKept(entry, entry')
    BY <1>3, <2>1, <2>2, ShrinksKeepsProbes DEF ProbesKept, Holding
  <2>. QED  BY <1>4, <1>5, <2>1, <2>3
<1>8. ASSUME NEW r \in Runs, NEW t \in Tables, Leasing(r, t)
      PROVE  ProbeOccupiesSlot'
  <2>1. entry' = Leased(t, r) /\ Shrinks(entry, t) /\ op' = op /\ t[r].attempts < 2
    BY <1>8 DEF Leasing
  <2>2. \A p \in Probes : entry'[p] = t[p]
    BY <1>3, <2>1, LeasedFacts
  <2>3. ProbesKept(entry, entry')
    BY <1>3, <2>1, <2>2, ShrinksKeepsProbes DEF ProbesKept, Holding
  <2>. QED  BY <1>4, <1>5, <2>1, <2>3
<1>9. ASSUME NEW r \in Runs, Requeueing(r)
      PROVE  ProbeOccupiesSlot'
  <2>1. entry' = Requeued(entry, r) /\ op' = op
    BY <1>9 DEF Requeueing
  <2>2. \A p \in Probes : entry'[p] = entry[p]
    BY <1>1, <1>3, <2>1, RequeuedFacts
  <2>3. ProbesKept(entry, entry')
    BY <1>3, <2>2 DEF ProbesKept, Holding
  <2>. QED  BY <1>4, <1>5, <2>1, <2>3
<1>10. ASSUME NEW r \in Runs, NEW outcome \in Ended, Finishing(r, outcome)
       PROVE  ProbeOccupiesSlot'
  <2>1. entry' = Without(entry, {r})
    BY <1>10 DEF Finishing
  <2>2. \A p \in Probes : Kept(entry[p], entry'[p])
    BY <1>1, <1>3, <2>1, WithoutFacts
  <2>3. ProbesKept(entry, entry')
    BY <1>3, <2>2 DEF ProbesKept, Holding, Kept
  <2>4. PICK k \in Models : k = entry[r].model
    BY <1>1, <1>10 DEF Finishing, Holding
  <2>5. op' = [op EXCEPT ![k] = AfterRun(op[k], outcome)]
    BY <1>10, <2>4 DEF Finishing
  <2>6. /\ AfterRun(op[k], outcome).holder = op[k].holder
        /\ AfterRun(op[k], outcome).lease = op[k].lease
    BY <1>1, AfterRunFacts DEF IInv, BreakerConsistent
  <2>7. LeasesKept
    BY <1>1, <2>5, <2>6 DEF LeasesKept
  <2>. QED  BY <1>4, <2>3, <2>7
<1>11. ASSUME NEW p \in Probes, NEW m \in Models, NEW t \in Tables,
              NEW automatic \in BOOLEAN, Probing(p, m, t, automatic)
       PROVE  ProbeOccupiesSlot'
  <2>1. /\ entry' = WithProbe(t, p, m) /\ Shrinks(entry, t)
        /\ p \notin Present(entry)
        /\ \A n \in Models : op[n].holder # p
        /\ op[m].lease # "valid"
        /\ op' = [op EXCEPT ![m] = Probed(op[m], p, automatic)]
    BY <1>11 DEF Probing, WithProbe, Fresh
  <2>2. /\ \A q \in Probes \ {p} : entry'[q] = t[q]
        /\ entry'[p].status = "running" /\ entry'[p].lease = "valid"
        /\ entry'[p].model = m
    BY <1>3, <2>1, ProbeEntryFacts
  <2>3. op'[m].holder = p /\ op'[m].lease = "valid"
    <3>1. Consistent(op[m]) /\ op[m] \in OpType
      BY <1>1 DEF IInv, BreakerConsistent
    <3>2. /\ automatic => MayProbe(op[m])
          /\ ~automatic => op[m].breaker # "half_open"
      BY <1>11 DEF Probing
    <3>3. /\ Probed(op[m], p, automatic).holder = p
          /\ Probed(op[m], p, automatic).lease = "valid"
      BY <3>1, <3>2, ProbedFacts
    <3>. QED  BY <1>1, <2>1, <3>3
  <2>4. \A n \in Models \ {m} : op'[n] = op[n]
    BY <1>1, <2>1
  <2>5. \A q \in Probes \ {p} :
          /\ q \in Holding(entry') <=> q \in Holding(entry)
          /\ q \in Holding(entry) => entry'[q].model = entry[q].model
    BY <1>3, <2>1, <2>2, ShrinksKeepsProbes DEF ProbesKept, Holding
  <2>6. p \in Holding(entry')
    BY <1>3, <2>2 DEF Holding
  <2>7. ASSUME NEW n \in Models, op'[n].lease = "valid"
        PROVE  op'[n].holder \in Holding(entry') /\ entry'[op'[n].holder].model = n
    <3>1. CASE n = m
      BY <2>2, <2>3, <2>6, <3>1
    <3>2. CASE n # m
      BY <1>1, <1>2, <2>1, <2>4, <2>5, <2>7, <3>2 DEF ProbeOccupiesSlot
    <3>. QED  BY <3>1, <3>2
  <2>8. ASSUME NEW q \in Probes, q \in Holding(entry')
        PROVE  op'[entry'[q].model].holder = q /\ op'[entry'[q].model].lease = "valid"
    <3>1. CASE q = p
      BY <2>2, <2>3, <3>1
    <3>2. CASE q # p
      <4>1. q \in Holding(entry) /\ entry'[q].model = entry[q].model
        BY <2>5, <2>8, <3>2
      <4>2. entry[q].model \in Models \ {m}
        BY <1>1, <2>1, <4>1 DEF ProbeOccupiesSlot, Holding
      <4>. QED  BY <1>1, <2>4, <4>1, <4>2 DEF ProbeOccupiesSlot
    <3>. QED  BY <3>1, <3>2
  <2>. QED  BY <2>7, <2>8 DEF ProbeOccupiesSlot
<1>12. ASSUME NEW m \in Models, GivingUp(m)
       PROVE  ProbeOccupiesSlot'
  <2>1. Shrinks(entry, entry') /\ op' = [op EXCEPT ![m] = GiveUpRecovery(op[m])]
    BY <1>12 DEF GivingUp
  <2>2. \/ op'[m] = op[m]
        \/ op[m].lease = "expired" /\ op'[m].lease = "none"
    BY <1>1, <2>1, GiveUpFacts DEF IInv, BreakerConsistent
  <2>3. \A n \in Models \ {m} : op'[n] = op[n]
    BY <1>1, <2>1
  <2>4. ProbesKept(entry, entry')
    BY <2>1, ShrinksKeepsProbes
  <2>5. ASSUME NEW n \in Models, op'[n].lease = "valid"
        PROVE  op'[n].holder \in Holding(entry') /\ entry'[op'[n].holder].model = n
    <3>1. op'[n] = op[n]
      BY <2>2, <2>3, <2>5
    <3>. QED  BY <1>1, <1>2, <2>4, <2>5, <3>1 DEF ProbesKept, ProbeOccupiesSlot
  <2>6. ASSUME NEW q \in Probes, q \in Holding(entry')
        PROVE  op'[entry'[q].model].holder = q /\ op'[entry'[q].model].lease = "valid"
    <3>1. q \in Holding(entry) /\ entry'[q].model = entry[q].model
      BY <2>4, <2>6 DEF ProbesKept
    <3>2. entry[q].model \in Models
      BY <1>1, <3>1 DEF Holding
    <3>3. op[entry[q].model].holder = q /\ op[entry[q].model].lease = "valid"
      BY <1>1, <3>1 DEF ProbeOccupiesSlot
    <3>4. op'[entry[q].model] = op[entry[q].model]
      BY <2>2, <2>3, <3>2, <3>3
    <3>. QED  BY <3>1, <3>3, <3>4
  <2>. QED  BY <2>5, <2>6 DEF ProbeOccupiesSlot
<1>13. ASSUME NEW p \in Probes, NEW m \in Models, NEW result \in Results,
              ProbeEnding(p, m, result)
       PROVE  ProbeOccupiesSlot'
  <2>1. /\ op[m].holder = p /\ op[m].lease = "valid"
        /\ op' = [op EXCEPT ![m] = AfterProbe(op[m], result)]
        /\ entry' = Without(entry, Holding(entry) \cap {p})
        /\ ReasonCheck(AfterProbe(op[m], result))
    BY <1>13 DEF ProbeEnding, ProbeCurrent
  <2>2. p \in Holding(entry) /\ entry[p].model = m
    BY <1>1, <2>1 DEF ProbeOccupiesSlot
  <2>3. Holding(entry) \cap {p} = {p}
    BY <2>2
  <2>4. /\ \A q \in Probes \ {p} : Kept(entry[q], entry'[q])
        /\ entry'[p] = NoEntry
    BY <1>1, <1>3, <2>1, <2>3, WithoutFacts
  <2>5. op'[m].lease = "none"
    <3>1. AfterProbe(op[m], result).lease = "none"
      BY <1>1, <2>1, AfterProbeFacts DEF IInv, BreakerConsistent
    <3>. QED  BY <1>1, <2>1, <3>1
  <2>6. \A n \in Models \ {m} : op'[n] = op[n]
    BY <1>1, <2>1
  <2>7. \A q \in Probes :
          /\ q \in Holding(entry') <=> q # p /\ q \in Holding(entry)
          /\ q \in Holding(entry') => entry'[q].model = entry[q].model
    BY <1>3, <2>4 DEF Holding, Kept, NoEntry
  <2>8. ASSUME NEW n \in Models, op'[n].lease = "valid"
        PROVE  op'[n].holder \in Holding(entry') /\ entry'[op'[n].holder].model = n
    <3>1. n # m /\ op'[n] = op[n]
      BY <2>5, <2>6, <2>8
    <3>2. op[n].holder \in Holding(entry) /\ entry[op[n].holder].model = n
      BY <1>1, <2>8, <3>1 DEF ProbeOccupiesSlot
    <3>3. op[n].holder \in Probes /\ op[n].holder # p
      BY <1>2, <2>2, <3>1, <3>2
    <3>. QED  BY <2>7, <3>1, <3>2, <3>3
  <2>9. ASSUME NEW q \in Probes, q \in Holding(entry')
        PROVE  op'[entry'[q].model].holder = q /\ op'[entry'[q].model].lease = "valid"
    <3>1. q # p /\ q \in Holding(entry) /\ entry'[q].model = entry[q].model
      BY <2>7, <2>9
    <3>2. op[entry[q].model].holder = q /\ op[entry[q].model].lease = "valid"
      BY <1>1, <3>1 DEF ProbeOccupiesSlot
    <3>3. entry[q].model \in Models \ {m}
      BY <1>1, <2>1, <3>1, <3>2 DEF Holding
    <3>. QED  BY <2>6, <3>1, <3>2, <3>3
  <2>. QED  BY <2>8, <2>9 DEF ProbeOccupiesSlot
<1>14. ASSUME NEW i \in Ids, LeaseLapses(i)
       PROVE  ProbeOccupiesSlot'
  <2>1. /\ entry' = WithLapse(entry, i)
        /\ op' = [m \in Models |-> IF op[m].holder = i
                                   THEN [op[m] EXCEPT !.lease = "expired"]
                                   ELSE op[m]]
    BY <1>14 DEF LeaseLapses, WithLapse
  <2>2. (\A j \in Ids \ {i} : entry'[j] = entry[j]) /\ entry'[i].lease = "expired"
    BY <1>1, <2>1, LapseFacts
  <2>3. \A m \in Models :
          /\ op[m].holder = i => op'[m].lease = "expired"
          /\ op[m].holder # i => op'[m] = op[m]
    BY <1>1, <2>1 DEF OpType
  <2>4. \A j \in Ids : j \in Holding(entry') <=> j # i /\ j \in Holding(entry)
    BY <2>2 DEF Holding
  <2>. QED  BY <1>1, <1>2, <1>3, <2>2, <2>3, <2>4 DEF ProbeOccupiesSlot, Holding
<1>15. CASE Administration
  <2>1. op' = op /\ (entry' = entry \/ \E S : entry' = Cancelled(entry, S))
    BY <1>15
       DEF Administration, suspendConnection, activateConnection,
           suspendProfile, enableProfile, recordHealth, updateConnection
  <2>2. \A i \in Ids : /\ entry'[i].status = entry[i].status
                       /\ entry'[i].model = entry[i].model
                       /\ entry'[i].lease = entry[i].lease
    BY <1>1, <2>1, CancelledFacts
  <2>3. ProbesKept(entry, entry')
    BY <1>3, <2>2 DEF ProbesKept, Holding
  <2>. QED  BY <1>4, <1>5, <2>1, <2>3
<1>16. ASSUME NEW m \in Models, RecoveryTimePasses(m)
       PROVE  ProbeOccupiesSlot'
  <2>1. entry' = entry /\ op' = [op EXCEPT ![m].next = "due"]
    BY <1>16 DEF RecoveryTimePasses
  <2>2. LeasesKept
    BY <1>1, <2>1 DEF LeasesKept, OpType
  <2>3. ProbesKept(entry, entry')
    BY <2>1 DEF ProbesKept
  <2>. QED  BY <1>4, <2>2, <2>3
<1>17. CASE UNCHANGED storeVars
  BY <1>1, <1>17 DEF storeVars, ProbeOccupiesSlot, Holding
<1>. QED  BY <1>6, <1>7, <1>8, <1>9, <1>10, <1>11, <1>12, <1>13, <1>14, <1>15,
             <1>16, <1>17 DEF StoreStep

\* Every step of the tables keeps the marks a suspension left.
LEMMA KeepsSuspension ==
  ASSUME IInv, StoreStep
  PROVE  SuspensionReachesRuns'
<1> DEFINE Reached(e) ==
      e.status # "none" /\ ~e.cancelled =>
        ~verified[e.model] \/ (active /\ enabled[e.model])
<1>1. entry \in Tables /\ entry' \in Tables
  BY EntryTyped DEF IInv, TypeOK, StoreTypeOK, Tables
<1>2. /\ \A r \in Runs : Reached(entry[r])
      /\ Runs \subseteq Ids
      /\ active \in BOOLEAN /\ enabled \in [Models -> BOOLEAN]
      /\ verified \in [Models -> BOOLEAN]
      /\ \A i \in Ids : entry[i].status # "none" => entry[i].model \in Models
  BY DEF IInv, SuspensionReachesRuns, Present, Ids, TypeOK, StoreTypeOK,
         RowsNameModels
<1>3. (\A r \in Runs : Reached(entry[r])') => SuspensionReachesRuns'
  BY DEF SuspensionReachesRuns, Present
\* Statements that mark nothing and unmark nothing.
<1>4. ASSUME UNCHANGED settings, NEW r \in Runs,
             \/ entry'[r].status = "none"
             \/ /\ entry[r].status # "none"
                /\ entry'[r].model = entry[r].model
                /\ entry'[r].cancelled = entry[r].cancelled
      PROVE  Reached(entry[r])'
  <2>1. Reached(entry[r])
    BY <1>2
  <2>. QED  BY <1>4, <2>1 DEF settings
<1> HIDE DEF Reached
<1>5. ASSUME NEW t \in Tables, Shrinks(entry, t), NEW r \in Runs
      PROVE  \/ t[r].status = "none"
             \/ /\ entry[r].status # "none" /\ t[r].model = entry[r].model
                /\ t[r].cancelled = entry[r].cancelled
  BY <1>2, <1>5 DEF Shrinks, Kept
<1>6. CASE Removal \/ \E m \in Models : GivingUp(m)
  BY <1>1, <1>3, <1>4, <1>5, <1>6 DEF Removal, GivingUp, settings
<1>7. ASSUME NEW r \in Runs, NEW m \in Models, NEW t \in Tables, Queueing(r, m, t)
      PROVE  SuspensionReachesRuns'
  <2>1. /\ entry' = Queued(t, r, m) /\ Shrinks(entry, t) /\ UNCHANGED settings
        /\ active /\ enabled[m]
    BY <1>7 DEF Queueing, Admits
  <2>2. (\A i \in Ids \ {r} : entry'[i] = t[i]) /\ entry'[r].model = m
    BY <2>1, QueuedFacts
  <2>3. Reached(entry[r])'
    BY <2>1, <2>2 DEF Reached, settings
  <2>4. \A q \in Runs \ {r} : Reached(entry[q])'
    BY <1>2, <1>4, <1>5, <2>1, <2>2
  <2>. QED  BY <1>3, <2>3, <2>4
<1>8. ASSUME NEW r \in Runs, NEW t \in Tables, Leasing(r, t)
      PROVE  SuspensionReachesRuns'
  <2>1. /\ entry' = Leased(t, r) /\ Shrinks(entry, t) /\ UNCHANGED settings
        /\ t[r].attempts < 2 /\ t[r].status # "none"
    BY <1>8 DEF Leasing, Waiting
  <2>2. /\ \A i \in Ids \ {r} : entry'[i] = t[i]
        /\ entry'[r].model = t[r].model /\ entry'[r].cancelled = t[r].cancelled
    BY <2>1, LeasedFacts
  <2>3. \A q \in Runs : Reached(entry[q])'
    BY <1>2, <1>4, <1>5, <2>1, <2>2
  <2>. QED  BY <1>3, <2>3
<1>9. ASSUME NEW r \in Runs, Requeueing(r)
      PROVE  SuspensionReachesRuns'
  <2>1. entry' = Requeued(entry, r) /\ UNCHANGED settings
        /\ entry[r].status # "none"
    BY <1>9 DEF Requeueing, Holding
  <2>2. /\ \A i \in Ids \ {r} : entry'[i] = entry[i]
        /\ entry'[r].model = entry[r].model
        /\ entry'[r].cancelled = entry[r].cancelled
    BY <1>1, <2>1, RequeuedFacts
  <2>3. \A q \in Runs : Reached(entry[q])'
    BY <1>2, <1>4, <2>1, <2>2
  <2>. QED  BY <1>3, <2>3
<1>10. ASSUME NEW S, entry' = Without(entry, S), UNCHANGED settings
       PROVE  SuspensionReachesRuns'
  <2>1. \A i \in Ids : entry'[i] = NoEntry \/ Kept(entry[i], entry'[i])
    BY <1>1, <1>10, WithoutFacts
  <2>2. \A q \in Runs : Reached(entry[q])'
    BY <1>2, <1>4, <1>10, <2>1 DEF Kept, NoEntry
  <2>. QED  BY <1>3, <2>2
<1>11. ASSUME NEW p \in Probes, NEW m \in Models, NEW t \in Tables,
              NEW automatic \in BOOLEAN, Probing(p, m, t, automatic)
       PROVE  SuspensionReachesRuns'
  <2>1. entry' = WithProbe(t, p, m) /\ Shrinks(entry, t) /\ UNCHANGED settings
    BY <1>11 DEF Probing, WithProbe
  <2>2. \A r \in Runs : entry'[r] = t[r]
    BY <1>2, <2>1, ProbeEntryFacts, StoreAssumption
  <2>3. \A q \in Runs : Reached(entry[q])'
    BY <1>4, <1>5, <2>1, <2>2
  <2>. QED  BY <1>3, <2>3
<1>12. ASSUME NEW i \in Ids, LeaseLapses(i)
       PROVE  SuspensionReachesRuns'
  <2>1. entry' = WithLapse(entry, i) /\ UNCHANGED settings
    BY <1>12 DEF LeaseLapses, WithLapse
  <2>2. /\ \A j \in Ids \ {i} : entry'[j] = entry[j]
        /\ entry'[i].status = entry[i].status /\ entry'[i].model = entry[i].model
        /\ entry'[i].cancelled = entry[i].cancelled
    BY <1>1, <2>1, LapseFacts
  <2>3. \A q \in Runs : Reached(entry[q])'
    BY <1>2, <1>4, <2>1, <2>2
  <2>. QED  BY <1>3, <2>3
<1>13. CASE suspendConnection
  <2>1. entry' = Cancelled(entry, Ids)
    BY <1>13 DEF suspendConnection
  <2>2. \A r \in Runs : entry'[r].status # "none" => entry'[r].cancelled
    BY <1>1, <1>2, <2>1, CancelledFacts DEF Present
  <2>. QED  BY <1>3, <2>2 DEF Reached
<1>14. CASE activateConnection
  BY <1>2, <1>3, <1>14 DEF activateConnection, Reached
<1>15. CASE updateConnection
  BY <1>2, <1>3, <1>15 DEF updateConnection, Reached
<1>16. ASSUME NEW m \in Models, suspendProfile(m)
       PROVE  SuspensionReachesRuns'
  <2>1. /\ entry' = Cancelled(entry, Of(entry, m))
        /\ enabled' = [enabled EXCEPT ![m] = FALSE]
        /\ active' = active /\ verified' = verified
    BY <1>16 DEF suspendProfile
  <2>2. /\ \A i \in Ids : /\ entry'[i].status = entry[i].status
                          /\ entry'[i].model = entry[i].model
                          /\ entry[i].cancelled => entry'[i].cancelled
        /\ \A i \in Of(entry, m) \cap Present(entry) : entry'[i].cancelled
    BY <1>1, <2>1, CancelledFacts
  <2>3. ASSUME NEW r \in Runs, entry'[r].status # "none", ~entry'[r].cancelled
        PROVE  \/ ~verified'[entry'[r].model]
               \/ active' /\ enabled'[entry'[r].model]
    <3>1. r \in Present(entry) /\ ~entry[r].cancelled /\ r \notin Of(entry, m)
      BY <1>2, <2>2, <2>3 DEF Present
    <3>2. entry[r].model \in Models \ {m} /\ entry'[r].model = entry[r].model
      BY <1>2, <2>2, <3>1 DEF Of, Present
    <3>3. ~verified[entry[r].model] \/ (active /\ enabled[entry[r].model])
      BY <1>2, <3>1 DEF Reached, Present
    <3>. QED  BY <1>2, <2>1, <3>2, <3>3
  <2>. QED  BY <1>3, <2>3 DEF Reached
<1>17. ASSUME NEW m \in Models, enableProfile(m) \/ recordHealth(m)
       PROVE  SuspensionReachesRuns'
  BY <1>2, <1>3, <1>17 DEF enableProfile, recordHealth, Reached
<1>18. CASE entry' = entry /\ UNCHANGED settings
  BY <1>3, <1>4, <1>18
<1>19. CASE Administration
  BY <1>13, <1>14, <1>15, <1>16, <1>17, <1>19 DEF Administration
<1>. QED  BY <1>6, <1>7, <1>8, <1>9, <1>10, <1>11, <1>12, <1>18, <1>19
          DEF StoreStep, Finishing, ProbeEnding, RecoveryTimePasses, storeVars,
              settings

-----------------------------------------------------------------------------
(***************************************************************************)
(* The local variables of the runs and the probes.                         *)
(***************************************************************************)
\* An entry that goes, or loses its lease, agrees with whatever it agreed
\* with.
Weaker(e, f) ==
  \/ f.status = "none"
  \/ /\ f.status = e.status /\ f.attempts = e.attempts
     /\ f.lease = "valid" => e.lease = "valid"

\* A generator that agrees with a row agrees with what deletion leaves of it.
LEMMA AgreesWeaker ==
  ASSUME NEW v, NEW e, NEW f, Agrees(v, e), Weaker(e, f)
  PROVE  Agrees(v, f)
  BY DEF Agrees, Weaker

\* A table that only shrinks tells a generator nothing new.
LEMMA ShrinksWeaker ==
  ASSUME NEW t, NEW u, Shrinks(t, u)
  PROVE  \A i \in Ids : Weaker(t[i], u[i])
  BY DEF Shrinks, Kept, Weaker

\* Nor does a deletion.
LEMMA WithoutWeaker ==
  ASSUME NEW t \in Tables, NEW S
  PROVE  \A i \in Ids : Weaker(t[i], Without(t, S)[i])
  BY WithoutFacts DEF Kept, Weaker, NoEntry

\* What enqueue, acquire and requeueForRetry do to the caller's entry and to
\* the others.
LEMMA EnqueueRow ==
  ASSUME entry \in Tables, NEW r \in Runs, NEW m \in Models, NEW answer,
         enqueue(r, m, answer)
  PROVE  /\ \A q \in Ids \ {r} : Weaker(entry[q], entry'[q])
         /\ answer = "queued" => entry'[r].status = "queued" /\ entry'[r].attempts = 0
<1> DEFINE t == Purge(entry)
<1>1. t \in Tables /\ Shrinks(entry, t)
  BY PurgeShrinks
<1>2. entry' = IF answer = "queued" THEN Queued(t, r, m) ELSE t
  BY DEF enqueue
<1> HIDE DEF t
<1>3. \A q \in Ids : Weaker(entry[q], t[q])
  BY <1>1, ShrinksWeaker DEF Ids
<1>. QED  BY <1>1, <1>2, <1>3, QueuedFacts DEF Ids

\* What an acquisition means for the generator that polls.
LEMMA AcquireRow ==
  ASSUME entry \in Tables, NEW r \in Runs, NEW answer, acquire(r, answer),
         Agrees(run[r], entry[r]), run[r].pc \in {"queued", "retry_wait"}
  PROVE  /\ \A q \in Ids \ {r} : Weaker(entry[q], entry'[q])
         /\ answer = "acquired" => /\ entry'[r].status = "running"
                                   /\ entry'[r].attempts = run[r].attempt + 1
         /\ answer # "acquired" => Weaker(entry[r], entry'[r])
<1> DEFINE t == Purge(entry)
<1>1. t \in Tables /\ Shrinks(entry, t)
  BY PurgeShrinks
<1>2. /\ answer = AcquireAnswer(t, r)
      /\ \/ answer = "acquired" /\ entry' = Leased(t, r)
         \/ answer # "acquired" /\ (entry' = t \/ entry' = Without(t, {r}))
  BY DEF acquire
<1> HIDE DEF t
<1>3. \A q \in Ids : Weaker(entry[q], t[q])
  BY <1>1, ShrinksWeaker DEF Ids
<1>4. CASE answer = "acquired"
  <2>1. r \in Present(t) /\ entry' = Leased(t, r)
    BY <1>2, <1>4 DEF AcquireAnswer
  <2>2. t[r].status # "none" /\ Agrees(run[r], t[r])
    BY <1>3, <2>1, AgreesWeaker DEF Present
  <2>3. t[r].attempts = run[r].attempt /\ t[r].attempts < 2
    BY <2>2 DEF Agrees
  <2>. QED  BY <1>1, <1>3, <1>4, <2>1, <2>3, LeasedFacts DEF Ids
<1>5. CASE answer # "acquired"
  <2>1. \A q \in Ids : Weaker(t[q], Without(t, {r})[q])
    BY <1>1, WithoutWeaker DEF Ids
  <2>2. r \in Ids
    BY DEF Ids
  <2>. QED  BY <1>2, <1>3, <1>5, <2>1, <2>2 DEF Weaker
<1>. QED  BY <1>4, <1>5

\* What a requeue means for the generator that retries.
LEMMA RequeueRow ==
  ASSUME entry \in Tables, NEW r \in Runs, NEW answer, requeueForRetry(r, answer)
  PROVE  /\ \A q \in Ids \ {r} : entry'[q] = entry[q]
         /\ answer = "applied" => /\ r \in Holding(entry)
                                  /\ entry'[r].status = "retry_wait"
                                  /\ entry'[r].attempts = entry[r].attempts
         /\ answer # "applied" => answer = "lease_lost"
<1>1. entry' = IF answer = "applied" THEN Requeued(entry, r) ELSE entry
  BY DEF requeueForRetry
<1>2. answer = "applied" => r \in Holding(entry)
  BY DEF requeueForRetry
<1>3. answer # "applied" => answer = "lease_lost"
  BY DEF requeueForRetry
<1>. QED  BY <1>1, <1>2, <1>3, RequeuedFacts DEF Ids

\* No other probe, clock, clean-up or administrator does more than weaken an
\* entry.
LEMMA OtherRow ==
  ASSUME entry \in Tables, NEW r \in Ids,
         (\E p \in Probes \ {r} : ProbeStep(p)) \/ Time \/ CleanUp \/ Administer
  PROVE  Weaker(entry[r], entry'[r])
<1>1. r \in Ids
  OBVIOUS
<1>2. ASSUME NEW S, entry' = Without(entry, S)
      PROVE  Weaker(entry[r], entry'[r])
  BY <1>1, <1>2, WithoutWeaker
<1>3. ASSUME entry' = entry
      PROVE  Weaker(entry[r], entry'[r])
  BY <1>3 DEF Weaker
<1>4. ASSUME NEW S, NEW p \in Probes \ {r}, NEW m,
             entry' = [Without(entry, S) EXCEPT ![p] = ProbeEntry(m)]
      PROVE  Weaker(entry[r], entry'[r])
  <2>1. entry'[r] = Without(entry, S)[r]
    BY <1>1, <1>4, WithoutFacts DEF Tables
  <2>. QED  BY <1>1, <2>1, WithoutWeaker
<1>5. ASSUME NEW p \in Probes \ {r}, ProbeStep(p)
      PROVE  Weaker(entry[r], entry'[r])
  <2>1. CASE UNCHANGED storeVars
    BY <1>3, <2>1 DEF storeVars
  <2>2. ASSUME NEW m, NEW answer, acquireRecoveryProbe(p, m, answer)
        PROVE  Weaker(entry[r], entry'[r])
    BY <1>2, <1>4, <2>2 DEF acquireRecoveryProbe, ProbePurge
  <2>3. ASSUME NEW m, NEW answer, acquireManualRecoveryProbe(p, m, answer)
        PROVE  Weaker(entry[r], entry'[r])
    BY <1>2, <1>4, <2>3 DEF acquireManualRecoveryProbe, ProbePurge
  <2>4. ASSUME NEW m, NEW result, NEW answer,
               finishRecoveryProbe(p, m, result, answer)
        PROVE  Weaker(entry[r], entry'[r])
    BY <1>2, <1>3, <2>4 DEF finishRecoveryProbe
  <2>. QED  BY <1>5, <2>1, <2>2, <2>3, <2>4
            DEF ProbeStep, ListDue, AcquireListed, RunManualHealthProbe,
                FinishProbe, ProbeUnfinished, Report, ProbeCrash
<1>6. CASE CleanUp
  BY <1>2, <1>6 DEF CleanUp, purgeExpiredAiRunCoordinationEntries, Purge
<1>7. CASE Administer
  <2>1. entry' = entry \/ \E S : entry' = Cancelled(entry, S)
    BY <1>7
       DEF Administer, suspendConnection, activateConnection, suspendProfile,
           enableProfile, recordHealth, updateConnection
  <2>. QED  BY <1>1, <1>3, <2>1, CancelledFacts DEF Weaker
<1>8. ASSUME NEW i \in Ids, LeaseLapses(i)
      PROVE  Weaker(entry[r], entry'[r])
  <2>1. entry' = WithLapse(entry, i)
    BY <1>8 DEF LeaseLapses, WithLapse
  <2>. QED  BY <1>1, <2>1, LapseFacts DEF Weaker
<1>9. ASSUME NEW q \in Runs, DeadlinePasses(q) \/ RetryDue(q)
      PROVE  Weaker(entry[r], entry'[r])
  <2>1. entry[r] \in EntryType /\ DOMAIN entry = Ids
    BY <1>1 DEF Tables
  <2>. QED  BY <1>1, <1>9, <2>1 DEF DeadlinePasses, RetryDue, EntryType, Weaker
<1>10. CASE Time
  BY <1>3, <1>8, <1>9, <1>10
     DEF Time, LapseOf, DeadlineOf, RetryDueOf, RecoveryDueOf, RecoveryTimePasses
<1>. QED  BY <1>5, <1>6, <1>7, <1>10

\* Second layer: every step keeps the generators in agreement with their rows.
LEMMA RunsKept ==
  ASSUME IInv, [Next]_vars
  PROVE  run' \in [Runs -> RunType] /\ RunsAgree'
<1>1. /\ entry \in Tables /\ run \in [Runs -> RunType]
      /\ \A q \in Runs : Agrees(run[q], entry[q])
  BY DEF IInv, TypeOK, StoreTypeOK, Tables, RunsAgree
\* Steps that leave the runs' local variables alone.
<1>2. ASSUME run' = run, \A q \in Runs : Weaker(entry[q], entry'[q])
      PROVE  run' \in [Runs -> RunType] /\ RunsAgree'
  BY <1>1, <1>2, AgreesWeaker DEF RunsAgree
\* Steps of one run.
<1>3. ASSUME NEW r \in Runs, NEW v \in RunType, run' = [run EXCEPT ![r] = v],
             \A q \in Runs \ {r} : Weaker(entry[q], entry'[q]),
             Agrees(v, entry'[r])
      PROVE  run' \in [Runs -> RunType] /\ RunsAgree'
  <2>1. \A q \in Runs \ {r} : Agrees(run[q], entry'[q])
    BY <1>1, <1>3, AgreesWeaker
  <2>. QED  BY <1>1, <1>3, <2>1 DEF RunsAgree
<1>4. \A e : Weaker(e, e)
  BY DEF Weaker
<1>5. CASE UNCHANGED vars
  BY <1>2, <1>4, <1>5 DEF vars, storeVars
<1>6. CASE (\E p \in Probes : ProbeStep(p)) \/ Time \/ CleanUp \/ Administer
  <2>1. run' = run
    BY <1>6 DEF ProbeStep, ListDue, AcquireListed, RunManualHealthProbe,
                FinishProbe, ProbeUnfinished, Report, ProbeCrash, Time, LapseOf,
                DeadlineOf, RetryDueOf, RecoveryDueOf, CleanUp, Administer
  <2>. QED  BY <1>1, <1>2, <1>6, <2>1, OtherRow, StoreAssumption DEF Ids
<1>7. ASSUME NEW r \in Runs, RunStep(r)
      PROVE  run' \in [Runs -> RunType] /\ RunsAgree'
  <2>1. run[r] \in RunType /\ Agrees(run[r], entry[r]) /\ r \in Ids
    BY <1>1 DEF Ids
  <2>2. Idle \in RunType /\ \A e : Agrees(Idle, e)
    BY DEF Idle, RunType, Agrees
  <2>3. \A pc \in {"idle", "queued", "running", "settling", "retry_wait",
                   "leaving"} :
          [run[r] EXCEPT !.pc = pc] \in RunType
    BY <2>1 DEF RunType
  <2>4. \A e : Agrees([run[r] EXCEPT !.pc = "leaving"], e)
    BY <2>1 DEF RunType, Agrees
  <2>5. ASSUME NEW S, entry' = Without(entry, S)
        PROVE  \A q \in Runs : Weaker(entry[q], entry'[q])
    BY <1>1, <2>5, WithoutWeaker DEF Ids
  <2>6. ASSUME entry' = entry
        PROVE  \A q \in Runs : Weaker(entry[q], entry'[q])
    BY <2>6, <1>4
  <2>7. ASSUME NEW m \in Models, Start(r, m)
        PROVE  run' \in [Runs -> RunType] /\ RunsAgree'
    <3>1. PICK answer \in {"queued", "queue_full", "breaker_open"} :
            /\ enqueue(r, m, answer)
            /\ \/ run' = IF answer = "queued"
                         THEN [run EXCEPT ![r].pc = "queued"] ELSE run
               \/ UNCHANGED run
      BY <2>7 DEF Start
    <3>2. /\ \A q \in Runs \ {r} : Weaker(entry[q], entry'[q])
          /\ answer = "queued" =>
               entry'[r].status = "queued" /\ entry'[r].attempts = 0
      BY <1>1, <3>1, EnqueueRow DEF Ids
    <3>3. run[r].pc = "idle"
      BY <2>7 DEF Start
    <3>4. CASE run' = run
      <4>1. run' = [run EXCEPT ![r] = run[r]] /\ Agrees(run[r], entry'[r])
        BY <1>1, <3>3, <3>4 DEF Agrees
      <4>. QED  BY <1>3, <2>1, <3>2, <4>1
    <3>5. CASE answer = "queued" /\ run' = [run EXCEPT ![r].pc = "queued"]
      <4> DEFINE v == [run[r] EXCEPT !.pc = "queued"]
      <4>1. v \in RunType /\ v.pc = "queued" /\ v.attempt = 0
        BY <2>1, <3>3 DEF RunType, Agrees
      <4>2. run' = [run EXCEPT ![r] = v]
        BY <1>1, <3>5
      <4> HIDE DEF v
      <4>3. Agrees(v, entry'[r])
        BY <3>2, <3>5, <4>1 DEF Agrees
      <4>. QED  BY <1>3, <3>2, <4>1, <4>2, <4>3
    <3>. QED  BY <3>1, <3>4, <3>5
  <2>8. CASE Poll(r)
    <3>1. PICK answer \in {"acquired", "waiting", "expired", "cancelled",
                           "breaker_open"} :
            /\ acquire(r, answer)
            /\ \/ answer = "acquired"
                  /\ run' = [run EXCEPT ![r].pc = "running", ![r].attempt = @ + 1]
               \/ answer # "acquired" /\ UNCHANGED run
               \/ Becomes(r, "leaving")
      BY <2>8 DEF Poll
    <3>2. run[r].pc \in {"queued", "retry_wait"}
      BY <2>8 DEF Poll
    <3>3. /\ \A q \in Runs \ {r} : Weaker(entry[q], entry'[q])
          /\ answer = "acquired" => /\ entry'[r].status = "running"
                                    /\ entry'[r].attempts = run[r].attempt + 1
          /\ answer # "acquired" => Weaker(entry[r], entry'[r])
      BY <1>1, <2>1, <3>1, <3>2, AcquireRow DEF Ids
    <3>4. CASE answer # "acquired" /\ UNCHANGED run
      <4>1. \A q \in Runs : Weaker(entry[q], entry'[q])
        BY <3>3, <3>4
      <4>. QED  BY <1>2, <3>4, <4>1
    <3>5. CASE Becomes(r, "leaving")
      <4> DEFINE v == [run[r] EXCEPT !.pc = "leaving"]
      <4>1. v \in RunType /\ Agrees(v, entry'[r])
        BY <2>3, <2>4
      <4>2. run' = [run EXCEPT ![r] = v]
        BY <1>1, <3>5 DEF Becomes
      <4> HIDE DEF v
      <4>. QED  BY <1>3, <3>3, <4>1, <4>2
    <3>6. CASE /\ answer = "acquired"
               /\ run' = [run EXCEPT ![r].pc = "running", ![r].attempt = @ + 1]
      <4> DEFINE v == [run[r] EXCEPT !.pc = "running", !.attempt = @ + 1]
      <4>1. run[r].attempt + 1 \in 0 .. 2
        BY <2>1, <3>2 DEF Agrees
      <4>2. /\ v \in RunType /\ v.pc = "running"
            /\ v.attempt = run[r].attempt + 1
        BY <2>1, <4>1 DEF RunType
      <4>3. run' = [run EXCEPT ![r] = v]
        BY <1>1, <2>1, <3>6 DEF RunType
      <4> HIDE DEF v
      <4>4. Agrees(v, entry'[r])
        BY <3>3, <3>6, <4>2 DEF Agrees
      <4>. QED  BY <1>3, <3>3, <4>2, <4>3, <4>4
    <3>. QED  BY <3>1, <3>4, <3>5, <3>6
  <2>9. CASE \/ StopWaiting(r)
             \/ NoticeCancellation(r) /\ Becomes(r, "leaving")
    <3> DEFINE v == [run[r] EXCEPT !.pc = "leaving"]
    <3>1. v \in RunType /\ Agrees(v, entry'[r])
      BY <2>3, <2>4
    <3>2. run' = [run EXCEPT ![r] = v]
      BY <1>1, <2>9 DEF Becomes, StopWaiting
    <3>3. entry' = entry
      BY <2>9 DEF StopWaiting, NoticeCancellation, storeVars
    <3> HIDE DEF v
    <3>. QED  BY <1>3, <2>6, <3>1, <3>2, <3>3
  <2>10. CASE \/ AttemptEnds(r) \/ LoseLease(r)
              \/ NoticeCancellation(r) /\ run[r].pc = "running"
    <3>1. PICK lost \in BOOLEAN, outcome \in Ended :
            run' = [run EXCEPT ![r] = [run[r] EXCEPT !.pc = "settling",
                                         !.lost = lost, !.outcome = outcome]]
      <4>1. Outcomes \subseteq Ended
        BY DisturbanceAssumption DEF Ended
      <4>2. run[r].lost \in BOOLEAN
        BY <2>1 DEF RunType
      <4>3. CASE AttemptEnds(r)
        <5>1. PICK outcome \in Outcomes :
                run' = [run EXCEPT ![r].pc = "settling", ![r].outcome = outcome]
          BY <4>3 DEF AttemptEnds
        <5>2. run' = [run EXCEPT ![r] = [run[r] EXCEPT !.pc = "settling",
                                 !.lost = run[r].lost, !.outcome = outcome]]
          BY <1>1, <2>1, <5>1 DEF RunType
        <5>. QED  BY <4>1, <4>2, <5>2
      <4>4. CASE LoseLease(r)
        <5>1. PICK outcome \in {"stopped", "unavailable"} :
                run' = [run EXCEPT ![r].pc = "settling", ![r].lost = TRUE,
                                   ![r].outcome = outcome]
          BY <4>4 DEF LoseLease
        <5>2. run' = [run EXCEPT ![r] = [run[r] EXCEPT !.pc = "settling",
                                         !.lost = TRUE, !.outcome = outcome]]
          BY <1>1, <2>1, <5>1 DEF RunType
        <5>. QED  BY <5>2 DEF Ended
      <4>5. CASE NoticeCancellation(r) /\ run[r].pc = "running"
        <5>1. run' = [run EXCEPT ![r].pc = "settling", ![r].outcome = "stopped"]
          BY <4>5 DEF NoticeCancellation
        <5>2. run' = [run EXCEPT ![r] = [run[r] EXCEPT !.pc = "settling",
                               !.lost = run[r].lost, !.outcome = "stopped"]]
          BY <1>1, <2>1, <5>1 DEF RunType
        <5>. QED  BY <4>2, <5>2 DEF Ended
      <4>. QED  BY <2>10, <4>3, <4>4, <4>5
    <3> DEFINE v == [run[r] EXCEPT !.pc = "settling", !.lost = lost,
                                   !.outcome = outcome]
    <3>2. /\ v \in RunType /\ v.pc = "settling" /\ v.outcome # "none"
          /\ v.attempt = run[r].attempt
      BY <2>1 DEF RunType, Ended
    <3>3. run[r].pc = "running" /\ entry' = entry
      BY <2>10 DEF AttemptEnds, LoseLease, NoticeCancellation, storeVars
    <3> HIDE DEF v
    <3>4. Agrees(v, entry'[r])
      BY <2>1, <3>2, <3>3 DEF Agrees
    <3>5. run' = [run EXCEPT ![r] = v]
      BY <3>1 DEF v
    <3>. QED  BY <1>3, <2>6, <3>2, <3>3, <3>4, <3>5
  <2>11. CASE Retry(r)
    <3>1. PICK answer \in {"applied", "lease_lost"} :
            /\ requeueForRetry(r, answer)
            /\ \/ answer = "applied"
                  /\ run' = [run EXCEPT ![r].pc = "retry_wait",
                                ![r].lost = FALSE, ![r].outcome = "none"]
               \/ answer = "lease_lost" /\ Returns(r)
               \/ run' = [run EXCEPT ![r].outcome = "stopped"]
      BY <2>11 DEF Retry
    <3>2. run[r].pc = "settling" /\ run[r].attempt = 1
      BY <2>11 DEF Retry
    <3>3. /\ \A q \in Runs \ {r} : Weaker(entry[q], entry'[q])
          /\ answer = "applied" => /\ r \in Holding(entry)
                                   /\ entry'[r].status = "retry_wait"
                                   /\ entry'[r].attempts = entry[r].attempts
          /\ answer # "applied" => entry' = entry
      BY <1>1, <1>4, <3>1, RequeueRow DEF requeueForRetry, Ids
    <3>4. CASE /\ answer = "applied"
               /\ run' = [run EXCEPT ![r].pc = "retry_wait",
                             ![r].lost = FALSE, ![r].outcome = "none"]
      <4> DEFINE v == [run[r] EXCEPT !.pc = "retry_wait", !.lost = FALSE,
                                     !.outcome = "none"]
      <4>1. v \in RunType /\ v.pc = "retry_wait" /\ v.attempt = 1
        BY <2>1, <3>2 DEF RunType
      <4>2. run' = [run EXCEPT ![r] = v]
        BY <1>1, <2>1, <3>4 DEF RunType
      <4>3. entry'[r].attempts = 1
        BY <2>1, <3>2, <3>3, <3>4 DEF Agrees, Holding
      <4> HIDE DEF v
      <4>4. Agrees(v, entry'[r])
        BY <3>3, <3>4, <4>1, <4>3 DEF Agrees
      <4>. QED  BY <1>3, <3>3, <4>1, <4>2, <4>4
    <3>5. CASE Returns(r)
      BY <1>3, <2>2, <3>3, <3>5 DEF Returns
    <3>6. CASE run' = [run EXCEPT ![r].outcome = "stopped"]
      <4> DEFINE v == [run[r] EXCEPT !.outcome = "stopped"]
      <4>1. /\ v \in RunType /\ v.pc = "settling" /\ v.outcome # "none"
            /\ v.attempt = run[r].attempt
        BY <2>1, <3>2 DEF RunType
      <4>2. run' = [run EXCEPT ![r] = v]
        BY <1>1, <3>6
      <4> HIDE DEF v
      <4>3. Agrees(v, entry'[r])
        BY <2>1, <3>2, <3>3, <4>1 DEF Agrees
      <4>. QED  BY <1>3, <3>3, <4>1, <4>2, <4>3
    <3>. QED  BY <3>1, <3>4, <3>5, <3>6
  <2>12. CASE Finish(r) \/ Leave(r) \/ Crash(r)
    <3>1. run' = [run EXCEPT ![r] = Idle]
      BY <2>12 DEF Finish, Leave, Crash, Returns
    <3>2. entry' = entry \/ \E S : entry' = Without(entry, S)
      BY <2>12 DEF Finish, Leave, Crash, finish, abandon, storeVars
    <3>3. \A q \in Runs : Weaker(entry[q], entry'[q])
      BY <2>5, <2>6, <3>2
    <3>. QED  BY <1>3, <2>2, <3>1, <3>3
  <2>13. NoticeCancellation(r) =>
           Becomes(r, "leaving") \/ run[r].pc = "running"
    BY DEF NoticeCancellation
  <2>14. CASE NoticeCancellation(r)
    BY <2>9, <2>10, <2>13, <2>14
  <2>. QED  BY <1>7, <2>7, <2>8, <2>9, <2>10, <2>11, <2>12, <2>14 DEF RunStep
<1>. QED  BY <1>5, <1>6, <1>7 DEF Next

\* A step of a run weakens the entries of the others.
LEMMA RunStepRow ==
  ASSUME IInv, NEW r \in Runs, RunStep(r), NEW i \in Ids \ {r}
  PROVE  Weaker(entry[i], entry'[i])
<1>1. entry \in Tables /\ Agrees(run[r], entry[r])
  BY DEF IInv, TypeOK, StoreTypeOK, Tables, RunsAgree
<1>2. \A e : Weaker(e, e)
  BY DEF Weaker
<1>3. ASSUME NEW m \in Models, Start(r, m)
      PROVE  Weaker(entry[i], entry'[i])
  BY <1>1, <1>3, EnqueueRow DEF Start
<1>4. CASE Poll(r)
  BY <1>1, <1>4, AcquireRow DEF Poll
<1>5. CASE Retry(r)
  BY <1>1, <1>2, <1>5, RequeueRow DEF Retry
<1>6. CASE Finish(r) \/ Leave(r)
  <2>1. entry' = entry \/ \E S : entry' = Without(entry, S)
    BY <1>6 DEF Finish, Leave, finish, abandon, storeVars
  <2>. QED  BY <1>1, <1>2, <2>1, WithoutWeaker
<1>7. CASE StopWaiting(r) \/ AttemptEnds(r) \/ NoticeCancellation(r)
           \/ LoseLease(r) \/ Crash(r)
  BY <1>2, <1>7 DEF StopWaiting, AttemptEnds, NoticeCancellation, LoseLease,
                    Crash, storeVars
<1>. QED  BY <1>3, <1>4, <1>5, <1>6, <1>7 DEF RunStep

\* Who may come to hold the lease of an operational state.
LEMMA HolderMoves ==
  ASSUME IInv, NEW p \in Probes, NEW m \in Models, [Next]_vars,
         op[m].holder # p, op'[m].holder = p
  PROVE  ProbeStep(p) /\ probe'[p].pc # "listed"
<1>1. /\ op \in [Models -> OpType] /\ \A n \in Models : Consistent(op[n])
      /\ RowsNameModels
      /\ p # NoProbe
  BY StoreAssumption DEF IInv, TypeOK, StoreTypeOK, BreakerConsistent
<1>2. CASE op' = op
  BY <1>2
<1>3. ASSUME NEW r \in Runs, RunStep(r)
      PROVE  FALSE
  <2>1. op' = op \/ \E outcome \in Ended : finish(r, outcome)
    <3>1. ASSUME Finish(r), ~UNCHANGED storeVars
          PROVE  \E outcome \in Ended : finish(r, outcome)
      BY <3>1 DEF Finish, IInv, RunsAgree, Agrees, TypeOK, RunType, Ended
    <3>. QED  BY <1>3, <3>1
              DEF RunStep, Start, Poll, StopWaiting, AttemptEnds,
                  NoticeCancellation, LoseLease, Retry, Finish, Leave, Crash,
                  enqueue, acquire, requeueForRetry, abandon, storeVars
  <2>2. ASSUME NEW outcome \in Ended, finish(r, outcome), op' # op
        PROVE  FALSE
    <3>1. PICK k \in Models : k = entry[r].model
      BY <1>1, <2>2 DEF finish, Holding, RowsNameModels, Present
    <3>2. op' = [op EXCEPT ![k] = AfterRun(op[k], outcome)]
      BY <2>2, <3>1 DEF finish
    <3>3. AfterRun(op[k], outcome).holder = op[k].holder
      BY <1>1, AfterRunFacts
    <3>. QED  BY <1>1, <3>2, <3>3
  <2>. QED  BY <1>2, <2>1, <2>2
<1>4. ASSUME NEW q \in Probes, ProbeStep(q)
      PROVE  ProbeStep(p) /\ probe'[p].pc # "listed"
  <2>1. CASE ListDue(q) \/ ProbeUnfinished(q) \/ Report(q) \/ ProbeCrash(q)
    BY <1>2, <2>1 DEF ListDue, ProbeUnfinished, Report, ProbeCrash, storeVars
  <2>2. CASE FinishProbe(q)
    <3>1. PICK result \in Results, answer \in {"applied", "superseded", "throws"} :
            finishRecoveryProbe(q, probe[q].model, result, answer)
      BY <2>2, DisturbanceAssumption DEF FinishProbe, Results
    <3>2. probe[q].model \in Models
      BY <2>2 DEF FinishProbe, IInv, ProbesAgree
    <3>3. PICK n \in Models : n = probe[q].model
      BY <3>2
    <3>4. CASE answer = "applied"
      <4>1. /\ op' = [op EXCEPT ![n] = AfterProbe(op[n], result)]
            /\ ReasonCheck(AfterProbe(op[n], result))
        BY <3>1, <3>3, <3>4 DEF finishRecoveryProbe
      <4>2. AfterProbe(op[n], result).holder = NoProbe
        BY <1>1, <4>1, AfterProbeFacts
      <4>. QED  BY <1>1, <4>1, <4>2
    <3>5. CASE answer # "applied"
      BY <1>2, <3>1, <3>5 DEF finishRecoveryProbe
    <3>. QED  BY <3>4, <3>5
  <2>3. CASE AcquireListed(q)
    <3>1. PICK answer \in BOOLEAN :
            /\ acquireRecoveryProbe(q, probe[q].model, answer)
            /\ \/ probe' = [probe EXCEPT ![q].pc = "probing"]
               \/ probe' = [probe EXCEPT ![q] = NotProbing]
      BY <2>3 DEF AcquireListed
    <3>2. PICK n \in Models : n = probe[q].model
      BY <2>3 DEF AcquireListed, IInv, ProbesAgree
    <3>3. PICK s : s = GiveUpRecovery(op[n])
      OBVIOUS
    <3>4. s \in OpType /\ (s.holder = op[n].holder \/ s.holder = NoProbe)
      BY <1>1, <3>3, GiveUpFacts
    <3>5. op' = [op EXCEPT ![n] =
                   IF answer THEN [s EXCEPT !.breaker = "half_open", !.holder = q,
                                            !.recoveries = @ + 1, !.lease = "valid"]
                   ELSE s]
      BY <3>1, <3>2, <3>3 DEF acquireRecoveryProbe
    <3>6. op'[m].holder \in {op[m].holder, NoProbe, q}
      BY <1>1, <3>4, <3>5 DEF OpType
    <3>7. p = q
      BY <1>1, <3>6
    <3>8. probe \in [Probes -> ProbeType]
      BY DEF IInv, TypeOK
    <3>. QED  BY <1>4, <3>1, <3>7, <3>8 DEF NotProbing, ProbeType
  <2>4. ASSUME NEW n \in Models, RunManualHealthProbe(q, n)
        PROVE  ProbeStep(p) /\ probe'[p].pc # "listed"
    <3>1. PICK answer \in BOOLEAN : acquireManualRecoveryProbe(q, n, answer)
      BY <2>4 DEF RunManualHealthProbe
    <3>2. \/ op' = op
          \/ op' = [op EXCEPT
                      ![n].breaker = IF @ = "open" THEN "half_open" ELSE @,
                      ![n].holder = q, ![n].lease = "valid"]
      BY <3>1 DEF acquireManualRecoveryProbe
    <3>3. op'[m].holder \in {op[m].holder, q}
      BY <1>1, <3>2 DEF OpType
    <3>4. p = q /\ probe \in [Probes -> ProbeType]
      BY <3>3 DEF IInv, TypeOK
    <3>. QED  BY <1>4, <2>4, <3>4 DEF RunManualHealthProbe, ProbeType
  <2>. QED  BY <1>4, <2>1, <2>2, <2>3, <2>4 DEF ProbeStep
<1>5. ASSUME Time \/ CleanUp \/ Administer \/ UNCHANGED vars
      PROVE  FALSE
  <2>1. op'[m].holder = op[m].holder
    <3>1. \A i \in Ids : LeaseLapses(i) => op'[m].holder = op[m].holder
      BY <1>1 DEF LeaseLapses, OpType
    <3>2. \A n \in Models : RecoveryTimePasses(n) => op'[m].holder = op[m].holder
      BY <1>1 DEF RecoveryTimePasses, OpType
    <3>3. \A r \in Runs : DeadlinePasses(r) \/ RetryDue(r) => op' = op
      BY DEF DeadlinePasses, RetryDue
    <3>4. CleanUp \/ Administer \/ UNCHANGED vars => op' = op
      BY DEF CleanUp, purgeExpiredAiRunCoordinationEntries, Administer,
             suspendConnection, activateConnection, suspendProfile,
             enableProfile, recordHealth, updateConnection, vars, storeVars
    <3>. QED  BY <1>5, <3>1, <3>2, <3>3, <3>4
              DEF Time, LapseOf, DeadlineOf, RetryDueOf, RecoveryDueOf
  <2>. QED  BY <2>1
<1>. QED  BY <1>3, <1>4, <1>5 DEF Next

\* No step gives two models the same probe.
LEMMA HoldersDistinct ==
  ASSUME IInv, StoreStep, NEW m \in Models, NEW n \in Models,
         op'[m].holder = op'[n].holder
  PROVE  m = n \/ op'[m].holder = NoProbe
<1>1. /\ op \in [Models -> OpType] /\ \A k \in Models : Consistent(op[k])
      /\ \A k, l \in Models : op[k].holder = op[l].holder =>
           k = l \/ op[k].holder = NoProbe
      /\ RowsNameModels
  BY DEF IInv, TypeOK, StoreTypeOK, BreakerConsistent, ProbesAgree
\* One state changes, to a holder of no other state.
<1>2. ASSUME NEW k \in Models, NEW s, op' = [op EXCEPT ![k] = s],
             \/ s.holder = op[k].holder
             \/ s.holder = NoProbe
             \/ \A l \in Models : op[l].holder # s.holder
      PROVE  m = n \/ op'[m].holder = NoProbe
  BY <1>1, <1>2
<1>3. CASE op' = op
  BY <1>1, <1>3
<1>4. ASSUME NEW r \in Runs, NEW outcome \in Ended, Finishing(r, outcome)
      PROVE  m = n \/ op'[m].holder = NoProbe
  <2>1. PICK k \in Models : k = entry[r].model
    BY <1>1, <1>4 DEF Finishing, Holding, RowsNameModels, Present
  <2>2. op' = [op EXCEPT ![k] = AfterRun(op[k], outcome)]
    BY <1>4, <2>1 DEF Finishing
  <2>3. AfterRun(op[k], outcome).holder = op[k].holder
    BY <1>1, AfterRunFacts
  <2>. QED  BY <1>2, <2>2, <2>3
<1>5. ASSUME NEW p \in Probes, NEW k \in Models, NEW t \in Tables,
             NEW automatic \in BOOLEAN, Probing(p, k, t, automatic)
      PROVE  m = n \/ op'[m].holder = NoProbe
  <2>1. /\ op' = [op EXCEPT ![k] = Probed(op[k], p, automatic)]
        /\ \A l \in Models : op[l].holder # p
        /\ automatic => MayProbe(op[k])
        /\ ~automatic => op[k].breaker # "half_open"
    BY <1>5 DEF Probing, Fresh
  <2>2. Probed(op[k], p, automatic).holder = p
    BY <1>1, <2>1, ProbedFacts
  <2>. QED  BY <1>2, <2>1, <2>2
<1>6. ASSUME NEW k \in Models, GivingUp(k)
      PROVE  m = n \/ op'[m].holder = NoProbe
  <2>1. op' = [op EXCEPT ![k] = GiveUpRecovery(op[k])]
    BY <1>6 DEF GivingUp
  <2>2. \/ GiveUpRecovery(op[k]).holder = op[k].holder
        \/ GiveUpRecovery(op[k]).holder = NoProbe
    BY <1>1, GiveUpFacts
  <2>. QED  BY <1>2, <2>1, <2>2
<1>7. ASSUME NEW p \in Probes, NEW k \in Models, NEW result \in Results,
             ProbeEnding(p, k, result)
      PROVE  m = n \/ op'[m].holder = NoProbe
  <2>1. /\ op' = [op EXCEPT ![k] = AfterProbe(op[k], result)]
        /\ ReasonCheck(AfterProbe(op[k], result))
    BY <1>7 DEF ProbeEnding
  <2>2. AfterProbe(op[k], result).holder = NoProbe
    BY <1>1, <2>1, AfterProbeFacts
  <2>. QED  BY <1>2, <2>1, <2>2
<1>8. ASSUME NEW i \in Ids, LeaseLapses(i)
      PROVE  m = n \/ op'[m].holder = NoProbe
  BY <1>1, <1>8 DEF LeaseLapses, OpType
<1>9. ASSUME NEW k \in Models, RecoveryTimePasses(k)
      PROVE  m = n \/ op'[m].holder = NoProbe
  BY <1>1, <1>9 DEF RecoveryTimePasses, OpType
<1>10. CASE Administration
  BY <1>3, <1>10
     DEF Administration, suspendConnection, activateConnection, suspendProfile,
         enableProfile, recordHealth, updateConnection
<1>. QED  BY <1>3, <1>4, <1>5, <1>6, <1>7, <1>8, <1>9, <1>10
          DEF StoreStep, Removal, Queueing, Leasing, Requeueing, storeVars

\* Every step keeps the local variables of the probes in agreement.
LEMMA ProbesRemain ==
  ASSUME IInv, [Next]_vars
  PROVE  probe' \in [Probes -> ProbeType] /\ ProbesAgree'
<1>1. /\ entry \in Tables /\ probe \in [Probes -> ProbeType]
      /\ Runs \cap Probes = {} /\ Probes \subseteq Ids
      /\ \A p \in Probes : probe[p].pc # "idle" => probe[p].model \in Models
  BY StoreAssumption
     DEF IInv, TypeOK, StoreTypeOK, Tables, Ids, ProbesAgree
<1>2. NotProbing \in ProbeType /\ NotProbing.pc = "idle"
  BY DEF NotProbing, ProbeType
<1> DEFINE Named(v) == v \in ProbeType /\ (v.pc # "idle" => v.model \in Models)
<1>3. ASSUME NEW p \in Probes, ProbeStep(p)
      PROVE  \E v : Named(v) /\ probe' = [probe EXCEPT ![p] = v]
  <2>1. Named(NotProbing) /\ Named(probe[p])
    BY <1>1, <1>2
  <2>2. \A pc \in {"probing", "reporting"} : probe[p].pc # "idle" =>
          Named([probe[p] EXCEPT !.pc = pc])
    BY <1>1 DEF ProbeType
  <2>3. \A m \in Models : /\ Named([pc |-> "listed", kind |-> "automatic", model |-> m])
                          /\ Named([pc |-> "probing", kind |-> "manual", model |-> m])
    BY DEF ProbeType
  <2>4. CASE ListDue(p)
    <3>1. PICK m \in Models :
            probe' = [probe EXCEPT ![p] = [pc |-> "listed", kind |-> "automatic",
                                           model |-> m]]
      BY <2>4 DEF ListDue, listDueRecoveryProbes
    <3> HIDE DEF Named
    <3>. QED  BY <2>3, <3>1
  <2>5. ASSUME NEW m \in Models, RunManualHealthProbe(p, m)
        PROVE  \E v : Named(v) /\ probe' = [probe EXCEPT ![p] = v]
    <3>1. \/ probe' = [probe EXCEPT ![p] = [pc |-> "probing", kind |-> "manual",
                                            model |-> m]]
          \/ probe' = [probe EXCEPT ![p] = probe[p]]
      BY <1>1, <2>5 DEF RunManualHealthProbe
    <3> HIDE DEF Named
    <3>. QED  BY <2>1, <2>3, <3>1
  <2>6. CASE AcquireListed(p) \/ FinishProbe(p) \/ ProbeUnfinished(p)
             \/ Report(p) \/ ProbeCrash(p)
    <3>1. /\ probe[p].pc # "idle"
          /\ \/ probe' = [probe EXCEPT ![p] = NotProbing]
             \/ probe' = [probe EXCEPT ![p].pc = "probing"]
             \/ probe' = [probe EXCEPT ![p].pc = "reporting"]
      BY <2>6 DEF AcquireListed, FinishProbe, ProbeUnfinished, Report, ProbeCrash
    <3>2. \/ probe' = [probe EXCEPT ![p] = NotProbing]
          \/ \E pc \in {"probing", "reporting"} :
               probe' = [probe EXCEPT ![p] = [probe[p] EXCEPT !.pc = pc]]
      BY <1>1, <3>1
    <3> HIDE DEF Named
    <3>. QED  BY <2>1, <2>2, <3>1, <3>2
  <2>. QED  BY <1>3, <2>4, <2>5, <2>6 DEF ProbeStep
<1>4. ASSUME NEW p \in Probes, ProbeStep(p)
      PROVE  /\ probe' \in [Probes -> ProbeType]
             /\ \A q \in Probes : Named(probe'[q])
             /\ \A q \in Probes \ {p} : probe'[q] = probe[q]
  <2>1. PICK v : Named(v) /\ probe' = [probe EXCEPT ![p] = v]
    BY <1>3, <1>4
  <2>2. \A q \in Probes : Named(probe[q])
    BY <1>1
  <2>. QED  BY <1>1, <2>1, <2>2
<1>5. ASSUME \A p \in Probes : ~ProbeStep(p)
      PROVE  probe' = probe
  BY <1>5
     DEF Next, RunStep, Start, Poll, StopWaiting, AttemptEnds,
         NoticeCancellation, LoseLease, Retry, Finish, Leave, Crash, Time,
         LapseOf, DeadlineOf, RetryDueOf, RecoveryDueOf, CleanUp, Administer,
         vars
<1>6. /\ probe' \in [Probes -> ProbeType]
      /\ \A q \in Probes : Named(probe'[q])
      /\ \A q \in Probes : ~ProbeStep(q) => probe'[q] = probe[q]
  <2>1. CASE \E p \in Probes : ProbeStep(p)
    <3> HIDE DEF Named
    <3>. QED  BY <1>4, <2>1
  <2>2. CASE \A p \in Probes : ~ProbeStep(p)
    <3>1. probe' = probe
      BY <1>5, <2>2
    <3>. QED  BY <1>1, <3>1
  <2>. QED  BY <2>1, <2>2
<1>7. ASSUME NEW q \in Probes, probe'[q].pc = "listed"
      PROVE  Fresh(q)'
  <2>1. CASE ProbeStep(q)
    <3>1. ListDue(q)
      BY <1>1, <1>2, <1>7, <2>1
         DEF ProbeStep, AcquireListed, RunManualHealthProbe, FinishProbe,
             ProbeUnfinished, Report, ProbeCrash, ProbeType
    <3>. QED  BY <3>1 DEF ListDue, Fresh, storeVars, Present
  <2>2. CASE ~ProbeStep(q)
    <3>1. probe[q].pc = "listed"
      BY <1>6, <1>7, <2>2
    <3>2. Fresh(q)
      BY <3>1 DEF IInv, ProbesAgree
    <3>3. \A m \in Models : op'[m].holder # q
      BY <2>2, <3>2, HolderMoves DEF Fresh
    <3>4. Weaker(entry[q], entry'[q])
      <4>1. CASE UNCHANGED vars
        BY <4>1 DEF vars, storeVars, Weaker
      <4>2. ASSUME NEW r \in Runs, RunStep(r)
            PROVE  Weaker(entry[q], entry'[q])
        BY <1>1, <4>2, RunStepRow
      <4>3. CASE (\E p \in Probes : ProbeStep(p)) \/ Time \/ CleanUp \/ Administer
        BY <1>1, <2>2, <4>3, OtherRow
      <4>. QED  BY <4>1, <4>2, <4>3 DEF Next
    <3>5. entry'[q].status = "none"
      BY <1>1, <3>2, <3>4 DEF Fresh, Present, Weaker
    <3>. QED  BY <3>3, <3>5 DEF Fresh, Present
  <2>. QED  BY <2>1, <2>2
<1>8. \A m, n \in Models : op'[m].holder = op'[n].holder =>
        m = n \/ op'[m].holder = NoProbe
  BY NextStore, HoldersDistinct
<1>. QED  BY <1>6, <1>7, <1>8 DEF ProbesAgree

-----------------------------------------------------------------------------
(***************************************************************************)
(* The inductive invariant and what follows from it.                       *)
(***************************************************************************)
LEMMA InitIInv ==
  ASSUME Init
  PROVE  IInv
<1>. USE DEF Init, StoreInit
<1>1. TypeOK
  <2>1. Idle \in RunType /\ NotProbing \in ProbeType
    BY DEF Idle, RunType, NotProbing, ProbeType
  <2>. QED  BY <2>1, NoEntryType, HealthyFacts DEF TypeOK, StoreTypeOK
<1>2. /\ Present(entry) = {} /\ Holding(entry) = {}
      /\ RowsNameModels /\ SuspensionReachesRuns
  BY DEF NoEntry, Present, Holding, RowsNameModels, SuspensionReachesRuns
<1>3. RunsAgree
  BY DEF RunsAgree, Agrees, Idle
<1>4. \A m \in Models : op[m].holder = NoProbe /\ op[m].lease = "none"
  BY DEF Healthy
<1>5. ProbesAgree
  BY <1>4 DEF ProbesAgree, NotProbing
<1>6. CapacityRespected
  <2>1. \A m : Holding(entry) \cap Of(entry, m) = {}
    BY <1>2
  <2>2. Cardinality({}) = 0
    BY FS_EmptySet
  <2>. QED  BY <1>2, <2>1, <2>2, StoreAssumption DEF CapacityRespected
<1>7. ProbeOccupiesSlot
  BY <1>2, <1>4 DEF ProbeOccupiesSlot
<1>8. BreakerConsistent
  BY HealthyFacts DEF BreakerConsistent
<1>. QED  BY <1>1, <1>2, <1>3, <1>5, <1>6, <1>7, <1>8 DEF IInv

\* The invariant is inductive.
LEMMA NextIInv ==
  ASSUME IInv, [Next]_vars
  PROVE  IInv'
<1>1. StoreStep
  BY NextStore
<1>2. StoreTypeOK' /\ RowsNameModels' /\ BreakerConsistent'
  BY <1>1, StoreTyped
<1>3. run' \in [Runs -> RunType] /\ RunsAgree'
  BY RunsKept
<1>4. probe' \in [Probes -> ProbeType] /\ ProbesAgree'
  BY ProbesRemain
<1>5. CapacityRespected' /\ ProbeOccupiesSlot' /\ SuspensionReachesRuns'
  BY <1>1, KeepsCapacity, KeepsProbeSlots, KeepsSuspension
<1>. QED  BY <1>2, <1>3, <1>4, <1>5 DEF IInv, TypeOK

\* The inductive invariant holds in every reachable state of the tables and
\* the instances (run-coordination-store.ts, run-coordinator.ts).
THEOREM Invariance == Spec => []IInv
  BY InitIInv, NextIInv, PTL DEF Spec

\* Every reachable state has its type: no run executes a third attempt and
\* no counter of the breaker passes its limit.
THEOREM AiTypeCorrect == Spec => []TypeOK
<1>1. IInv => TypeOK
  BY DEF IInv
<1>. QED  BY <1>1, Invariance, PTL

\* Runs and probes of any number of instances never hold more valid leases
\* than the connection and each model allow.
THEOREM CapacityHolds == Spec => []CapacityRespected
<1>1. IInv => CapacityRespected
  BY DEF IInv
<1>. QED  BY <1>1, Invariance, PTL

\* A probe's two leases come and go together, so no model is probed twice at
\* once and no probe escapes the capacity limits.
THEOREM ProbesAreCounted == Spec => []ProbeOccupiesSlot
<1>1. IInv => ProbeOccupiesSlot
  BY DEF IInv
<1>. QED  BY <1>1, Invariance, PTL

\* The mark a suspension leaves on an entry survives every retry.
THEOREM SuspensionHolds == Spec => []SuspensionReachesRuns
<1>1. IInv => SuspensionReachesRuns
  BY DEF IInv
<1>. QED  BY <1>1, Invariance, PTL

\* An executing attempt owns its entry, or its entry is gone.
THEOREM AttemptsOwnEntries == Spec => []AttemptOwnsEntry
<1>1. IInv => AttemptOwnsEntry
  BY DEF IInv, RunsAgree, Agrees, AttemptOwnsEntry, Present
<1>. QED  BY <1>1, Invariance, PTL

\* No attempt starts while its model does not serve.  The invariant is needed
\* because acquire reads neither the connection's lifecycle nor the profile's
\* status: only the cancellation mark stands between a suspension and it.
THEOREM StartsOnlyServing == Spec => AttemptsStartServing
<1>1. ASSUME IInv, [Next]_vars
      PROVE  [\A r \in Runs : run[r].pc # "running" /\ run'[r].pc = "running" =>
                Admits(entry[r].model)]_vars
  <2>1. SUFFICES ASSUME NEW r \in Runs, Next,
                        run[r].pc # "running", run'[r].pc = "running"
                 PROVE  Admits(entry[r].model)
    BY <1>1
  <2>2. run \in [Runs -> RunType] /\ entry \in Tables /\ r \in Ids
    BY <1>1 DEF IInv, TypeOK, StoreTypeOK, Tables, Ids
  <2>3. PICK q \in Runs : RunStep(q)
    BY <2>1
       DEF Next, ProbeStep, ListDue, AcquireListed, RunManualHealthProbe,
           FinishProbe, ProbeUnfinished, Report, ProbeCrash, Time, LapseOf,
           DeadlineOf, RetryDueOf, RecoveryDueOf, CleanUp, Administer
  <2>4. Poll(r)
    <3>1. q = r
      BY <2>1, <2>2, <2>3
         DEF RunStep, Start, Poll, StopWaiting, AttemptEnds,
             NoticeCancellation, LoseLease, Retry, Finish, Leave, Crash,
             Becomes, Returns
    <3>. QED  BY <2>1, <2>2, <2>3, <3>1
              DEF RunStep, Start, StopWaiting, AttemptEnds,
                  NoticeCancellation, LoseLease, Retry, Finish, Leave, Crash,
                  Becomes, Returns, Idle, RunType
  <2>5. acquire(r, "acquired")
    BY <2>1, <2>2, <2>4 DEF Poll, Becomes, RunType
  <2> DEFINE t == Purge(entry)
  <2>6. AcquireAnswer(t, r) = "acquired"
    BY <2>5 DEF acquire
  <2>7. t \in Tables /\ Shrinks(entry, t)
    BY <2>2, PurgeShrinks
  <2> HIDE DEF t
  <2>8. /\ r \in Present(t) /\ ~t[r].cancelled /\ verified[t[r].model]
        /\ op[t[r].model].breaker = "closed"
    BY <2>6 DEF AcquireAnswer
  <2>9. r \in Present(entry) /\ ~entry[r].cancelled /\ t[r].model = entry[r].model
    BY <2>2, <2>7, <2>8 DEF Shrinks, Kept, Present
  <2>. QED  BY <1>1, <2>8, <2>9 DEF IInv, SuspensionReachesRuns, Admits
<1>. QED  BY <1>1, Invariance, PTL DEF Spec, AttemptsStartServing

\* A tripped breaker closes only when a probe returns a valid lease: no run
\* that completes late closes it.
THEOREM OnlyProbesClose == Spec => ClosedOnlyByProbe
<1>1. ASSUME IInv, [Next]_vars
      PROVE  [\A m \in Models :
                op[m].breaker # "closed" /\ op'[m].breaker = "closed" =>
                  \E p \in Probes :
                    /\ probe[p].pc = "probing" /\ probe[p].model = m
                    /\ ProbeCurrent(p, m) /\ op'[m].holder # p]_vars
  <2>1. SUFFICES ASSUME NEW m \in Models,
                        op[m].breaker # "closed", op'[m].breaker = "closed"
                 PROVE  \E p \in Probes : /\ probe[p].pc = "probing"
                                          /\ probe[p].model = m
                                          /\ ProbeCurrent(p, m)
                                          /\ op'[m].holder # p
    OBVIOUS
  <2>2. /\ op \in [Models -> OpType] /\ \A n \in Models : Consistent(op[n])
        /\ RowsNameModels
    BY <1>1 DEF IInv, TypeOK, StoreTypeOK, BreakerConsistent
  <2>3. StoreStep
    BY <1>1, NextStore
  <2>4. ASSUME NEW p \in Probes, NEW n \in Models, NEW result \in Results,
               ProbeEnding(p, n, result)
        PROVE  \E q \in Probes : /\ probe[q].pc = "probing" /\ probe[q].model = m
                                 /\ ProbeCurrent(q, m) /\ op'[m].holder # q
    <3>1. /\ op' = [op EXCEPT ![n] = AfterProbe(op[n], result)]
          /\ ReasonCheck(AfterProbe(op[n], result))
          /\ ProbeCurrent(p, n) /\ probe[p].pc = "probing" /\ probe[p].model = n
      BY <2>4 DEF ProbeEnding
    <3>2. m = n
      BY <2>1, <2>2, <3>1
    <3>3. op'[m].holder = NoProbe
      BY <2>2, <3>1, <3>2, AfterProbeFacts
    <3>. QED  BY <3>1, <3>2, <3>3, StoreAssumption
  <2>5. ASSUME NEW r \in Runs, NEW outcome \in Ended, Finishing(r, outcome)
        PROVE  FALSE
    <3>1. PICK k \in Models : k = entry[r].model
      BY <2>2, <2>5 DEF Finishing, Holding, RowsNameModels, Present
    <3>2. op' = [op EXCEPT ![k] = AfterRun(op[k], outcome)]
      BY <2>5, <3>1 DEF Finishing
    <3>3. op[k].breaker # "closed" => AfterRun(op[k], outcome).breaker # "closed"
      BY <2>2, AfterRunFacts
    <3>. QED  BY <2>1, <2>2, <3>2, <3>3
  <2>6. ASSUME NEW p \in Probes, NEW n \in Models, NEW t \in Tables,
               NEW automatic \in BOOLEAN, Probing(p, n, t, automatic)
        PROVE  FALSE
    <3>1. /\ op' = [op EXCEPT ![n] = Probed(op[n], p, automatic)]
          /\ automatic => MayProbe(op[n])
          /\ ~automatic => op[n].breaker # "half_open"
      BY <2>6 DEF Probing
    <3>2. Probed(op[n], p, automatic).breaker = "closed"
            <=> op[n].breaker = "closed"
      BY <2>2, <3>1, ProbedFacts
    <3>. QED  BY <2>1, <2>2, <3>1, <3>2
  <2>7. ASSUME NEW n \in Models, GivingUp(n)
        PROVE  FALSE
    <3>1. GiveUpRecovery(op[n]).breaker = "closed" <=> op[n].breaker = "closed"
      BY <2>2, GiveUpFacts
    <3>. QED  BY <2>1, <2>2, <2>7, <3>1 DEF GivingUp
  <2>8. ASSUME NEW i \in Ids, LeaseLapses(i)
        PROVE  FALSE
    BY <2>1, <2>2, <2>8 DEF LeaseLapses, OpType
  <2>9. ASSUME NEW n \in Models, RecoveryTimePasses(n)
        PROVE  FALSE
    BY <2>1, <2>2, <2>9 DEF RecoveryTimePasses, OpType
  <2>10. op' # op
    BY <2>1
  <2>. QED  BY <2>3, <2>4, <2>5, <2>6, <2>7, <2>8, <2>9, <2>10
            DEF StoreStep, Removal, Queueing, Leasing, Requeueing, storeVars,
                Administration, suspendConnection, activateConnection,
                suspendProfile, enableProfile, recordHealth, updateConnection
<1>. QED  BY <1>1, Invariance, PTL DEF Spec, ClosedOnlyByProbe

\* A breaker that failures opened is scheduled for a probe or flagged for an
\* administrator.
THEOREM OpenIsNotForgotten == Spec => []OpenHasWayOut
<1> DEFINE Out(s) == s.breaker = "open" /\ s.reason = "unavailable" =>
                       s.manual \/ s.next # "none"
<1>1. Init => OpenHasWayOut
  BY DEF Init, StoreInit, Healthy, OpenHasWayOut
<1>2. ASSUME IInv, OpenHasWayOut, [Next]_vars
      PROVE  OpenHasWayOut'
  <2>1. /\ op \in [Models -> OpType] /\ op' \in [Models -> OpType]
        /\ \A n \in Models : Consistent(op[n])
        /\ \A n \in Models : Out(op[n])
        /\ RowsNameModels
    BY <1>2, NextStore, OpTyped
       DEF IInv, TypeOK, StoreTypeOK, BreakerConsistent, OpenHasWayOut
  <2>2. StoreStep
    BY <1>2, NextStore
  <2>3. SUFFICES ASSUME NEW m \in Models PROVE Out(op'[m])
    BY DEF OpenHasWayOut
  <2>4. ASSUME NEW n \in Models, NEW s, op' = [op EXCEPT ![n] = s], Out(s)
        PROVE  Out(op'[m])
    <3> HIDE DEF Out
    <3>. QED  BY <2>1, <2>4
  <2>5. CASE op' = op
    BY <2>1, <2>5
  <2>6. ASSUME NEW r \in Runs, NEW outcome \in Ended, Finishing(r, outcome)
        PROVE  Out(op'[m])
    <3>1. PICK k \in Models : k = entry[r].model
      BY <2>1, <2>6 DEF Finishing, Holding, RowsNameModels, Present
    <3>2. PICK s : s = AfterRun(op[k], outcome)
      OBVIOUS
    <3>3. Out(s)
      <4>1. Out(op[k]) /\ op[k] \in OpType
        BY <2>1
      <4>. QED  BY <3>2, <4>1 DEF AfterRun, Healthy, OpType
    <3>4. op' = [op EXCEPT ![k] = s]
      BY <2>6, <3>1, <3>2 DEF Finishing
    <3> HIDE DEF Out
    <3>. QED  BY <2>4, <3>3, <3>4
  <2>7. ASSUME NEW p \in Probes, NEW n \in Models, NEW t \in Tables,
               NEW automatic \in BOOLEAN, Probing(p, n, t, automatic)
        PROVE  Out(op'[m])
    <3>1. PICK s : s = Probed(op[n], p, automatic)
      OBVIOUS
    <3>2. s.breaker # "open"
      BY <2>1, <3>1 DEF Probed, OpType
    <3>3. op' = [op EXCEPT ![n] = s]
      BY <2>7, <3>1 DEF Probing
    <3>4. Out(s)
      BY <3>2
    <3> HIDE DEF Out
    <3>. QED  BY <2>4, <3>3, <3>4
  <2>8. ASSUME NEW n \in Models, GivingUp(n)
        PROVE  Out(op'[m])
    <3>1. PICK s : s = GiveUpRecovery(op[n])
      OBVIOUS
    <3>2. Out(s)
      <4>1. Out(op[n]) /\ op[n] \in OpType
        BY <2>1
      <4>. QED  BY <3>1, <4>1 DEF GiveUpRecovery, OpType
    <3>3. op' = [op EXCEPT ![n] = s]
      BY <2>8, <3>1 DEF GivingUp
    <3> HIDE DEF Out
    <3>. QED  BY <2>4, <3>2, <3>3
  <2>9. ASSUME NEW p \in Probes, NEW n \in Models, NEW result \in Results,
               ProbeEnding(p, n, result)
        PROVE  Out(op'[m])
    <3>1. PICK s : s = AfterProbe(op[n], result)
      OBVIOUS
    <3>2. Out(s)
      <4>1. op[n] \in OpType
        BY <2>1
      <4>2. CASE result = "failed"
        <5> DEFINE spent == op[n].recoveries >= RecoveryLimit
        <5>1. s = [Released(op[n]) EXCEPT
                     !.breaker = "open", !.manual = ManualAfter(op[n]),
                     !.next = IF spent THEN "none" ELSE "later"]
          BY <3>1, <4>2 DEF AfterProbe
        <5>2. s.manual = spent /\ s.next = IF spent THEN "none" ELSE "later"
          <6> HIDE DEF spent
          <6>1. ManualAfter(op[n]) = spent
            BY DEF ManualAfter, spent
          <6>. QED  BY <4>1, <5>1, <6>1 DEF Released, OpType
        <5>3. spent \in BOOLEAN
          OBVIOUS
        <5> HIDE DEF spent
        <5>. QED  BY <5>2, <5>3
      <4>3. CASE result # "failed"
        BY <3>1, <4>1, <4>3 DEF AfterProbe, Healthy, Released, OpType, Results
      <4>. QED  BY <4>2, <4>3
    <3>3. op' = [op EXCEPT ![n] = s]
      BY <2>9, <3>1 DEF ProbeEnding
    <3> HIDE DEF Out
    <3>. QED  BY <2>4, <3>2, <3>3
  <2>10. ASSUME NEW i \in Ids, LeaseLapses(i)
         PROVE  Out(op'[m])
    <3>1. /\ op'[m].breaker = op[m].breaker /\ op'[m].reason = op[m].reason
          /\ op'[m].manual = op[m].manual /\ op'[m].next = op[m].next
      BY <2>1, <2>10 DEF LeaseLapses, OpType
    <3>. QED  BY <2>1, <3>1
  <2>11. ASSUME NEW n \in Models, RecoveryTimePasses(n)
         PROVE  Out(op'[m])
    <3>1. op' = [op EXCEPT ![n] = [op[n] EXCEPT !.next = "due"]]
      BY <2>1, <2>11 DEF RecoveryTimePasses
    <3>2. Out([op[n] EXCEPT !.next = "due"])
      BY <2>1 DEF OpType
    <3> HIDE DEF Out
    <3>. QED  BY <2>4, <3>1, <3>2
  <2> HIDE DEF Out
  <2>. QED  BY <2>2, <2>5, <2>6, <2>7, <2>8, <2>9, <2>10, <2>11
            DEF StoreStep, Removal, Queueing, Leasing, Requeueing, storeVars,
                Administration, suspendConnection, activateConnection,
                suspendProfile, enableProfile, recordHealth, updateConnection
<1>. QED  BY <1>1, <1>2, Invariance, PTL DEF Spec

\* Each model's operational state implements the abstract breaker.
THEOREM BreakerImplemented == Spec => ImplementsBreaker
<1>1. ASSUME Init
      PROVE  \A m \in Models : Breaker(m)!Init
  BY <1>1 DEF Init, StoreInit, Healthy, Breaker!Init
<1>2. ASSUME IInv, [Next]_vars
      PROVE  [\A m \in Models : [Breaker(m)!Next]_(Breaker(m)!vars)]_vars
  <2>1. SUFFICES ASSUME NEW m \in Models
                 PROVE  [Breaker(m)!Next]_(Breaker(m)!vars)
    OBVIOUS
  <2>2. /\ op \in [Models -> OpType] /\ op' \in [Models -> OpType]
        /\ op[m] \in OpType /\ op'[m] \in OpType
        /\ \A n \in Models : Consistent(op[n])
        /\ Consistent(op[m]) /\ Consistent(op'[m])
        /\ RowsNameModels
    BY <1>2, NextStore, OpTyped DEF IInv, TypeOK, StoreTypeOK, BreakerConsistent
  <2>3. StoreStep
    BY <1>2, NextStore
  <2>4. /\ op[m].breaker = "closed" => op[m].reason = "none"
        /\ op'[m].breaker = "closed" => op'[m].reason = "none"
    BY <2>2 DEF Consistent
\* Steps the breaker does not see.
  <2>5. ASSUME /\ op'[m].breaker = "closed" <=> op[m].breaker = "closed"
               /\ op'[m].reason = op[m].reason
               /\ op'[m].failures = op[m].failures
               /\ op'[m].recoveries = op[m].recoveries
               /\ op'[m].lease = "valid" <=> op[m].lease = "valid"
        PROVE  UNCHANGED Breaker(m)!vars
    BY <2>5 DEF Breaker!vars
  <2>6. ASSUME op'[m] = op[m]
        PROVE  UNCHANGED Breaker(m)!vars
    BY <2>5, <2>6
  <2>7. ASSUME NEW r \in Runs, NEW outcome \in Ended, Finishing(r, outcome),
               op'[m] # op[m]
        PROVE  Breaker(m)!Next
    <3>1. PICK k \in Models : k = entry[r].model
      BY <2>2, <2>7 DEF Finishing, Holding, RowsNameModels, Present
    <3>2. op' = [op EXCEPT ![k] = AfterRun(op[k], outcome)]
      BY <2>7, <3>1 DEF Finishing
    <3>3. op'[m] = AfterRun(op[m], outcome)
      BY <2>2, <2>7, <3>2
    <3>4. op'[m].lease = op[m].lease /\ op'[m].recoveries = op[m].recoveries
      BY <2>2, <3>3, AfterRunFacts
    <3>5. CASE outcome = "completed" /\ Resets(op[m])
      <4>1. /\ op[m].breaker = "closed" /\ op'[m].breaker = "closed"
            /\ op'[m].failures = 0
        BY <3>3, <3>5 DEF AfterRun, Healthy, Resets
      <4>2. Breaker(m)!Succeed
        BY <2>4, <3>4, <4>1 DEF Breaker!Succeed
      <4>. QED  BY <4>2 DEF Breaker!Next
    <3>6. CASE outcome = "authentication_failed"
      <4>3. op'[m] = [op[m] EXCEPT !.breaker = "open",
                        !.reason = "authentication_failed",
                        !.failures = FailureLimit, !.manual = TRUE,
                        !.next = "none"]
        BY <3>3, <3>6 DEF AfterRun
      <4>1. op'[m].breaker = "open" /\ op'[m].reason = "authentication_failed"
        BY <2>2, <4>3 DEF OpType
      <4>2. Breaker(m)!Lock
        BY <3>4, <4>1 DEF Breaker!Lock
      <4>. QED  BY <4>2 DEF Breaker!Next
    <3>7. CASE outcome = "unavailable" /\ op[m].breaker = "closed" /\ ~Trips(op[m])
      <4>1. op'[m].breaker = "closed" /\ op'[m].failures = op[m].failures + 1
        BY <2>2, <3>3, <3>7 DEF AfterRun, OpType
      <4>2. op[m].failures + 1 < FailureLimit
        BY <2>2, <3>7, StoreAssumption DEF Trips, OpType
      <4>3. Breaker(m)!Fail
        BY <2>4, <3>4, <3>7, <4>1, <4>2 DEF Breaker!Fail
      <4>. QED  BY <4>3 DEF Breaker!Next
    <3>8. CASE outcome = "unavailable" /\ op[m].breaker = "closed" /\ Trips(op[m])
      <4>1. op'[m].breaker = "open" /\ op'[m].reason = "unavailable"
        BY <2>2, <3>3, <3>8 DEF AfterRun, OpType
      <4>2. op[m].failures + 1 = FailureLimit
        <5>1. op[m].failures \in Nat /\ op[m].failures < FailureLimit
          BY <2>2, <3>8, StoreAssumption DEF OpType, Consistent
        <5>. QED  BY <3>8, <5>1, StoreAssumption DEF Trips
      <4>3. Breaker(m)!Trip
        BY <2>4, <3>4, <3>8, <4>1, <4>2 DEF Breaker!Trip
      <4>. QED  BY <4>3 DEF Breaker!Next
    <3>. QED  BY <2>7, <3>3, <3>5, <3>6, <3>7, <3>8 DEF AfterRun
  <2>8. ASSUME NEW p \in Probes, NEW n \in Models, NEW t \in Tables,
               NEW automatic \in BOOLEAN, Probing(p, n, t, automatic),
               op'[m] # op[m]
        PROVE  Breaker(m)!Next
    <3>1. /\ op' = [op EXCEPT ![n] = Probed(op[n], p, automatic)]
          /\ automatic => MayProbe(op[n])
          /\ ~automatic => op[n].breaker # "half_open"
          /\ op[n].lease # "valid"
      BY <2>8 DEF Probing
    <3>2. n = m
      BY <2>2, <2>8, <3>1
    <3>3. /\ op'[m].lease = "valid" /\ op[m].lease # "valid"
          /\ op'[m].reason = op[m].reason /\ op'[m].failures = op[m].failures
          /\ op'[m].recoveries = IF automatic THEN op[m].recoveries + 1
                                 ELSE op[m].recoveries
          /\ op'[m].breaker = "closed" <=> op[m].breaker = "closed"
      <4>1. op'[m] = Probed(op[m], p, automatic)
        BY <2>2, <3>1, <3>2
      <4>. QED  BY <2>2, <3>1, <3>2, <4>1, ProbedFacts
    <3>4. CASE automatic
      <4>1. /\ op[m].breaker # "closed" /\ op[m].recoveries < RecoveryLimit
            /\ op[m].reason \notin {"authentication_failed", "capability_mismatch"}
        BY <3>1, <3>2, <3>4 DEF MayProbe
      <4>2. Breaker(m)!StartTrial
        BY <3>3, <3>4, <4>1 DEF Breaker!StartTrial
      <4>. QED  BY <4>2 DEF Breaker!Next
    <3>5. CASE ~automatic
      <4>1. Breaker(m)!StartManualProbe
        BY <3>3, <3>5 DEF Breaker!StartManualProbe
      <4>. QED  BY <4>1 DEF Breaker!Next
    <3>. QED  BY <3>4, <3>5
  <2>9. ASSUME NEW n \in Models, GivingUp(n)
        PROVE  UNCHANGED Breaker(m)!vars
    <3>1. op' = [op EXCEPT ![n] = GiveUpRecovery(op[n])]
      BY <2>9 DEF GivingUp
    <3>2. CASE n = m
      <4>1. op'[m] = GiveUpRecovery(op[m])
        BY <2>2, <3>1, <3>2
      <4>. QED  BY <2>2, <2>5, <4>1, GiveUpFacts
    <3>3. CASE n # m
      BY <2>2, <2>6, <3>1, <3>3
    <3>. QED  BY <3>2, <3>3
  <2>10. ASSUME NEW p \in Probes, NEW n \in Models, NEW result \in Results,
               ProbeEnding(p, n, result), op'[m] # op[m]
        PROVE  Breaker(m)!Next
    <3>1. /\ op' = [op EXCEPT ![n] = AfterProbe(op[n], result)]
          /\ ReasonCheck(AfterProbe(op[n], result)) /\ op[n].lease = "valid"
      BY <2>10 DEF ProbeEnding, ProbeCurrent
    <3>2. n = m /\ op'[m] = AfterProbe(op[m], result)
      BY <2>2, <2>10, <3>1
    <3>3. op'[m].lease = "none" /\ op[m].lease = "valid"
      BY <2>2, <3>1, <3>2, AfterProbeFacts
    <3>4. CASE result = "succeeded"
      <4>1. /\ op'[m].breaker = "closed" /\ op'[m].failures = 0
            /\ op'[m].recoveries = 0
        BY <3>2, <3>4 DEF AfterProbe, Healthy
      <4>2. Breaker(m)!Recover
        BY <2>4, <3>3, <4>1 DEF Breaker!Recover
      <4>. QED  BY <4>2 DEF Breaker!Next
    <3>5. CASE result \in {"authentication_failed", "capability_mismatch"}
      <4>1. /\ op'[m].breaker = "open" /\ op'[m].reason = result
            /\ op'[m].recoveries = op[m].recoveries
        BY <2>2, <3>2, <3>5 DEF AfterProbe, Released, OpType
      <4>2. Breaker(m)!Lock
        BY <3>3, <3>5, <4>1 DEF Breaker!Lock
      <4>. QED  BY <4>2 DEF Breaker!Next
    <3>6. CASE result = "failed"
      <4>1. /\ op'[m].breaker = "open" /\ op'[m].reason = op[m].reason
            /\ op'[m].recoveries = op[m].recoveries
        BY <2>2, <3>2, <3>6 DEF AfterProbe, Released, OpType
      <4>2. op[m].breaker # "closed"
        BY <2>2, <3>1, <3>2, <4>1 DEF ReasonCheck, Consistent
      <4>3. Breaker(m)!ProbeEnds
        BY <3>3, <4>1, <4>2 DEF Breaker!ProbeEnds
      <4>. QED  BY <4>3 DEF Breaker!Next
    <3>. QED  BY <3>4, <3>5, <3>6 DEF Results
  <2>11. ASSUME NEW i \in Ids, LeaseLapses(i)
         PROVE  [Breaker(m)!Next]_(Breaker(m)!vars)
    <3>1. /\ op'[m].breaker = op[m].breaker /\ op'[m].reason = op[m].reason
          /\ op'[m].failures = op[m].failures
          /\ op'[m].recoveries = op[m].recoveries
          /\ op'[m].lease = op[m].lease \/ op'[m].lease = "expired"
      BY <2>2, <2>11 DEF LeaseLapses, OpType
    <3>2. CASE op[m].lease = "valid" /\ op'[m].lease = "expired"
      <4>1. Breaker(m)!ProbeEnds
        BY <3>1, <3>2 DEF Breaker!ProbeEnds
      <4>. QED  BY <4>1 DEF Breaker!Next
    <3>3. CASE ~(op[m].lease = "valid" /\ op'[m].lease = "expired")
      BY <2>5, <3>1, <3>3
    <3>. QED  BY <3>2, <3>3
  <2>12. ASSUME NEW n \in Models, RecoveryTimePasses(n)
         PROVE  UNCHANGED Breaker(m)!vars
    <3>1. /\ op'[m].breaker = op[m].breaker /\ op'[m].reason = op[m].reason
          /\ op'[m].failures = op[m].failures
          /\ op'[m].recoveries = op[m].recoveries
          /\ op'[m].lease = op[m].lease
      BY <2>2, <2>12 DEF RecoveryTimePasses, OpType
    <3>. QED  BY <2>5, <3>1
  <2>. QED  BY <2>3, <2>6, <2>7, <2>8, <2>9, <2>10, <2>11, <2>12
            DEF StoreStep, Removal, Queueing, Leasing, Requeueing, storeVars,
                Administration, suspendConnection, activateConnection,
                suspendProfile, enableProfile, recordHealth, updateConnection
<1>. QED  BY <1>1, <1>2, Invariance, PTL DEF Spec, ImplementsBreaker

=============================================================================
