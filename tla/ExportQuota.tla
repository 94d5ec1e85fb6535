----------------------------- MODULE ExportQuota -----------------------------
(***************************************************************************)
(* Exports and reports on several nodes: the quota of an actor, kept in    *)
(* SQL Server (lib/dal/export-actor-quota.ts), the life of one export in   *)
(* its process (lib/generated-output/actor-quota.ts), the per-process pool *)
(* of generations (capacity.ts), the spool directory (spool.ts) and the    *)
(* watchdog thread that kills a stuck process (actor-watchdog.ts).         *)
(*                                                                         *)
(* Time is discrete.  The code's 60, 720, 840 and 900 seconds are the      *)
(* constants Window < Lifetime < FailStop < Recovery; the clocks of the    *)
(* database and of the nodes advance together.  A process's timers may be  *)
(* late by any amount, the watchdog, a thread of its own, by less than     *)
(* Recovery - FailStop.                                                    *)
(*                                                                         *)
(* Abstractions.  One pool of generations for each node (the csv and the   *)
(* pdf pool are alike); every file reserves one unit of temporary storage; *)
(* all nodes share the temporary directory.  An export that has ended is   *)
(* started again as another one once it has left neither row nor directory.*)
(***************************************************************************)
EXTENDS Integers, FiniteSets, FiniteSetsExt, Functions

CONSTANTS
  Ops,          \* exports (the id of the quota entry)
  Actors,       \* actor fingerprints
  Nodes,        \* application processes
  NoActor,      \* the actor of no row
  NoNode,       \* the process of an export that does not run
  ActiveLimit,  \* export_actor_concurrency
  StartLimit,   \* export_actor_starts_per_minute
  PoolLimit,    \* csvExportConcurrencyPerNode, pdfReportConcurrencyPerNode
  SpoolLimit,   \* what fits on the temporary storage
  Window, Lifetime, FailStop, Recovery

ASSUME ExportAssumption ==
  /\ IsFiniteSet(Ops)
  /\ NoActor \notin Actors /\ NoNode \notin Nodes
  /\ {ActiveLimit, StartLimit, PoolLimit, SpoolLimit} \subseteq Nat \ {0}
  /\ {Window, Lifetime, FailStop, Recovery} \subseteq Nat \ {0}
  /\ Window <= Lifetime /\ Lifetime < FailStop /\ FailStop < Recovery

VARIABLES
  entry,     \* rows of export_actor_quota_entries: state, actor, time since created_at
  pc,        \* where runWithExportActorQuota is
  actor,     \* who asked for the export
  node,      \* the process it runs in
  age,       \* time since startedAt
  aborted,   \* the combined AbortSignal is aborted
  armed,     \* the watchdog thread runs
  slot,      \* the generation capacity is held (`active` of its handle)
  spool,     \* the storage reservation is held
  dir,       \* spool directories on disk: presence and time since mtime
  pool,      \* activeGeneration of a process
  reserved,  \* reservedBytes of a process
  swept,     \* the process has done its start-up cleanup
  starts     \* history: admissions of an actor, by time since they were made

vars == <<entry, pc, actor, node, age, aborted, armed, slot, spool, dir, pool,
          reserved, swept, starts>>

Working == {"acquiring", "spooling", "generating", "responding", "failing",
            "delivering", "cleaning"}
Phases == {"idle", "admitting", "admitted", "finishing"} \cup Working

NoRow == [state |-> "none", actor |-> NoActor, age |-> 0]
NoDir == [present |-> FALSE, age |-> 0]

TypeOK ==
  /\ entry \in [Ops -> [state : {"none", "held", "released"},
                      actor : Actors \cup {NoActor}, age : 0 .. Recovery]]
  /\ pc \in [Ops -> Phases]
  /\ actor \in [Ops -> Actors \cup {NoActor}]
  /\ node \in [Ops -> Nodes \cup {NoNode}]
  /\ age \in [Ops -> 0 .. Recovery]
  /\ aborted \in [Ops -> BOOLEAN]
  /\ armed \in [Ops -> BOOLEAN]
  /\ slot \in [Ops -> BOOLEAN]
  /\ spool \in [Ops -> BOOLEAN]
  /\ dir \in [Ops -> [present : BOOLEAN, age : 0 .. Recovery + 1]]
  /\ pool \in [Nodes -> Nat]
  /\ reserved \in [Nodes -> Nat]
  /\ swept \in [Nodes -> BOOLEAN]
  /\ starts \in [Actors -> [0 .. Window - 1 -> Nat]]

Init ==
  /\ entry = [o \in Ops |-> NoRow]
  /\ pc = [o \in Ops |-> "idle"]
  /\ actor = [o \in Ops |-> NoActor]
  /\ node = [o \in Ops |-> NoNode]
  /\ age = [o \in Ops |-> 0]
  /\ aborted = [o \in Ops |-> FALSE]
  /\ armed = [o \in Ops |-> FALSE]
  /\ slot = [o \in Ops |-> FALSE]
  /\ spool = [o \in Ops |-> FALSE]
  /\ dir = [o \in Ops |-> NoDir]
  /\ pool = [n \in Nodes |-> 0]
  /\ reserved = [n \in Nodes |-> 0]
  /\ swept = [n \in Nodes |-> FALSE]
  /\ starts = [a \in Actors |-> [k \in 0 .. Window - 1 |-> 0]]

(***************************************************************************)
(* Admission.                                                              *)
(***************************************************************************)

Occupies(o) == entry[o].state = "held" /\ entry[o].age < Recovery

Occupied(a) == {o \in Ops : entry[o].actor = a /\ Occupies(o)}

Recent(a) ==
  {o \in Ops : entry[o].actor = a /\ entry[o].age < Window}

Request(o) ==
  /\ pc[o] = "idle" /\ entry[o] = NoRow /\ dir[o] = NoDir
  /\ pc' = [pc EXCEPT ![o] = "admitting"]
  /\ \E a \in Actors : actor' = [actor EXCEPT ![o] = a]
  /\ \E n \in Nodes : node' = [node EXCEPT ![o] = n]
  /\ UNCHANGED <<entry, age, aborted, armed, slot, spool, dir, pool, reserved,
                 swept, starts>>

\* The export leaves its process; nothing of it remains there.
Gone(o) ==
  /\ pc' = [pc EXCEPT ![o] = "idle"]
  /\ age' = [age EXCEPT ![o] = 0]
  /\ aborted' = [aborted EXCEPT ![o] = FALSE]
  /\ actor' = [actor EXCEPT ![o] = NoActor]
  /\ node' = [node EXCEPT ![o] = NoNode]

\* The batch inserts the row; its answer may be lost, and then the id stays
\* unknown to the process and nothing is left to release.
Admit(o) ==
  LET a == actor[o] IN
  /\ pc[o] = "admitting"
  /\ Cardinality(Occupied(a)) < ActiveLimit
  /\ Cardinality(Recent(a)) < StartLimit
  /\ entry' = [entry EXCEPT ![o] = [state |-> "held", actor |-> a, age |-> 0]]
  /\ starts' = [starts EXCEPT ![a][0] = @ + 1]
  /\ \/ pc' = [pc EXCEPT ![o] = "admitted"] /\ UNCHANGED <<actor, node, age, aborted>>
     \/ Gone(o)
  /\ UNCHANGED <<armed, slot, spool, dir, pool, reserved, swept>>

\* Refused for either limit, or the batch failed.
Refuse(o) ==
  /\ pc[o] = "admitting"
  /\ Gone(o)
  /\ UNCHANGED <<entry, armed, slot, spool, dir, pool, reserved, swept, starts>>

\* Arming may fail; an export that is late or aborted by now does no work.
Arm(o) ==
  /\ pc[o] = "admitted"
  /\ \/ /\ armed' = [armed EXCEPT ![o] = TRUE]
        /\ pc' = [pc EXCEPT ![o] =
                    IF aborted[o] \/ age[o] >= Lifetime THEN "finishing" ELSE "acquiring"]
     \/ armed' = armed /\ pc' = [pc EXCEPT ![o] = "finishing"]
  /\ UNCHANGED <<entry, actor, node, age, aborted, slot, spool, dir, pool, reserved,
                 swept, starts>>

\* The signal fires: the client's at any time, the timer's from Lifetime on.
\* Its listener on a wrapped body cancels the body at once.
Abort(o) ==
  /\ pc[o] \in (Working \ {"cleaning"}) \cup {"admitting", "admitted"}
  /\ ~aborted[o]
  /\ aborted' = [aborted EXCEPT ![o] = TRUE]
  /\ pc' = [pc EXCEPT ![o] = IF @ = "delivering" THEN "cleaning" ELSE @]
  /\ UNCHANGED <<entry, actor, node, age, armed, slot, spool, dir, pool, reserved,
                 swept, starts>>

(***************************************************************************)
(* Generation.  releaseGeneration and releaseSpool may be called by every  *)
(* exit of a generation; their handles remember that they were.            *)
(***************************************************************************)
OneLess(k) == Max({0, k - 1})

\* Mutant: the handle does not remember that it was released.
ReleaseGenerationEveryTime(o) ==
  /\ pool' = [pool EXCEPT ![node[o]] = OneLess(@)]
  /\ slot' = [slot EXCEPT ![o] = FALSE]

ReleaseGeneration(o) ==
  /\ pool' = [pool EXCEPT ![node[o]] = IF slot[o] THEN OneLess(@) ELSE @]
  /\ slot' = [slot EXCEPT ![o] = FALSE]

\* rm may fail and leave the directory to the start-up cleanup.
ReleaseSpool(o) ==
  /\ reserved' =
       [reserved EXCEPT ![node[o]] = IF spool[o] THEN OneLess(@) ELSE @]
  /\ spool' = [spool EXCEPT ![o] = FALSE]
  /\ dir' \in IF spool[o] THEN {dir, [dir EXCEPT ![o] = NoDir]} ELSE {dir}

\* A generation that failed either throws or answers with an error body,
\* which an aborted export cancels.
Failed(o) ==
  \E p \in {"finishing"} \cup (IF aborted[o] THEN {} ELSE {"delivering"}) :
    pc' = [pc EXCEPT ![o] = p]

Acquire(o) ==
  /\ pc[o] = "acquiring"
  /\ IF pool[node[o]] < PoolLimit
     THEN /\ pool' = [pool EXCEPT ![node[o]] = @ + 1]
          /\ slot' = [slot EXCEPT ![o] = TRUE]
          /\ pc' = [pc EXCEPT ![o] = "spooling"]
     ELSE Failed(o) /\ UNCHANGED <<pool, slot>>
  /\ UNCHANGED <<entry, actor, node, age, aborted, armed, spool, dir, reserved, swept,
                 starts>>

\* Mutant: directories count as stale before the watchdog has fired.
StaleBeforeFailStop == {o \in Ops : dir[o].present /\ dir[o].age >= Lifetime}

Stale == {o \in Ops : dir[o].present /\ dir[o].age > Recovery}

\* The first acquisition of a process first removes what died processes left;
\* a removal may fail.
OpenSpool(o) ==
  LET n == node[o] IN
  /\ pc[o] = "spooling"
  /\ swept' = [swept EXCEPT ![n] = TRUE]
  /\ \E gone \in (IF swept[n] THEN {{}} ELSE SUBSET Stale) :
       LET kept == [p \in Ops |-> IF p \in gone THEN NoDir ELSE dir[p]] IN
       \/ /\ reserved[n] < SpoolLimit
          /\ reserved' = [reserved EXCEPT ![n] = @ + 1]
          /\ spool' = [spool EXCEPT ![o] = TRUE]
          /\ dir' = [kept EXCEPT ![o] = [present |-> TRUE, age |-> 0]]
          /\ pc' = [pc EXCEPT ![o] = "generating"]
          /\ UNCHANGED <<pool, slot>>
       \/ /\ Failed(o) /\ ReleaseGeneration(o)
          /\ dir' = kept
          /\ UNCHANGED <<reserved, spool>>
  /\ UNCHANGED <<entry, actor, node, age, aborted, armed, starts>>

\* createGeneratedOutputFileResponse releases the generation before the
\* response exists; what follows may still fail and release it again.
Generate(o) ==
  /\ pc[o] = "generating"
  /\ ReleaseGeneration(o)
  /\ pc' = [pc EXCEPT ![o] = "responding"]
  /\ UNCHANGED <<entry, actor, node, age, aborted, armed, spool, dir, reserved, swept,
                 starts>>

GenerationFails(o) ==
  /\ pc[o] \in {"generating", "responding"}
  /\ ReleaseGeneration(o)
  /\ pc' = [pc EXCEPT ![o] = "failing"]
  /\ UNCHANGED <<entry, actor, node, age, aborted, armed, spool, dir, reserved, swept,
                 starts>>

FailureCleaned(o) ==
  /\ pc[o] = "failing"
  /\ ReleaseSpool(o)
  /\ Failed(o)
  /\ UNCHANGED <<entry, actor, node, age, aborted, armed, slot, pool, swept, starts>>

(***************************************************************************)
(* Delivery.                                                               *)
(***************************************************************************)
\* Mutant: the watchdog is disarmed once there is a response to deliver.
RespondDisarming(o) ==
  /\ pc[o] = "responding"
  /\ pc' = [pc EXCEPT ![o] = IF aborted[o] THEN "cleaning" ELSE "delivering"]
  /\ armed' = [armed EXCEPT ![o] = FALSE]
  /\ UNCHANGED <<entry, actor, node, age, aborted, slot, spool, dir, pool, reserved,
                 swept, starts>>

Respond(o) ==
  /\ pc[o] = "responding"
  /\ pc' = [pc EXCEPT ![o] = IF aborted[o] THEN "cleaning" ELSE "delivering"]
  /\ UNCHANGED <<entry, actor, node, age, aborted, armed, slot, spool, dir, pool,
                 reserved, swept, starts>>

\* The body is read to its end, fails, or is cancelled by its consumer.
BodyEnds(o) ==
  /\ pc[o] = "delivering"
  /\ pc' = [pc EXCEPT ![o] = "cleaning"]
  /\ UNCHANGED <<entry, actor, node, age, aborted, armed, slot, spool, dir, pool,
                 reserved, swept, starts>>

Cleaned(o) ==
  /\ pc[o] = "cleaning"
  /\ ReleaseSpool(o)
  /\ pc' = [pc EXCEPT ![o] = "finishing"]
  /\ UNCHANGED <<entry, actor, node, age, aborted, armed, slot, pool, swept, starts>>

\* finish(): disarm the watchdog, then release the row; a release that fails
\* leaves the row to its expiry.
Finish(o) ==
  /\ pc[o] = "finishing"
  /\ Gone(o)
  /\ armed' = [armed EXCEPT ![o] = FALSE]
  /\ entry' \in
       {entry, [entry EXCEPT ![o].state = IF @ = "held" THEN "released" ELSE @]}
  /\ UNCHANGED <<slot, spool, dir, pool, reserved, swept, starts>>

(***************************************************************************)
(* The environment.                                                        *)
(***************************************************************************)
\* Mutant: the watchdog fires when the row expires, not before.
OverdueAtRecovery(o) == armed[o] /\ age[o] >= Recovery

Overdue(o) == armed[o] /\ age[o] >= FailStop

\* A process ends, by a crash or by its watchdog, and is started again.
Killed(n) ==
  LET here == {o \in Ops : node[o] = n}
      Cleared(f, v) == [o \in Ops |-> IF o \in here THEN v ELSE f[o]]
  IN /\ pc' = Cleared(pc, "idle")
     /\ actor' = Cleared(actor, NoActor)
     /\ node' = Cleared(node, NoNode)
     /\ age' = Cleared(age, 0)
     /\ aborted' = Cleared(aborted, FALSE)
     /\ armed' = Cleared(armed, FALSE)
     /\ slot' = Cleared(slot, FALSE)
     /\ spool' = Cleared(spool, FALSE)
     /\ pool' = [pool EXCEPT ![n] = 0]
     /\ reserved' = [reserved EXCEPT ![n] = 0]
     /\ swept' = [swept EXCEPT ![n] = FALSE]
     /\ UNCHANGED <<entry, dir, starts>>

Crash(n) == (\E o \in Ops : node[o] = n) /\ Killed(n)

Watchdog(n) == (\E o \in Ops : node[o] = n /\ Overdue(o)) /\ Killed(n)

Older(k, cap) == IF k < cap THEN k + 1 ELSE k

\* Time passes, but a watchdog that is due fires before the row expires.
Tick ==
  /\ \A o \in Ops : Overdue(o) => age[o] + 1 < Recovery
  /\ age' = [o \in Ops |-> IF pc[o] = "idle" THEN 0 ELSE Older(age[o], Recovery)]
  /\ entry' = [o \in Ops |->
       IF entry[o].state = "none" THEN NoRow
       ELSE [entry[o] EXCEPT !.age = Older(@, Recovery)]]
  /\ dir' = [o \in Ops |->
       IF dir[o].present THEN [dir[o] EXCEPT !.age = Older(@, Recovery + 1)]
       ELSE NoDir]
  /\ starts' = [a \in Actors |-> [k \in 0 .. Window - 1 |->
       IF k = 0 THEN 0 ELSE starts[a][k - 1]]]
  /\ UNCHANGED <<pc, actor, node, aborted, armed, slot, spool, pool, reserved, swept>>

\* Mutant: a released row is taken to be of no further use.
PurgeableOnceReleased(o) ==
  entry[o].state = "released" \/ (entry[o].state = "held" /\ entry[o].age >= Recovery)

\* The transient clean-up deletes expired rows, released or not.
Purgeable(o) == entry[o].state # "none" /\ entry[o].age >= Recovery

Purge(o) ==
  /\ Purgeable(o)
  /\ entry' = [entry EXCEPT ![o] = NoRow]
  /\ UNCHANGED <<pc, actor, node, age, aborted, armed, slot, spool, dir, pool,
                 reserved, swept, starts>>

\* Mutant: erasure without the check for active exports.
EraseRegardless(a) ==
  /\ \E o \in Ops : entry[o].actor = a
  /\ entry' = [o \in Ops |-> IF entry[o].actor = a THEN NoRow ELSE entry[o]]
  /\ starts' = [starts EXCEPT ![a] = [k \in 0 .. Window - 1 |-> 0]]
  /\ UNCHANGED <<pc, actor, node, age, aborted, armed, slot, spool, dir, pool,
                 reserved, swept>>

\* Privacy erasure of a person, refused while an export of theirs is active.
\* It forgets the person's starts too.
Erase(a) ==
  /\ Occupied(a) = {}
  /\ \E o \in Ops : entry[o].actor = a
  /\ entry' = [o \in Ops |-> IF entry[o].actor = a THEN NoRow ELSE entry[o]]
  /\ starts' = [starts EXCEPT ![a] = [k \in 0 .. Window - 1 |-> 0]]
  /\ UNCHANGED <<pc, actor, node, age, aborted, armed, slot, spool, dir, pool,
                 reserved, swept>>

Step(o) ==
  \/ Request(o) \/ Admit(o) \/ Refuse(o) \/ Arm(o) \/ Abort(o)
  \/ Acquire(o) \/ OpenSpool(o) \/ Generate(o) \/ GenerationFails(o)
  \/ FailureCleaned(o) \/ Respond(o) \/ BodyEnds(o) \/ Cleaned(o) \/ Finish(o)
  \/ Purge(o)

Next ==
  \/ Tick
  \/ \E o \in Ops : Step(o)
  \/ \E n \in Nodes : Crash(n) \/ Watchdog(n)
  \/ \E a \in Actors : Erase(a)

Spec == Init /\ [][Next]_vars

\* Statements and the start of the watchdog thread are bounded by their own
\* timeouts, time passes and the watchdog fires.  Nothing is assumed of the
\* work, of the consumer of the body or of the cleanup: each may hang.
Fairness ==
  /\ WF_vars(Tick)
  /\ \A o \in Ops : WF_vars(Admit(o) \/ Refuse(o)) /\ WF_vars(Arm(o)) /\ WF_vars(Finish(o))
  /\ \A n \in Nodes : WF_vars(Watchdog(n))

FairSpec == Spec /\ Fairness

(***************************************************************************)
(* Properties.                                                             *)
(***************************************************************************)

\* An export that generates, delivers or cleans up still occupies its
\* actor's slot: neither expiry, nor clean-up, nor erasure, nor another
\* exit of the export frees the slot under the work.
HoldsSlot == \A o \in Ops : pc[o] \in Working => Occupies(o)

\* An actor never has more exports at work, on all nodes, than the limit.
ActorWithinLimit ==
  \A a \in Actors :
    Cardinality({o \in Ops : actor[o] = a /\ pc[o] \in Working}) <= ActiveLimit

\* In any window an actor is admitted at most as often as the limit says,
\* whatever became of the exports and their rows.
RateRespected ==
  \A a \in Actors : SumFunctionOnSet(starts[a], 0 .. Window - 1) <= StartLimit

\* The counters of a process equal what its exports hold: no exit of a
\* generation, and no crash, gives capacity back twice or loses it.
CountersExact ==
  \A n \in Nodes :
    /\ pool[n] = Cardinality({o \in Ops : node[o] = n /\ slot[o]})
    /\ reserved[n] = Cardinality({o \in Ops : node[o] = n /\ spool[o]})

\* The start-up cleanup of another process never removes the directory of an
\* export that is still writing or delivering it.
SpoolKept == \A o \in Ops : spool[o] => dir[o].present

\* The quota is a counting semaphore over the exports at work.
Slots == INSTANCE ExportSlots WITH
  working <- [a \in Actors |-> {o \in Ops : actor[o] = a /\ pc[o] \in Working}]

ImplementsSlots == Slots!Spec

\* Wherever an export hangs - in its work, in a body nobody reads, in its
\* cleanup - its process is rid of it in the end.
EveryExportEnds == \A o \in Ops : pc[o] # "idle" ~> pc[o] = "idle"
=============================================================================
