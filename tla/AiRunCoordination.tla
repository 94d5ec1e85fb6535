------------------------- MODULE AiRunCoordination -------------------------
(***************************************************************************)
(* The application instances that run AI requests through the coordination *)
(* tables (lib/ai/run-coordinator.ts): coordinate(), one generator for     *)
(* each application run, runDueRecoveryProbes() and runManualHealthProbe().*)
(*                                                                         *)
(* A run keeps the state its generator holds in local variables across     *)
(* every await; anything may happen to the tables in between.  Renewing a  *)
(* valid lease changes nothing here, so only the renewals that fail are    *)
(* steps.  Event delivery, telemetry, byte and token limits are left out:  *)
(* they only choose the outcome of an attempt.                             *)
(***************************************************************************)
EXTENDS AiRunStore

CONSTANTS
  Outcomes,      \* outcomes of an attempt
  ProbeResults,  \* results of a health probe
  Disturbances   \* what may go wrong: see DisturbanceAssumption

ASSUME DisturbanceAssumption ==
  /\ Outcomes \subseteq
       {"completed", "authentication_failed", "unavailable", "stopped"}
  /\ ProbeResults \subseteq {"succeeded", "failed", "authentication_failed",
                             "capability_mismatch"}
  /\ Disturbances \subseteq
       {"crash",        \* the instance of a run dies
        "probe_crash",  \* the instance of a probe dies
        "database",     \* a statement fails, or its answer is lost
        "stall",        \* a renewal comes after its lease has expired
        "manual_probe", \* runManualHealthProbe is called
        "administrator" \* the connection, a profile or a model is changed
       }

VARIABLES
  run,   \* the local variables of coordinate()
  probe  \* the local variables of a health probe

vars == <<storeVars, run, probe>>

-----------------------------------------------------------------------------
\* lost is coordinationState = 'lost'; the other values follow from pc.
Idle == [pc |-> "idle", attempt |-> 0, lost |-> FALSE, outcome |-> "none"]

RunType ==
  [pc : {"idle", "queued", "running", "settling", "retry_wait", "leaving"},
   attempt : 0 .. 2, lost : BOOLEAN,
   outcome : {"none", "completed", "authentication_failed", "unavailable",
              "stopped"}]

NotProbing == [pc |-> "idle", kind |-> "none", model |-> NoModel]

ProbeType ==
  [pc : {"idle", "listed", "probing", "reporting"},
   kind : {"none", "automatic", "manual"}, model : Models \cup {NoModel}]

TypeOK ==
  /\ StoreTypeOK
  /\ run \in [Runs -> RunType]
  /\ probe \in [Probes -> ProbeType]

Init ==
  /\ StoreInit
  /\ run = [r \in Runs |-> Idle]
  /\ probe = [p \in Probes |-> NotProbing]

Fails == "database" \in Disturbances

Becomes(r, pc) == run' = [run EXCEPT ![r].pc = pc]
Returns(r) == run' = [run EXCEPT ![r] = Idle]

-----------------------------------------------------------------------------
(***************************************************************************)
(* coordinate().                                                           *)
(***************************************************************************)
\* A refused run yields its failure and returns: coordinationState is none.
\* So it is when the answer is lost, which may leave an entry behind.
Start(r, m) ==
  /\ run[r].pc = "idle"
  /\ r \notin Present(entry)
  /\ \E answer \in {"queued", "queue_full", "breaker_open"} :
       /\ enqueue(r, m, answer)
       /\ \/ run' = IF answer = "queued"
                    THEN [run EXCEPT ![r].pc = "queued"] ELSE run
          \/ Fails /\ UNCHANGED run
  /\ UNCHANGED probe

\* One turn of the acquisition loop; the second attempt's loop follows the
\* wait between retries.
Poll(r) ==
  /\ run[r].pc \in {"queued", "retry_wait"}
  /\ \E answer \in
          {"acquired", "waiting", "expired", "cancelled", "breaker_open"} :
       /\ acquire(r, answer)
       /\ \/ answer = "acquired"
             /\ run' = [run EXCEPT ![r].pc = "running", ![r].attempt = @ + 1]
          \/ answer = "waiting" /\ UNCHANGED run
          \/ answer \notin {"acquired", "waiting"} /\ Becomes(r, "leaving")
          \/ Fails /\ Becomes(r, "leaving")
  /\ UNCHANGED probe

\* The caller goes away, the total deadline passes on this instance's clock,
\* or a statement fails before it reaches the database.
StopWaiting(r) ==
  /\ run[r].pc \in {"queued", "retry_wait"}
  /\ Becomes(r, "leaving")
  /\ UNCHANGED <<storeVars, probe>>

\* The attempt yields its terminal event, runs out of budget, ends early or
\* is aborted by the caller.  The heartbeat stops; what is left of the
\* attempt has five seconds to settle.
AttemptEnds(r) ==
  /\ run[r].pc = "running"
  /\ \E outcome \in Outcomes :
       run' = [run EXCEPT ![r].pc = "settling", ![r].outcome = outcome]
  /\ UNCHANGED <<storeVars, probe>>

\* The heartbeat, or the wait between retries, reads a cancellation.
NoticeCancellation(r) ==
  /\ entry[r].cancelled
  /\ \/ /\ run[r].pc = "running" /\ r \in Holding(entry)
        /\ run' = [run EXCEPT ![r].pc = "settling", ![r].outcome = "stopped"]
     \/ /\ run[r].pc = "retry_wait" /\ r \in Waiting(entry)
        /\ Becomes(r, "leaving")
  /\ UNCHANGED <<storeVars, probe>>

\* The heartbeat renews nothing, or throws: the attempt is aborted.  The
\* attempt may have failed on its own in the same instant.
LoseLease(r) ==
  /\ run[r].pc = "running"
  /\ r \notin Holding(entry) \/ Fails
  /\ \E outcome \in {"stopped", "unavailable"} :
       run' = [run EXCEPT ![r].pc = "settling", ![r].lost = TRUE,
                          ![r].outcome = outcome]
  /\ UNCHANGED <<storeVars, probe>>

\* mayRetry: the first attempt failed before it produced output, and there is
\* time left.  A requeue that throws ends the run as a failure that does not
\* count.
Retry(r) ==
  /\ run[r].pc = "settling"
  /\ run[r].attempt = 1 /\ run[r].outcome = "unavailable"
  /\ \E answer \in {"applied", "lease_lost"} :
       /\ requeueForRetry(r, answer)
       /\ \/ answer = "applied"
             /\ run' = [run EXCEPT ![r].pc = "retry_wait", ![r].lost = FALSE,
                                   ![r].outcome = "none"]
          \/ answer = "lease_lost" /\ Returns(r)
          \/ Fails /\ run' = [run EXCEPT ![r].outcome = "stopped"]
  /\ UNCHANGED probe

\* The finally block of a run that holds, or believes it holds, its lease.
Finish(r) ==
  /\ run[r].pc = "settling"
  /\ \/ ~run[r].lost /\ finish(r, run[r].outcome)
     \/ (run[r].lost \/ Fails) /\ UNCHANGED storeVars
  /\ Returns(r)
  /\ UNCHANGED probe

\* The finally block of a run that waits.
Leave(r) ==
  /\ run[r].pc = "leaving"
  /\ \/ abandon(r)
     \/ Fails /\ UNCHANGED storeVars
  /\ Returns(r)
  /\ UNCHANGED probe

Crash(r) ==
  /\ "crash" \in Disturbances
  /\ run[r].pc # "idle"
  /\ Returns(r)
  /\ UNCHANGED <<storeVars, probe>>

-----------------------------------------------------------------------------
(***************************************************************************)
(* runDueRecoveryProbes() and runManualHealthProbe().  A probeRunId is     *)
(* new: it names no entry and no holder.                                   *)
(***************************************************************************)
Fresh(p) == p \notin Present(entry) /\ \A m \in Models : op[m].holder # p

ListDue(p) ==
  /\ probe[p].pc = "idle" /\ Fresh(p)
  /\ \E m \in listDueRecoveryProbes :
       probe' = [probe EXCEPT ![p] = [pc |-> "listed", kind |-> "automatic",
                                      model |-> m]]
  /\ UNCHANGED <<storeVars, run>>

AcquireListed(p) ==
  /\ probe[p].pc = "listed"
  /\ \E answer \in BOOLEAN :
       /\ acquireRecoveryProbe(p, probe[p].model, answer)
       /\ \/ answer /\ probe' = [probe EXCEPT ![p].pc = "probing"]
          \/ (~answer \/ Fails) /\ probe' = [probe EXCEPT ![p] = NotProbing]
  /\ UNCHANGED run

RunManualHealthProbe(p, m) ==
  /\ "manual_probe" \in Disturbances
  /\ probe[p].pc = "idle" /\ Fresh(p)
  /\ \E answer \in BOOLEAN :
       /\ acquireManualRecoveryProbe(p, m, answer)
       /\ \/ /\ answer
             /\ probe' = [probe EXCEPT ![p] = [pc |-> "probing",
                                              kind |-> "manual", model |-> m]]
          \/ (~answer \/ Fails) /\ UNCHANGED probe
  /\ UNCHANGED run

\* An automatic probe emits its terminal event in a finally block; a manual
\* probe emits admin_health_check only after the statement has returned.
FinishProbe(p) ==
  /\ probe[p].pc = "probing"
  /\ \E result \in ProbeResults, answer \in {"applied", "superseded", "throws"} :
       /\ finishRecoveryProbe(p, probe[p].model, result, answer)
       /\ probe' = IF answer = "throws" /\ probe[p].kind = "manual"
                   THEN [probe EXCEPT ![p] = NotProbing]
                   ELSE [probe EXCEPT ![p].pc = "reporting"]
  /\ UNCHANGED run

\* The statement fails before it reaches the database.
ProbeUnfinished(p) ==
  /\ Fails
  /\ probe[p].pc = "probing"
  /\ probe' = IF probe[p].kind = "manual"
              THEN [probe EXCEPT ![p] = NotProbing]
              ELSE [probe EXCEPT ![p].pc = "reporting"]
  /\ UNCHANGED <<storeVars, run>>

Report(p) ==
  /\ probe[p].pc = "reporting"
  /\ probe' = [probe EXCEPT ![p] = NotProbing]
  /\ UNCHANGED <<storeVars, run>>

ProbeCrash(p) ==
  /\ "probe_crash" \in Disturbances
  /\ probe[p].pc # "idle"
  /\ probe' = [probe EXCEPT ![p] = NotProbing]
  /\ UNCHANGED <<storeVars, run>>

-----------------------------------------------------------------------------
\* The instance that renews, or returns, the lease of entry i is alive.
Attended(i) ==
  IF i \in Runs THEN run[i].pc \in {"running", "settling"}
               ELSE probe[i].pc = "probing"

\* Leases are renewed every second for thirty seconds, and a probe's lease
\* outlives its budget by five seconds: only a stall lets one lapse.
LapseOf(i) ==
  /\ ~Attended(i) \/ "stall" \in Disturbances
  /\ LeaseLapses(i)
  /\ UNCHANGED <<run, probe>>

DeadlineOf(r) == DeadlinePasses(r) /\ UNCHANGED <<run, probe>>
RetryDueOf(r) == RetryDue(r) /\ UNCHANGED <<run, probe>>
RecoveryDueOf(m) == RecoveryTimePasses(m) /\ UNCHANGED <<run, probe>>

CleanUp == purgeExpiredAiRunCoordinationEntries /\ UNCHANGED <<run, probe>>

Administer ==
  /\ "administrator" \in Disturbances
  /\ \/ suspendConnection
     \/ activateConnection
     \/ updateConnection
     \/ \E m \in Models : suspendProfile(m) \/ enableProfile(m) \/ recordHealth(m)
  /\ UNCHANGED <<run, probe>>

RunStep(r) ==
  \/ \E m \in Models : Start(r, m)
  \/ Poll(r) \/ StopWaiting(r) \/ AttemptEnds(r) \/ NoticeCancellation(r)
  \/ LoseLease(r) \/ Retry(r) \/ Finish(r) \/ Leave(r) \/ Crash(r)

ProbeStep(p) ==
  \/ ListDue(p) \/ AcquireListed(p)
  \/ \E m \in Models : RunManualHealthProbe(p, m)
  \/ FinishProbe(p) \/ ProbeUnfinished(p) \/ Report(p) \/ ProbeCrash(p)

Time ==
  \/ \E i \in Ids : LapseOf(i)
  \/ \E r \in Runs : DeadlineOf(r) \/ RetryDueOf(r)
  \/ \E m \in Models : RecoveryDueOf(m)

Next ==
  \/ \E r \in Runs : RunStep(r)
  \/ \E p \in Probes : ProbeStep(p)
  \/ Time \/ CleanUp \/ Administer

Spec == Init /\ [][Next]_vars

-----------------------------------------------------------------------------
(***************************************************************************)
(* Safety.                                                                 *)
(***************************************************************************)
\* Runs and probes together never hold more valid leases than the connection
\* and each model allow, whatever crashed, lapsed or was requeued (the
\* capacity tests of ACQUIRE_SQL and of both probe acquisitions).
CapacityRespected ==
  /\ Cardinality(Holding(entry)) <= MaxConnection
  /\ \A m \in Models : Cardinality(Holding(entry) \cap Of(entry, m)) <= MaxModel

\* A probe's lease on the operational state and its running entry come and
\* go together, so a probe always counts against capacity and no two probes
\* of a model hold a lease (acquireRecoveryProbe, finishRecoveryProbe).
ProbeOccupiesSlot ==
  /\ \A m \in Models : op[m].lease = "valid" =>
       op[m].holder \in Holding(entry) /\ entry[op[m].holder].model = m
  /\ \A p \in Probes \cap Holding(entry) :
       op[entry[p].model].holder = p /\ op[entry[p].model].lease = "valid"

\* A breaker that failures opened is either scheduled for an automatic probe
\* or flagged for an administrator: it is never forgotten while open
\* (FINISH_SQL, acquireRecoveryProbe, finishRecoveryProbe).
OpenHasWayOut ==
  \A m \in Models :
    op[m].breaker = "open" /\ op[m].reason = "unavailable" =>
      op[m].manual \/ op[m].next # "none"

\* Every run that was waiting or running when its connection or profile was
\* suspended stays marked, through retries, until its entry is gone; a run
\* that is not marked can only meet an unverified model
\* (setConnectionLifecycle, setRunProfileOperationalStatus, requeueForRetry).
SuspensionReachesRuns ==
  \A r \in Runs \cap Present(entry) :
    LET m == entry[r].model IN
    ~entry[r].cancelled => ~verified[m] \/ (active /\ enabled[m])

\* The entry of an executing attempt is running and counts that attempt, or
\* is gone: it is never back in the queue, where it could be acquired again
\* (acquire, requeueForRetry and the heartbeat of coordinate()).
AttemptOwnsEntry ==
  \A r \in Runs : run[r].pc = "running" /\ r \in Present(entry) =>
    entry[r].status = "running" /\ entry[r].attempts = run[r].attempt

\* No attempt starts while its connection or profile is suspended, its model
\* unverified or its breaker tripped, although acquire reads neither
\* lifecycle_status nor operational_status: the cancellation marks must do.
AttemptsStartServing ==
  [][\A r \in Runs : run[r].pc # "running" /\ run'[r].pc = "running" =>
       Admits(entry[r].model)]_vars

\* A tripped breaker closes only in a step in which a probe returns a valid
\* lease: a run that was admitted before the trip and completes after it
\* must not close it (FINISH_SQL).
ClosedOnlyByProbe ==
  [][\A m \in Models : op[m].breaker # "closed" /\ op'[m].breaker = "closed" =>
       \E p \in Probes : /\ probe[p].pc = "probing" /\ probe[p].model = m
                         /\ ProbeCurrent(p, m) /\ op'[m].holder # p]_vars

\* A failure counter is only ever moved up by one or reset: two runs that end
\* together never cost a count, and the state of a model changes under the
\* breaker's own rules: each model implements CircuitBreaker.
Breaker(m) == INSTANCE CircuitBreaker WITH
  mode <- CASE op[m].breaker = "closed" -> "serving"
            [] op[m].reason \in {"authentication_failed",
                                 "capability_mismatch"} -> "locked"
            [] OTHER -> "tripped",
  failures <- IF op[m].breaker = "closed" THEN op[m].failures ELSE 0,
  trials <- op[m].recoveries,
  probing <- op[m].lease = "valid"

\* Every model's operational state implements the abstract breaker; written
\* with one [] because the specification of each model is Init /\ [][Next]_vars.
ImplementsBreaker ==
  /\ \A m \in Models : Breaker(m)!Init
  /\ [][\A m \in Models : [Breaker(m)!Next]_(Breaker(m)!vars)]_vars

-----------------------------------------------------------------------------
(***************************************************************************)
(* Liveness.  The database clock advances; live instances poll, settle and *)
(* return; the clean-up job runs.  Nothing obliges a caller to stay, an    *)
(* instance to crash, or the deadline of a run with a live instance to     *)
(* pass.                                                                   *)
(***************************************************************************)
OrphanDeadline(r) == run[r].pc = "idle" /\ DeadlineOf(r)

Fairness ==
  /\ \A r \in Runs :
       /\ WF_vars(Poll(r)) /\ WF_vars(AttemptEnds(r)) /\ WF_vars(LoseLease(r))
       /\ WF_vars(Retry(r) \/ Finish(r)) /\ WF_vars(Leave(r))
       /\ WF_vars(OrphanDeadline(r)) /\ WF_vars(RetryDueOf(r))
  /\ \A p \in Probes :
       /\ WF_vars(ListDue(p)) /\ WF_vars(AcquireListed(p))
       /\ WF_vars(FinishProbe(p)) /\ WF_vars(Report(p))
  /\ \A i \in Ids : WF_vars(LapseOf(i))
  /\ \A m \in Models : WF_vars(RecoveryDueOf(m))
  /\ WF_vars(CleanUp)

FairSpec == Spec /\ Fairness

\* A run whose instance keeps polling is served or refused, even behind
\* entries left by crashed instances at the head of the connection's queue
\* (the purge of ACQUIRE_SQL, AtHead).
WaitingIsServed ==
  \A r \in Runs : run[r].pc = "queued" ~> run[r].pc # "queued"

\* No entry stays for ever: what a crash or a lost answer leaves behind is
\* purged (purgeExpiredAiRunCoordinationEntries).
EntriesLeave ==
  \A i \in Ids : i \in Present(entry) ~> i \notin Present(entry)

\* A breaker that failures opened is probed until it closes or is handed to an
\* administrator, as long as no probe's instance dies, whatever the runs that
\* were admitted before it opened still report (listDueRecoveryProbes,
\* finishRecoveryProbe).  Nothing is said of a breaker that a failed
\* authentication opened: a probe under way at that moment may take its flag
\* back, and it then stays open for ever.
OpenIsResolved ==
  \A m \in Models : op[m].breaker = "open" /\ op[m].reason = "unavailable" ~>
                       op[m].breaker = "closed" \/ op[m].manual

\* Expired half-open leases are reclaimable.
HalfOpenIsReclaimed ==
  \A m \in Models : op[m].breaker = "half_open" ~> op[m].breaker # "half_open"

=============================================================================
