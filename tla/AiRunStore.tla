----------------------------- MODULE AiRunStore -----------------------------
(***************************************************************************)
(* The two SQL Server tables that coordinate AI runs between application   *)
(* instances (lib/ai/run-coordination-store.ts), and the administration    *)
(* statements that touch them (lib/dal/ai-connection-admin.ts).            *)
(*                                                                         *)
(* Each operation is one SQL batch; those that read before they write run  *)
(* in a SERIALIZABLE transaction, so a batch is one atomic step.  A batch  *)
(* that answers its caller has the answer as a parameter.                  *)
(*                                                                         *)
(* Abstractions.  One AI connection; one run profile for each model.       *)
(* Clock readings are replaced by what a comparison with the database      *)
(* clock yields: a lease is valid or expired, a waiting entry is due or    *)
(* not, a total deadline has passed (late) or not; time may move any of    *)
(* them at any moment.  The IDENTITY queue_sequence is replaced by the set *)
(* of entries that were inserted earlier.  health_status is left out.      *)
(***************************************************************************)
EXTENDS Naturals, FiniteSets

CONSTANTS
  Runs,           \* application runs (application_run_id with its fencing token)
  Probes,         \* health probes (probeRunId)
  Models,         \* verified model revisions of the connection
  NoProbe,        \* lease_run_id IS NULL
  NoModel,        \* the model of an absent entry
  MaxConnection,  \* ai_connections.maximum_concurrency
  MaxModel,       \* ai_connection_model_revisions.maximum_concurrency
  QueueCapacity,  \* ai_run_profiles.queue_capacity
  FailureLimit,   \* consecutive failures that open the breaker (5)
  RecoveryLimit   \* automatic recovery attempts (5)

ASSUME StoreAssumption ==
  /\ Runs \cap Probes = {}
  /\ IsFiniteSet(Runs \cup Probes)
  /\ NoProbe \notin Runs \cup Probes
  /\ NoModel \notin Models
  /\ MaxConnection \in Nat \ {0} /\ MaxModel \in Nat \ {0}
  /\ QueueCapacity \in Nat
  /\ FailureLimit \in Nat \ {0} /\ RecoveryLimit \in Nat \ {0}

VARIABLES
  entry,     \* ai_run_coordination_entries
  op,        \* ai_connection_model_operational_states
  active,    \* the connection's lifecycle_status is active
  enabled,   \* the model's run profile is enabled, not suspended
  verified   \* the model revision's status is verified

storeVars == <<entry, op, active, enabled, verified>>
settings == <<active, enabled, verified>>

Ids == Runs \cup Probes

(***************************************************************************)
(* Rows.                                                                   *)
(***************************************************************************)
NoEntry ==
  [status |-> "none", model |-> NoModel, lease |-> "none", due |-> TRUE,
   late |-> FALSE, cancelled |-> FALSE, attempts |-> 0, earlier |-> {}]

EntryType ==
  [status : {"none", "queued", "running", "retry_wait"},
   model : Models \cup {NoModel}, lease : {"none", "valid", "expired"},
   due : BOOLEAN, late : BOOLEAN, cancelled : BOOLEAN,
   attempts : 0 .. 2, earlier : SUBSET Runs]

Healthy ==
  [breaker |-> "closed", reason |-> "none", failures |-> 0, recoveries |-> 0,
   manual |-> FALSE, next |-> "none", holder |-> NoProbe, lease |-> "none"]

Reasons == {"unavailable", "authentication_failed", "capability_mismatch"}

OpType ==
  [breaker : {"closed", "open", "half_open"}, reason : Reasons \cup {"none"},
   failures : 0 .. FailureLimit, recoveries : 0 .. RecoveryLimit,
   manual : BOOLEAN, next : {"none", "later", "due"},
   holder : Probes \cup {NoProbe}, lease : {"none", "valid", "expired"}]

StoreTypeOK ==
  /\ entry \in [Ids -> EntryType]
  /\ op \in [Models -> OpType]
  /\ active \in BOOLEAN
  /\ enabled \in [Models -> BOOLEAN]
  /\ verified \in [Models -> BOOLEAN]

StoreInit ==
  /\ entry = [i \in Ids |-> NoEntry]
  /\ op = [m \in Models |-> Healthy]
  /\ active = TRUE
  /\ enabled = [m \in Models |-> TRUE]
  /\ verified = [m \in Models |-> TRUE]

Present(t) == {i \in Ids : t[i].status # "none"}
Waiting(t) == {i \in Ids : t[i].status \in {"queued", "retry_wait"}}
\* status = 'running' AND lease_expires_at > now
Holding(t) == {i \in Ids : t[i].status = "running" /\ t[i].lease = "valid"}
Lapsed(t) == {i \in Ids : t[i].status = "running" /\ t[i].lease = "expired"}
Of(t, m) == {i \in Ids : t[i].model = m}

Without(t, S) ==
  [i \in Ids |-> IF i \in S THEN NoEntry ELSE [t[i] EXCEPT !.earlier = @ \ S]]

\* Mutant: waiting entries are kept past their deadline.
PurgeLapsed(t) == Without(t, Lapsed(t))

\* The DELETE every enqueue and acquire starts with.
Purge(t) == Without(t, Lapsed(t) \cup {i \in Waiting(t) : t[i].late})

ConnectionFull(t) == Cardinality(Holding(t)) >= MaxConnection

\* Mutant: one lease too many.
ModelOverfull(t, m) == Cardinality(Holding(t) \cap Of(t, m)) > MaxModel

ModelFull(t, m) == Cardinality(Holding(t) \cap Of(t, m)) >= MaxModel

-----------------------------------------------------------------------------
(***************************************************************************)
(* Application runs.                                                       *)
(***************************************************************************)
Admits(m) == active /\ enabled[m] /\ verified[m] /\ op[m].breaker = "closed"

Busy(t, m) ==
  \/ Cardinality(Holding(t)) + Cardinality(Waiting(t)) >= MaxConnection
  \/ Cardinality(Holding(t) \cap Of(t, m))
       + Cardinality(Waiting(t) \cap Of(t, m)) >= MaxModel

QueueFull(t, m) ==
  Busy(t, m) /\ Cardinality(Waiting(t) \cap Of(t, m)) >= QueueCapacity

Queued(t, r, m) ==
  [t EXCEPT ![r] = [NoEntry EXCEPT !.status = "queued", !.model = m,
                                   !.earlier = Present(t) \cap Runs]]

enqueue(r, m, answer) ==
  LET t == Purge(entry) IN
  /\ answer = IF ~Admits(m) THEN "breaker_open"
              ELSE IF QueueFull(t, m) THEN "queue_full" ELSE "queued"
  /\ entry' = IF answer = "queued" THEN Queued(t, r, m) ELSE t
  /\ UNCHANGED <<op, settings>>

\* queue_sequence is the MIN of the waiting entries of the connection that
\* are due.
AtHead(t, r) == ~\E q \in t[r].earlier \cap Waiting(t) : t[q].due

AcquireAnswer(t, r) ==
  LET m == t[r].model IN
  IF r \notin Present(t) THEN "expired"
  ELSE IF t[r].cancelled THEN "cancelled"
  ELSE IF ~verified[m] THEN "expired"
  ELSE IF op[m].breaker # "closed" THEN "breaker_open"
  ELSE IF \/ ~t[r].due
          \/ ConnectionFull(t)
          \/ ModelFull(t, m)
          \/ ~AtHead(t, r) THEN "waiting"
  ELSE "acquired"

\* An entry whose model is no longer verified is deleted before the answer.
Unverified(t, r) ==
  r \in Waiting(t) /\ ~t[r].cancelled /\ ~verified[t[r].model]

\* Mutant: the attempt is not counted.
LeasedUncounted(t, r) ==
  [t EXCEPT ![r].status = "running", ![r].lease = "valid"]

Leased(t, r) ==
  [t EXCEPT ![r].status = "running", ![r].lease = "valid",
            ![r].attempts = @ + 1]

acquire(r, answer) ==
  LET t == Purge(entry) IN
  /\ answer = AcquireAnswer(t, r)
  /\ entry' = IF answer = "acquired" THEN Leased(t, r)
              ELSE IF Unverified(t, r) THEN Without(t, {r}) ELSE t
  /\ UNCHANGED <<op, settings>>

\* Mutant: the requeued row starts afresh, without its cancellation.
RequeuedAfresh(t, r) ==
  [t EXCEPT ![r].status = "retry_wait", ![r].lease = "none",
            ![r].due = FALSE, ![r].cancelled = FALSE]

Requeued(t, r) ==
  [t EXCEPT ![r].status = "retry_wait", ![r].lease = "none",
            ![r].due = FALSE]

requeueForRetry(r, answer) ==
  /\ answer = IF r \in Holding(entry) THEN "applied" ELSE "lease_lost"
  /\ entry' = IF answer = "applied" THEN Requeued(entry, r) ELSE entry
  /\ UNCHANGED <<op, settings>>

abandon(r) ==
  /\ entry' = Without(entry, Waiting(entry) \cap {r})
  /\ UNCHANGED <<op, settings>>

\* The WHERE clause of the reset: a success that comes after the breaker
\* opened changes nothing.
Resets(s) == s.breaker = "closed"

\* Mutant: the breaker opens one failure early.
TripsEarly(s) == s.failures + 2 >= FailureLimit

Trips(s) == s.failures + 1 >= FailureLimit

\* What the terminal outcome of a run does to the state of its model.
\* "unavailable" stands for the three failures that count: connection
\* unavailable, deadline exceeded, retryable adapter failure.  "stopped" is
\* every other failure, and a cancellation: they only touch health_status.
AfterRun(s, outcome) ==
  CASE outcome = "completed" /\ Resets(s) ->
         [Healthy EXCEPT !.holder = s.holder, !.lease = s.lease]
    [] outcome = "authentication_failed" ->
         [s EXCEPT !.breaker = "open", !.reason = outcome,
                   !.failures = FailureLimit, !.manual = TRUE, !.next = "none"]
    [] outcome = "unavailable" /\ s.breaker = "closed" /\ ~Trips(s) ->
         [s EXCEPT !.failures = @ + 1]
    [] outcome = "unavailable" /\ s.breaker = "closed" /\ Trips(s) ->
         [s EXCEPT !.failures = FailureLimit, !.breaker = "open",
                   !.reason = outcome, !.next = "later"]
    [] OTHER -> s

finish(r, outcome) ==
  /\ op' = IF r \in Holding(entry)
           THEN [op EXCEPT ![entry[r].model] = AfterRun(@, outcome)] ELSE op
  /\ entry' = Without(entry, Holding(entry) \cap {r})
  /\ UNCHANGED settings

-----------------------------------------------------------------------------
(***************************************************************************)
(* Health probes.                                                          *)
(***************************************************************************)
\* What both acquisitions delete first: lapsed entries, and the entry of a
\* probe whose lease on the operational state has lapsed.
ProbePurge(t, m) ==
  Without(t, Lapsed(t) \cup {i \in Ids : /\ t[i].status = "running"
                                       /\ op[m].holder = i
                                       /\ op[m].lease = "expired"})

LeaseFree(m) == op[m].lease # "valid"

\* Mutant: probes are not counted against capacity.
AlwaysRoom(t, m) == TRUE

HasRoom(t, m) == ~ConnectionFull(t) /\ ~ModelFull(t, m)

ProbeEntry(m) ==
  [NoEntry EXCEPT !.status = "running", !.model = m, !.lease = "valid",
                  !.attempts = 1]

\* Mutant: the last permitted attempt is never due.
RecoveryDueShort(m) ==
  /\ op[m].breaker = "open"
  /\ op[m].next = "due"
  /\ op[m].recoveries + 1 < RecoveryLimit
  /\ ~op[m].manual
  /\ op[m].reason = "unavailable"

RecoveryDue(m) ==
  /\ op[m].breaker = "open"
  /\ op[m].next = "due"
  /\ op[m].recoveries < RecoveryLimit
  /\ ~op[m].manual
  /\ op[m].reason = "unavailable"

\* The rows listDueRecoveryProbes selects.
listDueRecoveryProbes ==
  {m \in Models : RecoveryDue(m) /\ active /\ verified[m] /\ enabled[m]}

\* A half-open state whose last permitted probe lapsed goes back to open and
\* is left to an administrator.
Exhausted(s) ==
  s.breaker = "half_open" /\ s.lease = "expired" /\ s.recoveries >= RecoveryLimit

GiveUpRecovery(s) ==
  IF Exhausted(s)
  THEN [s EXCEPT !.breaker = "open", !.manual = TRUE, !.next = "none",
                 !.holder = NoProbe, !.lease = "none"]
  ELSE s

MayProbe(s) ==
  /\ \/ s.breaker = "open" /\ s.next = "due"
     \/ s.breaker = "half_open" /\ s.lease = "expired"
  /\ s.reason \notin {"authentication_failed", "capability_mismatch"}
  /\ s.recoveries < RecoveryLimit
  /\ ~s.manual
  /\ s.lease # "valid"

acquireRecoveryProbe(p, m, answer) ==
  LET t == ProbePurge(entry, m)
      s == GiveUpRecovery(op[m])
  IN
  /\ answer = (MayProbe(s) /\ HasRoom(t, m))
  /\ op' = [op EXCEPT ![m] =
              IF answer THEN [s EXCEPT !.breaker = "half_open", !.holder = p,
                                       !.recoveries = @ + 1, !.lease = "valid"]
              ELSE s]
  /\ entry' = IF answer THEN [t EXCEPT ![p] = ProbeEntry(m)] ELSE t
  /\ UNCHANGED settings

acquireManualRecoveryProbe(p, m, answer) ==
  LET t == ProbePurge(entry, m) IN
  /\ answer = (op[m].breaker # "half_open" /\ LeaseFree(m) /\ HasRoom(t, m))
  /\ op' = IF answer
           THEN [op EXCEPT ![m].breaker = IF @ = "open" THEN "half_open" ELSE @,
                           ![m].holder = p, ![m].lease = "valid"]
           ELSE op
  /\ entry' = IF answer THEN [t EXCEPT ![p] = ProbeEntry(m)] ELSE t
  /\ UNCHANGED settings

Released(s) == [s EXCEPT !.holder = NoProbe, !.lease = "none"]

\* Mutant: the flag is off by one against the schedule.
ManualLate(s) == s.recoveries > RecoveryLimit

ManualAfter(s) == s.recoveries >= RecoveryLimit

AfterProbe(s, outcome) ==
  CASE outcome = "succeeded" -> Healthy
    [] outcome \in {"authentication_failed", "capability_mismatch"} ->
         [Released(s) EXCEPT !.breaker = "open", !.reason = outcome,
                             !.manual = TRUE, !.next = "none"]
    [] outcome = "failed" ->
         [Released(s) EXCEPT
            !.breaker = "open", !.manual = ManualAfter(s),
            !.next = IF s.recoveries >= RecoveryLimit THEN "none" ELSE "later"]

\* chk_ai_connection_model_operational_states_circuit_reason
ReasonCheck(s) == (s.breaker = "closed") <=> (s.reason = "none")

\* The lease_owner_id, lease_run_id and lease_expires_at test of every
\* statement of the batch.
ProbeCurrent(p, m) == op[m].holder = p /\ op[m].lease = "valid"

\* A batch that breaks the CHECK is rolled back and throws.
finishRecoveryProbe(p, m, outcome, answer) ==
  LET s == AfterProbe(op[m], outcome) IN
  /\ answer = IF ~ProbeCurrent(p, m) THEN "superseded"
              ELSE IF ReasonCheck(s) THEN "applied" ELSE "throws"
  /\ op' = IF answer = "applied" THEN [op EXCEPT ![m] = s] ELSE op
  /\ entry' = IF answer = "applied"
              THEN Without(entry, Holding(entry) \cap {p}) ELSE entry
  /\ UNCHANGED settings

-----------------------------------------------------------------------------
(***************************************************************************)
(* Administration, the transient clean-up job and the passing of time.     *)
(***************************************************************************)
\* An entry that is already cancelled keeps its reason.
Cancelled(t, S) ==
  [i \in Ids |-> IF i \in S \cap Present(t)
                 THEN [t[i] EXCEPT !.cancelled = TRUE] ELSE t[i]]

\* Mutant: only the queue is cancelled.
suspendConnectionQueue ==
  /\ active' = FALSE
  /\ entry' = Cancelled(entry, Waiting(entry))
  /\ UNCHANGED <<op, enabled, verified>>

suspendConnection ==
  /\ active' = FALSE
  /\ entry' = Cancelled(entry, Ids)
  /\ UNCHANGED <<op, enabled, verified>>

\* A second guard of the code, an unexpired verification of some model of
\* the connection, is the existential.
activateConnection ==
  /\ ~active
  /\ \E m \in Models : verified[m]
  /\ active' = TRUE
  /\ UNCHANGED <<entry, op, enabled, verified>>

suspendProfile(m) ==
  /\ enabled' = [enabled EXCEPT ![m] = FALSE]
  /\ entry' = Cancelled(entry, Of(entry, m))
  /\ UNCHANGED <<op, active, verified>>

enableProfile(m) ==
  /\ enabled' = [enabled EXCEPT ![m] = TRUE]
  /\ UNCHANGED <<entry, op, active, verified>>

\* A health check contradicts a model's evidence: its revision is superseded.
recordHealth(m) ==
  /\ verified[m]
  /\ verified' = [verified EXCEPT ![m] = FALSE]
  /\ UNCHANGED <<entry, op, active, enabled>>

\* A technical change, a new secret or a contradicted connection: the
\* connection and every model have to be verified again.  No entry is
\* cancelled.
updateConnection ==
  /\ \E m \in Models : verified[m]
  /\ active' = FALSE
  /\ verified' = [m \in Models |-> FALSE]
  /\ UNCHANGED <<entry, op, enabled>>

\* Mutant: the job removes lapsed leases only.
purgeLapsedLeases ==
  /\ entry' = Without(entry, Lapsed(entry))
  /\ UNCHANGED <<op, settings>>

purgeExpiredAiRunCoordinationEntries ==
  /\ entry' = Purge(entry)
  /\ UNCHANGED <<op, settings>>

\* The lease of a probe's entry and its lease on the operational state are
\* set to the same instant.
LeaseLapses(i) ==
  /\ i \in Holding(entry)
  /\ entry' = [entry EXCEPT ![i].lease = "expired"]
  /\ op' = [m \in Models |-> IF op[m].holder = i
                             THEN [op[m] EXCEPT !.lease = "expired"] ELSE op[m]]
  /\ UNCHANGED settings

DeadlinePasses(r) ==
  /\ r \in Present(entry) /\ ~entry[r].late
  /\ entry' = [entry EXCEPT ![r].late = TRUE]
  /\ UNCHANGED <<op, settings>>

RetryDue(r) ==
  /\ r \in Waiting(entry) /\ ~entry[r].due
  /\ entry' = [entry EXCEPT ![r].due = TRUE]
  /\ UNCHANGED <<op, settings>>

RecoveryTimePasses(m) ==
  /\ op[m].next = "later"
  /\ op' = [op EXCEPT ![m].next = "due"]
  /\ UNCHANGED <<entry, settings>>

=============================================================================
