-------------------------- MODULE TransientCleanup --------------------------
(***************************************************************************)
(* The scheduled clean-up of expired transient state (lib/transient-       *)
(* cleanup/runner.ts, registry.ts): every run goes through the targets in  *)
(* one fixed order and shares one work limit among them.  Runs may overlap *)
(* (several hosts, a manual run), a target may fail, and rows go on        *)
(* expiring.                                                               *)
(*                                                                         *)
(* Abstractions.  A target is the number of its expired rows; which rows a *)
(* batch takes, and that it takes expired ones only, is in the modules of  *)
(* the tables (PurgeSessions, CleanBuckets, PurgeBuckets, Purge).          *)
(***************************************************************************)
EXTENDS Integers, Sequences, FiniteSetsExt

CONSTANTS
  Order,          \* the registered targets, in their order
  Runners,        \* clean-up processes
  WorkLimit,      \* TRANSIENT_CLEANUP_WORK_LIMIT
  BatchSize,      \* TRANSIENT_CLEANUP_BATCH_SIZE
  BacklogTarget,  \* TRANSIENT_CLEANUP_BACKLOG_TARGET
  Absent,         \* targets whose tables this schema does not have
  MaxRows,        \* bound: expired rows of a target at one time
  MaxDeaths       \* bound: runs that are killed

ASSUME CleanupAssumption ==
  /\ Order \in Seq(STRING) /\ Len(Order) > 0
  /\ {WorkLimit, BatchSize} \subseteq Nat \ {0}
  /\ {BacklogTarget, MaxRows, MaxDeaths} \subseteq Nat

Targets == {Order[i] : i \in 1 .. Len(Order)} \ Absent

VARIABLES
  backlog,   \* expired rows of a target
  broken,    \* targets whose statements fail now
  deaths,    \* runs killed since the start
  run        \* a runner: the target it is at, its work left, its estimate, the
             \* rows its open DELETE has locked

cleanVars == <<backlog, broken, deaths, run>>

NoRun == [phase |-> "idle", at |-> 1, left |-> 0, estimate |-> 0, held |-> 0]

CleanTypeOK ==
  /\ backlog \in [Targets -> 0 .. MaxRows]
  /\ broken \in SUBSET Targets
  /\ deaths \in 0 .. MaxDeaths
  /\ run \in [Runners -> [phase : {"idle", "inspecting", "purging", "deleting"},
                          at : 1 .. Len(Order), left : 0 .. WorkLimit,
                          estimate : 0 .. MaxRows, held : 0 .. MaxRows]]

CleanInit ==
  /\ backlog \in [Targets -> 0 .. MaxRows]
  /\ broken = {}
  /\ deaths = 0
  /\ run = [w \in Runners |-> NoRun]

At(w) == Order[run[w].at]

\* The timer's next run: a run of another host may still be going on.
StartRun(w) ==
  /\ run[w].phase = "idle"
  /\ run' = [run EXCEPT ![w] = [NoRun EXCEPT !.phase = "inspecting", !.left = WorkLimit]]
  /\ UNCHANGED <<backlog, broken, deaths>>

Onward(w) ==
  IF run[w].at = Len(Order) THEN NoRun
  ELSE [run[w] EXCEPT !.phase = "inspecting", !.at = @ + 1, !.estimate = 0, !.held = 0]

\* isApplicable() is false: the next target.
Skip(w) ==
  /\ run[w].phase = "inspecting"
  /\ At(w) \in Absent
  /\ run' = [run EXCEPT ![w] = Onward(w)]
  /\ UNCHANGED <<backlog, broken, deaths>>

Inspect(w) ==
  /\ run[w].phase = "inspecting"
  /\ At(w) \in Targets \ broken
  /\ run' = [run EXCEPT ![w].phase = "purging", ![w].estimate = backlog[At(w)]]
  /\ UNCHANGED <<backlog, broken, deaths>>

MoreWork(w) == run[w].left > 0 /\ run[w].estimate > BacklogTarget

Batch(w) == Min({BatchSize, run[w].left, run[w].estimate - BacklogTarget})

HeldByOthers(w) ==
  FoldSet(LAMBDA v, n : n + run[v].held, 0, {v \in Runners \ {w} : At(v) = At(w)})

\* DELETE TOP (limit) ... READPAST: it locks the expired rows that no other run
\* has locked, up to the limit.
LockBatch(w) ==
  /\ run[w].phase = "purging" /\ MoreWork(w) /\ At(w) \notin broken
  /\ run' = [run EXCEPT ![w].phase = "deleting",
                        ![w].held = Min({Batch(w), backlog[At(w)] - HeldByOthers(w)})]
  /\ UNCHANGED <<backlog, broken, deaths>>

\* It commits; a batch of no rows ends the target.
PurgeBatch(w) ==
  LET n == run[w].held IN
  /\ run[w].phase = "deleting" /\ At(w) \notin broken
  /\ backlog' = [backlog EXCEPT ![At(w)] = @ - n]
  /\ run' = [run EXCEPT ![w] =
       IF n = 0 THEN Onward(w)
       ELSE [run[w] EXCEPT !.phase = "purging", !.left = @ - n,
                           !.estimate = @ - n, !.held = 0]]
  /\ UNCHANGED <<broken, deaths>>

Done(w) ==
  /\ run[w].phase = "purging" /\ ~MoreWork(w)
  /\ run' = [run EXCEPT ![w] = Onward(w)]
  /\ UNCHANGED <<backlog, broken, deaths>>

\* Mutant: an exception of a target ends the run.
TargetFailsRun(w) ==
  /\ run[w].phase # "idle" /\ At(w) \in broken
  /\ run' = [run EXCEPT ![w] = NoRun]
  /\ UNCHANGED <<backlog, broken, deaths>>

\* The catch block: what the statement locked is rolled back and the run goes
\* on with the next target.
TargetFails(w) ==
  /\ run[w].phase # "idle" /\ At(w) \in broken
  /\ run' = [run EXCEPT ![w] = Onward(w)]
  /\ UNCHANGED <<backlog, broken, deaths>>

\* The process is killed; what it has committed stays deleted.
RunnerDies(w) ==
  /\ run[w].phase # "idle" /\ deaths < MaxDeaths
  /\ deaths' = deaths + 1
  /\ run' = [run EXCEPT ![w] = NoRun]
  /\ UNCHANGED <<backlog, broken>>

RowExpires(t) ==
  /\ backlog[t] < MaxRows
  /\ backlog' = [backlog EXCEPT ![t] = @ + 1]
  /\ UNCHANGED <<broken, deaths, run>>

\* A schema that is half installed, a lost permission, a connection that fails.
Breaks(t) ==
  /\ t \notin broken /\ broken' = broken \cup {t}
  /\ UNCHANGED <<backlog, deaths, run>>

Mends(t) ==
  /\ t \in broken /\ broken' = broken \ {t}
  /\ UNCHANGED <<backlog, deaths, run>>

CleanStep(w) ==
  StartRun(w) \/ Skip(w) \/ Inspect(w) \/ LockBatch(w) \/ PurgeBatch(w) \/ Done(w)
    \/ TargetFails(w)

CleanNext ==
  \/ \E w \in Runners : CleanStep(w) \/ RunnerDies(w)
  \/ \E t \in Targets : RowExpires(t) \/ Breaks(t) \/ Mends(t)

\* The timer starts the next run and every statement of a run ends, with rows
\* or with an error; a schema need not be mended.
CleanFairness == \A w \in Runners : WF_cleanVars(CleanStep(w))

CleanSpec == CleanInit /\ [][CleanNext]_cleanVars /\ CleanFairness

-----------------------------------------------------------------------------
\* The targets that a run comes to before it has come to t's end.
UpTo(t) == {Order[i] : i \in 1 .. CHOOSE k \in 1 .. Len(Order) : Order[k] = t} \ Absent

Arrives(t) == \E u \in UpTo(t) : backlog'[u] > backlog[u]

\* A target whose statements have stopped failing is brought down to the
\* backlog target and stays there, once rows have stopped expiring in it and in
\* the targets before it: these may take the whole work limit of many runs, and
\* may fail, but only their arrivals can starve it; the targets after it
\* cannot, whatever they do (the loop of runTransientStateCleanup).
TargetsDrain ==
  \A t \in Targets :
    <>[](t \notin broken) /\ <>[][~Arrives(t)]_cleanVars => <>[](backlog[t] <= BacklogTarget)
=============================================================================
