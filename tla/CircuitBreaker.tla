--------------------------- MODULE CircuitBreaker ---------------------------
(***************************************************************************)
(* What the circuit breaker of one model promises, without tables, leases  *)
(* or processes (docs/operations/ai-connections.md): a serving model trips *)
(* after FailureLimit failures with no success between them, or at once on *)
(* an authentication or capability failure, which locks it.  A tripped     *)
(* model serves again only through a probe; one probe runs at a time; at   *)
(* most RecoveryLimit automatic trials follow a trip, none while locked.   *)
(***************************************************************************)
EXTENDS Naturals

CONSTANTS FailureLimit, RecoveryLimit

VARIABLES
  mode,      \* serving, tripped or locked
  failures,  \* failures since the last success, while serving
  trials,    \* automatic trials since the model last served
  probing    \* a probe is running

vars == <<mode, failures, trials, probing>>

Init == mode = "serving" /\ failures = 0 /\ trials = 0 /\ probing = FALSE

Succeed ==
  /\ mode = "serving"
  /\ failures' = 0
  /\ UNCHANGED <<mode, trials, probing>>

Fail ==
  /\ mode = "serving" /\ failures + 1 < FailureLimit
  /\ failures' = failures + 1
  /\ UNCHANGED <<mode, trials, probing>>

Trip ==
  /\ mode = "serving" /\ failures + 1 = FailureLimit
  /\ mode' = "tripped" /\ failures' = 0
  /\ UNCHANGED <<trials, probing>>

\* The failure may be a run's, or what the probe found.
Lock ==
  /\ mode' = "locked" /\ failures' = 0
  /\ probing' \in {probing, FALSE}
  /\ UNCHANGED trials

StartTrial ==
  /\ mode = "tripped" /\ ~probing /\ trials < RecoveryLimit
  /\ trials' = trials + 1 /\ probing' = TRUE
  /\ UNCHANGED <<mode, failures>>

StartManualProbe ==
  /\ ~probing
  /\ probing' = TRUE
  /\ UNCHANGED <<mode, failures, trials>>

ProbeEnds ==
  /\ probing
  /\ probing' = FALSE
  /\ UNCHANGED <<mode, failures, trials>>

Recover ==
  /\ probing
  /\ mode' = "serving" /\ failures' = 0 /\ trials' = 0
  /\ probing' = FALSE

Next ==
  \/ Succeed \/ Fail \/ Trip \/ Lock
  \/ StartTrial \/ StartManualProbe \/ ProbeEnds \/ Recover

Spec == Init /\ [][Next]_vars

=============================================================================
