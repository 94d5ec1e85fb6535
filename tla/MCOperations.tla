---------------------------- MODULE MCOperations ----------------------------
(* Instances of the export quota, of the clean-up and of forensic capture      *)
(* under their fairness, for TLC.  They share no state, so a behaviour         *)
(* exercises one of them and the others stay in their initial states.          *)
EXTENDS ExportQuota, TransientCleanup, ForensicCapture

VARIABLE part  \* the component that this behaviour is about

MCOrder == <<"export", "absent", "import">>

operationsVars == <<part, vars, cleanVars, forensicVars>>

OperationsInit ==
  /\ Init /\ CleanInit /\ ForensicInit
  /\ part \in {"export", "cleanup", "forensic"}
  /\ part # "cleanup" => backlog = [t \in Targets |-> 0]

OperationsNext ==
  \/ part = "export" /\ Next /\ UNCHANGED <<part, cleanVars, forensicVars>>
  \/ part = "cleanup" /\ CleanNext /\ UNCHANGED <<part, vars, forensicVars>>
  \/ part = "forensic" /\ ForensicNext /\ UNCHANGED <<part, vars, cleanVars>>

\* The fair steps of the export quota and of forensic capture are not enabled
\* in their initial states; the clean-up's are, so they are asked for where
\* they may happen.
OperationsSpec ==
  /\ OperationsInit /\ [][OperationsNext]_operationsVars
  /\ Fairness
  /\ \A w \in Runners : WF_cleanVars(part = "cleanup" /\ CleanStep(w))
  /\ ForensicFairness
=============================================================================
