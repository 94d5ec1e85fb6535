---------------------------- MODULE MCGovernance ----------------------------
(* Instances of the agreements, of the trust in a connection and of retention  *)
(* for TLC.  They share no state, so a behaviour exercises one of them and the *)
(* others stay in their initial states.                                        *)
EXTENDS SpecificationAgreements, ConnectionTrust, Retention, TLC

VARIABLE part  \* the component that this behaviour is about

governanceVars == <<part, agreementVars, trustVars, retentionVars>>

GovernanceInit ==
  /\ part \in {"agreements", "trust", "retention"}
  /\ AgreementInit /\ TrustInit /\ RetentionInit
  /\ part # "retention" => held = Specs /\ \A s \in Specs : ~specs[s].old

GovernanceNext ==
  \/ part = "agreements" /\ AgreementNext /\ UNCHANGED <<part, trustVars, retentionVars>>
  \/ part = "trust" /\ TrustNext /\ UNCHANGED <<part, agreementVars, retentionVars>>
  \/ part = "retention" /\ RetentionNext /\ UNCHANGED <<part, agreementVars, trustVars>>

GovernanceSpec == GovernanceInit /\ [][GovernanceNext]_governanceVars

Symmetry == Permutations(Specs)
=============================================================================
