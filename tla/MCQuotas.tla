------------------------------ MODULE MCQuotas ------------------------------
(* Instances of the three quotas for TLC.  They share no state, so a behaviour *)
(* exercises one of them and the others stay in their initial states.          *)
EXTENDS ExportQuota, RequirementImport, HsaVerificationQuota, TLC

VARIABLE quota  \* the quota that this behaviour is about

\* One limit decides in each: with the first, what a principal may have at
\* once; with the second, what a destination may have; with the third,
\* the creations of a window and the bytes.  Changing them lowers one and
\* raises another.
MCQuotaValues ==
  {[perPrincipal |-> 1, perDest |-> 2, creations |-> 2, bytes |-> 2],
   [perPrincipal |-> 2, perDest |-> 1, creations |-> 2, bytes |-> 2],
   [perPrincipal |-> 2, perDest |-> 2, creations |-> 1, bytes |-> 1]}

quotaVars == <<quota, vars, importVars, hsaVars>>

QuotasInit ==
  /\ quota \in {"export", "import", "hsa"} /\ Init /\ ImportInit /\ HsaInit
  /\ quotas.perPrincipal = 1

QuotasNext ==
  \/ quota = "export" /\ Next /\ UNCHANGED <<quota, importVars, hsaVars>>
  \/ quota = "import" /\ ImportNext /\ UNCHANGED <<quota, vars, hsaVars>>
  \/ quota = "hsa" /\ HsaNext /\ UNCHANGED <<quota, vars, importVars>>

QuotasSpec == QuotasInit /\ [][QuotasNext]_quotaVars

\* They use the same model values for their requests, for their actors, and for
\* nodes and tokens.
Symmetry ==
  Permutations(Ops) \cup Permutations(Actors) \cup Permutations(Nodes)
=============================================================================
