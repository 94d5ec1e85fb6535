-------------------------- MODULE ConnectionTrust --------------------------
(***************************************************************************)
(* What one AI connection may be trusted with: its lifecycle and           *)
(* configuration version, its provider secrets, the verification of its    *)
(* models, and the revision that a run profile selects (lib/dal/           *)
(* ai-connection-admin.ts, ai-model-verification-attempts.ts,              *)
(* lib/ai/admin-service.ts, provider-secret-service.ts).                   *)
(*                                                                         *)
(* Abstractions.  An operation that commits only if the revision tokens it *)
(* has read are still the current ones is one step.  A verification has no *)
(* such token until it is saved, so it is three: it reads the connection,  *)
(* later the active secret, and its result is stored.  Evidence is kept    *)
(* for the current configuration version, the only one that is looked up.  *)
(* The connection needs a secret; running calls, which also keep a         *)
(* revision from being ended, are in AiRunCoordination.                    *)
(***************************************************************************)
EXTENDS Integers, Sequences, SequencesExt

CONSTANTS
  Admins,
  MaxVersion,    \* bound: configuration versions
  MaxSecrets,    \* bound: secrets written
  MaxAttempts,   \* bound: verifications that end well
  MaxRevisions   \* bound: model revisions saved

ASSUME TrustAssumption ==
  MaxVersion \in Nat \ {0} /\ {MaxSecrets, MaxAttempts, MaxRevisions} \subseteq Nat

VARIABLES
  conn,       \* the row of ai_connections, and whether an attestation is valid
  secrets,    \* ai_provider_secret_versions of purpose runtime
  revisions,  \* ai_connection_model_revisions
  evidence,   \* connection evidence of this version, oldest first: the revision
              \* it was saved with, or 0 for a contradiction
  attempts,   \* ai_model_verification_attempts
  verifying,  \* an administrator: the verification under way
  selected    \* the revision of the run profile, or 0

trustVars == <<conn, secrets, revisions, evidence, attempts, verifying, selected>>

NotVerifying == [version |-> 0, secret |-> 0]

Connection == [status : {"draft", "verification_required", "active", "suspended", "retired"},
               version : 1 .. MaxVersion, attested : BOOLEAN]
Secret == [status : {"candidate", "active", "superseded", "deleted"}, material : BOOLEAN]
Revision == [status : {"verified", "new_revision_required", "ended", "deleted"},
             version : 1 .. MaxVersion, secret : 1 .. MaxSecrets, attempt : 1 .. MaxAttempts]
Attempt == [pending : BOOLEAN, version : 1 .. MaxVersion, secret : 1 .. MaxSecrets]

TrustTypeOK ==
  /\ conn \in Connection
  /\ secrets \in Seq(Secret) /\ Len(secrets) <= MaxSecrets
  /\ revisions \in Seq(Revision) /\ Len(revisions) <= MaxRevisions
  /\ evidence \in Seq(0 .. MaxRevisions)
  /\ attempts \in Seq(Attempt) /\ Len(attempts) <= MaxAttempts
  /\ verifying \in [Admins -> [version : 0 .. MaxVersion, secret : 0 .. MaxSecrets]]
  /\ selected \in 0 .. MaxRevisions

TrustInit ==
  /\ conn = [status |-> "draft", version |-> 1, attested |-> FALSE]
  /\ secrets = << >> /\ revisions = << >> /\ evidence = << >> /\ attempts = << >>
  /\ verifying = [a \in Admins |-> NotVerifying]
  /\ selected = 0

Usable(s) == secrets[s].status = "active" /\ secrets[s].material
Verified(r) == revisions[r].status = "verified"

Outdated(r) == IF Verified(r) THEN [revisions[r] EXCEPT !.status = "new_revision_required"]
               ELSE revisions[r]

\* A change of configuration: every verified revision has to be verified anew.
Reconfigured(status) ==
  /\ conn.version < MaxVersion
  /\ conn' = [conn EXCEPT !.version = @ + 1, !.status = status]
  /\ revisions' = [r \in DOMAIN revisions |-> Outdated(r)]
  /\ evidence' = << >>

Reverify == IF conn.status = "draft" THEN "draft" ELSE "verification_required"

\* A technical field is changed; other fields leave all of this alone.
UpdateConnection ==
  /\ conn.status # "retired"
  /\ Reconfigured(Reverify)
  /\ UNCHANGED <<secrets, attempts, verifying, selected>>

WriteSecret ==
  /\ Len(secrets) < MaxSecrets
  /\ secrets' = Append(secrets, [status |-> "candidate", material |-> TRUE])
  /\ UNCHANGED <<conn, revisions, evidence, attempts, verifying, selected>>

\* After the provider has accepted it; a superseded one may come back.
ActivateSecret(s) ==
  /\ secrets[s].status \in {"candidate", "superseded"} /\ secrets[s].material
  /\ secrets' = [t \in DOMAIN secrets |->
       IF t = s THEN [secrets[t] EXCEPT !.status = "active"]
       ELSE IF secrets[t].status = "active" THEN [secrets[t] EXCEPT !.status = "superseded"]
       ELSE secrets[t]]
  /\ Reconfigured(Reverify)
  /\ UNCHANGED <<attempts, verifying, selected>>

ConfirmRevocation(s) ==
  /\ secrets[s].status = "superseded" /\ secrets[s].material
  /\ secrets' = [secrets EXCEPT ![s].material = FALSE]
  /\ UNCHANGED <<conn, revisions, evidence, attempts, verifying, selected>>

DeleteCandidate(s) ==
  /\ secrets[s].status = "candidate"
  /\ secrets' = [secrets EXCEPT ![s].status = "deleted"]
  /\ UNCHANGED <<conn, revisions, evidence, attempts, verifying, selected>>

\* verifyModelCandidate reads the connection ...
StartVerification(a) ==
  /\ verifying[a] = NotVerifying
  /\ verifying' = [verifying EXCEPT ![a].version = conn.version]
  /\ UNCHANGED <<conn, secrets, revisions, evidence, attempts, selected>>

\* ... then whatever secret is active ...
UseSecret(a) ==
  /\ verifying[a].version # 0 /\ verifying[a].secret = 0
  /\ \E s \in DOMAIN secrets :
       Usable(s) /\ verifying' = [verifying EXCEPT ![a].secret = s]
  /\ UNCHANGED <<conn, secrets, revisions, evidence, attempts, selected>>

\* ... and stores what it has found, for fifteen minutes.
StoreAttempt(a) ==
  /\ verifying[a].secret # 0 /\ Len(attempts) < MaxAttempts
  /\ attempts' = Append(attempts, [pending |-> TRUE, version |-> verifying[a].version,
                                   secret |-> verifying[a].secret])
  /\ verifying' = [verifying EXCEPT ![a] = NotVerifying]
  /\ UNCHANGED <<conn, secrets, revisions, evidence, selected>>

\* No secret, a failed check, or the administrator leaves.
VerificationFails(a) ==
  /\ verifying[a] # NotVerifying
  /\ verifying' = [verifying EXCEPT ![a] = NotVerifying]
  /\ UNCHANGED <<conn, secrets, revisions, evidence, attempts, selected>>

DropAttempt(t) ==
  /\ attempts[t].pending
  /\ attempts' = [attempts EXCEPT ![t].pending = FALSE]
  /\ UNCHANGED <<conn, secrets, revisions, evidence, verifying, selected>>

\* Mutant: the fingerprint is of the model only.
FingerprintOfModel(t) == attempts[t].pending

\* The fingerprint of the connection as it is now is the attempt's.
FingerprintMatches(t) == attempts[t].pending /\ attempts[t].version = conn.version

Consumed(t) == attempts' = [attempts EXCEPT ![t].pending = FALSE]

\* One transaction consumes the attempt and adds the revision and its evidence.
SaveRevision(t) ==
  /\ FingerprintMatches(t) /\ Len(revisions) < MaxRevisions
  /\ Consumed(t)
  /\ revisions' = Append(revisions, [status |-> "verified", version |-> conn.version,
                                     secret |-> attempts[t].secret, attempt |-> t])
  /\ evidence' = Append(evidence, Len(revisions) + 1)
  /\ UNCHANGED <<conn, secrets, verifying, selected>>

InUse(r) == selected = r

EndRevision(r) ==
  /\ revisions[r].status \in {"verified", "new_revision_required"} /\ ~InUse(r)
  /\ revisions' = [revisions EXCEPT ![r].status = "ended"]
  /\ UNCHANGED <<conn, secrets, evidence, attempts, verifying, selected>>

\* The evidence that revision r was saved with, unless the version has changed.
EvidenceOf(r) == {i \in DOMAIN evidence : evidence[i] = r}

\* Its evidence goes with it.
DeleteRevision(r) ==
  /\ revisions[r].status = "ended" /\ ~InUse(r)
  /\ revisions' = [revisions EXCEPT ![r].status = "deleted"]
  /\ IF EvidenceOf(r) = {} THEN UNCHANGED evidence
     ELSE \E i \in EvidenceOf(r) : evidence' = RemoveAt(evidence, i)
  /\ UNCHANGED <<conn, secrets, attempts, verifying, selected>>

\* A health probe finds that the model does not do what it was verified for.
ContradictModel(r) ==
  /\ Verified(r) /\ revisions[r].version = conn.version
  /\ revisions' = [revisions EXCEPT ![r] = Outdated(r)]
  /\ UNCHANGED <<conn, secrets, evidence, attempts, verifying, selected>>

ContradictedRevisions(r) == [q \in DOMAIN revisions |->
  IF revisions[q].version = conn.version THEN Outdated(q) ELSE revisions[q]]

\* The probe fails to authenticate: it is about the connection.
ContradictConnection(r) ==
  /\ Verified(r) /\ revisions[r].version = conn.version
  /\ revisions' = ContradictedRevisions(r)
  /\ evidence' = Append(evidence, 0)
  /\ conn' = [conn EXCEPT !.status = IF @ \in {"draft", "retired"} THEN @
                                     ELSE "verification_required"]
  /\ UNCHANGED <<secrets, attempts, verifying, selected>>

StopConnection(status) ==
  /\ conn.status # "retired" /\ status \in {"suspended", "retired"}
  /\ conn' = [conn EXCEPT !.status = status]
  /\ UNCHANGED <<secrets, revisions, evidence, attempts, verifying, selected>>

ActivateConnection ==
  /\ conn.status \in {"draft", "verification_required", "suspended"} /\ conn.attested
  /\ evidence # << >> /\ evidence[Len(evidence)] # 0
  /\ \E r \in DOMAIN revisions : Verified(r) /\ revisions[r].version = conn.version
  /\ \E s \in DOMAIN secrets : Usable(s)
  /\ conn' = [conn EXCEPT !.status = "active"]
  /\ UNCHANGED <<secrets, revisions, evidence, attempts, verifying, selected>>

\* A valid attestation is registered, or its review falls due.
Attest ==
  /\ conn' = [conn EXCEPT !.attested = ~@]
  /\ UNCHANGED <<secrets, revisions, evidence, attempts, verifying, selected>>

\* saveRunProfile takes a verified revision for one of the current version.
SelectRevision(r) ==
  /\ Verified(r) /\ conn.status = "active" /\ conn.attested
  /\ \E i \in DOMAIN evidence : evidence[i] # 0
  /\ \E s \in DOMAIN secrets : Usable(s)
  /\ selected' = r
  /\ UNCHANGED <<conn, secrets, revisions, evidence, attempts, verifying>>

Deselect ==
  /\ selected # 0 /\ selected' = 0
  /\ UNCHANGED <<conn, secrets, revisions, evidence, attempts, verifying>>

TrustNext ==
  \/ UpdateConnection \/ WriteSecret \/ ActivateConnection \/ Attest \/ Deselect
  \/ \E status \in {"suspended", "retired"} : StopConnection(status)
  \/ \E s \in DOMAIN secrets : ActivateSecret(s) \/ ConfirmRevocation(s) \/ DeleteCandidate(s)
  \/ \E a \in Admins :
       StartVerification(a) \/ UseSecret(a) \/ StoreAttempt(a) \/ VerificationFails(a)
  \/ \E t \in DOMAIN attempts : DropAttempt(t) \/ SaveRevision(t)
  \/ \E r \in DOMAIN revisions :
       \/ EndRevision(r) \/ DeleteRevision(r) \/ SelectRevision(r)
       \/ ContradictModel(r) \/ ContradictConnection(r)

TrustSpec == TrustInit /\ [][TrustNext]_trustVars

-----------------------------------------------------------------------------
\* A revision counts as verified only while the configuration and the secret it
\* was verified with are the current ones, whatever was reconfigured or rotated
\* while the verification ran or waited to be saved; then the newest evidence
\* about the connection is a passed test, although other revisions are ended
\* and deleted with theirs; and one verification makes one revision, also when
\* the answer to the first save was lost (docs/governance/admin-center.md:210).
\* saveRunProfile and the administrators' list rely on it.
TrustInForce ==
  \A r \in DOMAIN revisions :
    /\ Verified(r) => /\ revisions[r].version = conn.version
                      /\ Usable(revisions[r].secret)
                      /\ evidence # << >> /\ evidence[Len(evidence)] # 0
    /\ \A q \in DOMAIN revisions : revisions[q].attempt = revisions[r].attempt => q = r

\* messages/en.json:2013: "A retired connection cannot return to an active
\* lifecycle."
RetiredForGood == [][conn.status = "retired" => conn'.status = "retired"]_trustVars
=============================================================================
