----------------------- MODULE ConnectionTrustProofs -----------------------
(***************************************************************************)
(* What the trust in an AI connection rests on, for every number of        *)
(* administrators, versions, secrets, verifications and revisions.  The    *)
(* argument follows the configuration version: whatever was read under     *)
(* the version that is current now - by a verification under way, by a     *)
(* stored attempt, by a verified revision - was read with the secret that  *)
(* is active now, because changing the secret changes the version.         *)
(***************************************************************************)
EXTENDS ConnectionTrust, SequenceTheorems, TLAPS

\* A verification uses a secret only after it has read the connection.
Started == \A a \in Admins : verifying[a].secret # 0 => verifying[a].version # 0

-----------------------------------------------------------------------------
(***************************************************************************)
(* Sequences.                                                              *)
(***************************************************************************)
\* Rows changed one by one are as many rows.
LEMMA MappedSeq ==
  ASSUME NEW S, NEW s \in Seq(S), NEW T, NEW f \in [DOMAIN s -> T]
  PROVE  f \in Seq(T) /\ Len(f) = Len(s) /\ DOMAIN f = DOMAIN s
  OBVIOUS

\* A row added leaves the others where they are.
LEMMA AppendRow ==
  ASSUME NEW S, NEW s \in Seq(S), NEW e \in S
  PROVE  /\ Append(s, e) \in Seq(S) /\ Len(Append(s, e)) = Len(s) + 1
         /\ DOMAIN Append(s, e) = DOMAIN s \cup {Len(s) + 1}
         /\ Len(s) + 1 \notin DOMAIN s
         /\ Append(s, e)[Len(s) + 1] = e
         /\ \A i \in DOMAIN s : Append(s, e)[i] = s[i]
  OBVIOUS

\* A row rewritten leaves the others as they are.
LEMMA ExceptRow ==
  ASSUME NEW S, NEW s \in Seq(S), NEW i \in DOMAIN s, NEW e \in S
  PROVE  /\ [s EXCEPT ![i] = e] \in Seq(S) /\ Len([s EXCEPT ![i] = e]) = Len(s)
         /\ DOMAIN [s EXCEPT ![i] = e] = DOMAIN s
         /\ \A j \in DOMAIN s : [s EXCEPT ![i] = e][j] = IF j = i THEN e ELSE s[j]
  BY ExceptSeq, LenProperties

\* The entries after a removed one move up.
LEMMA RemovedAt ==
  ASSUME NEW S, NEW s \in Seq(S), NEW i \in DOMAIN s
  PROVE  /\ RemoveAt(s, i) \in Seq(S) /\ Len(RemoveAt(s, i)) = Len(s) - 1
         /\ \A k \in 1 .. Len(s) - 1 :
              RemoveAt(s, i)[k] = IF k < i THEN s[k] ELSE s[k + 1]
<1>. DEFINE a == SubSeq(s, 1, i - 1)
            b == SubSeq(s, i + 1, Len(s))
<1>0. Len(s) \in Nat /\ i \in 1 .. Len(s)
  BY LenProperties
<1>1. /\ a \in Seq(S) /\ Len(a) = i - 1
      /\ \A k \in 1 .. i - 1 : a[k] = s[k]
  BY <1>0, SubSeqProperties, ElementOfSeq
<1>2. /\ b \in Seq(S) /\ Len(b) = Len(s) - i
      /\ \A k \in 1 .. Len(s) - i : b[k] = s[i + k]
  BY <1>0, SubSeqProperties, ElementOfSeq
<1>3. RemoveAt(s, i) = a \o b
  BY DEF RemoveAt
<1>. HIDE DEF a, b
<1>4. /\ a \o b \in Seq(S) /\ Len(a \o b) = Len(s) - 1
      /\ \A k \in 1 .. Len(s) - 1 :
           (a \o b)[k] = IF k <= i - 1 THEN a[k] ELSE b[k - (i - 1)]
  BY <1>0, <1>1, <1>2, ConcatProperties
<1>5. ASSUME NEW k \in 1 .. Len(s) - 1, k >= i
      PROVE  b[k - (i - 1)] = s[k + 1]
  <2>1. k - (i - 1) \in 1 .. Len(s) - i /\ i + (k - (i - 1)) = k + 1
    BY <1>0, <1>5
  <2>. QED  BY <1>2, <2>1
<1>. QED  BY <1>0, <1>1, <1>3, <1>4, <1>5

-----------------------------------------------------------------------------
(***************************************************************************)
(* Types.                                                                  *)
(***************************************************************************)
\* What the type invariant says of the three tables.
LEMMA Tables ==
  ASSUME TrustTypeOK
  PROVE  /\ secrets \in Seq(Secret) /\ revisions \in Seq(Revision)
         /\ attempts \in Seq(Attempt) /\ evidence \in Seq(0 .. MaxRevisions)
         /\ conn.version \in 1 .. MaxVersion
         /\ Len(secrets) \in Nat /\ Len(revisions) \in Nat /\ Len(attempts) \in Nat
         /\ \A s \in DOMAIN secrets : secrets[s] \in Secret /\ s \in 1 .. MaxSecrets
         /\ \A r \in DOMAIN revisions : revisions[r] \in Revision /\ r \in 1 .. MaxRevisions
         /\ \A t \in DOMAIN attempts : attempts[t] \in Attempt /\ t \in 1 .. MaxAttempts
  BY TrustAssumption DEF TrustTypeOK, Connection

LEMMA InitTypes == TrustInit => TrustTypeOK
  BY TrustAssumption, EmptySeq DEF TrustInit, TrustTypeOK, NotVerifying, Connection

\* A revision that is out of date keeps everything but its status.
LEMMA OutdatedRow ==
  ASSUME TrustTypeOK, NEW r \in DOMAIN revisions
  PROVE  /\ Outdated(r) \in Revision /\ Outdated(r).status # "verified"
         /\ Outdated(r).version = revisions[r].version
         /\ Outdated(r).attempt = revisions[r].attempt
         /\ Outdated(r).secret = revisions[r].secret
<1>1. revisions[r] \in Revision
  BY Tables
<1>. QED  BY <1>1 DEF Outdated, Verified, Revision

LEMMA ReconfiguredFacts ==
  ASSUME TrustTypeOK, NEW status \in {"draft", "verification_required"},
         Reconfigured(status)
  PROVE  /\ conn' \in Connection
         /\ conn'.version = conn.version + 1
         /\ revisions' \in Seq(Revision) /\ DOMAIN revisions' = DOMAIN revisions
         /\ Len(revisions') = Len(revisions)
         /\ \A r \in DOMAIN revisions : /\ revisions'[r].status # "verified"
                                        /\ revisions'[r].attempt = revisions[r].attempt
         /\ evidence' = << >>
<1>1. [r \in DOMAIN revisions |-> Outdated(r)] \in [DOMAIN revisions -> Revision]
  BY OutdatedRow
<1>2. /\ revisions' \in Seq(Revision) /\ DOMAIN revisions' = DOMAIN revisions
      /\ Len(revisions') = Len(revisions)
  BY <1>1, Tables, MappedSeq DEF Reconfigured
<1>3. \A r \in DOMAIN revisions : revisions'[r] = Outdated(r)
  BY DEF Reconfigured
<1>4. /\ conn' \in Connection /\ conn'.version = conn.version + 1
  <2>1. conn.version + 1 \in 1 .. MaxVersion
    BY TrustAssumption DEF Reconfigured, TrustTypeOK, Connection
  <2>. QED  BY <2>1 DEF Reconfigured, TrustTypeOK, Connection
<1>5. evidence' = << >>
  BY DEF Reconfigured
<1>. QED  BY <1>2, <1>3, <1>4, <1>5, OutdatedRow

LEMMA ReverifyStatus == Reverify \in {"draft", "verification_required"}
  BY DEF Reverify

\* Every step is well typed.
LEMMA NextTypes == TrustTypeOK /\ Started /\ [TrustNext]_trustVars => TrustTypeOK'
<1>. SUFFICES ASSUME TrustTypeOK, Started, [TrustNext]_trustVars PROVE TrustTypeOK'
  OBVIOUS
<1>. USE DEF TrustTypeOK
<1>0. << >> \in Seq(0 .. MaxRevisions)
  BY EmptySeq
<1>1. CASE UpdateConnection
  <2>1. Reconfigured(Reverify)
    BY <1>1 DEF UpdateConnection
  <2>. QED  BY <1>0, <1>1, <2>1, ReverifyStatus, ReconfiguredFacts DEF UpdateConnection
<1>2. CASE WriteSecret
  <2>1. [status |-> "candidate", material |-> TRUE] \in Secret
    BY Tables DEF Secret
  <2>2. secrets' \in Seq(Secret) /\ Len(secrets') = Len(secrets) + 1
    BY <1>2, <2>1, AppendRow DEF WriteSecret
  <2>. QED  BY <1>2, <2>2, Tables, TrustAssumption DEF WriteSecret
<1>3. CASE ActivateConnection \/ Attest \/ Deselect
  <2>1. CASE ActivateConnection
    BY <2>1 DEF ActivateConnection, Connection
  <2>2. CASE Attest
    <3>1. (~conn.attested) \in BOOLEAN
      OBVIOUS
    <3>2. \A b \in BOOLEAN : [conn EXCEPT !.attested = b] \in Connection
      BY DEF Connection
    <3>. QED  BY <2>2, <3>1, <3>2 DEF Attest
  <2>3. CASE Deselect
    BY <2>3, TrustAssumption DEF Deselect
  <2>. QED  BY <1>3, <2>1, <2>2, <2>3
<1>4. ASSUME NEW status \in {"suspended", "retired"}, StopConnection(status)
      PROVE  TrustTypeOK'
  BY <1>4 DEF StopConnection, Connection
<1>5. ASSUME NEW s \in DOMAIN secrets, ActivateSecret(s)
      PROVE  TrustTypeOK'
  <2>1. secrets' \in [DOMAIN secrets -> Secret]
    BY <1>5, Tables DEF ActivateSecret, Secret
  <2>2. secrets' \in Seq(Secret) /\ Len(secrets') = Len(secrets)
    BY <2>1, MappedSeq, Tables
  <2>3. Reconfigured(Reverify)
    BY <1>5 DEF ActivateSecret
  <2>. QED  BY <1>0, <1>5, <2>2, <2>3, ReverifyStatus, ReconfiguredFacts DEF ActivateSecret
<1>6. ASSUME NEW s \in DOMAIN secrets, ConfirmRevocation(s) \/ DeleteCandidate(s)
      PROVE  TrustTypeOK'
  <2>1. /\ [secrets[s] EXCEPT !.material = FALSE] \in Secret
        /\ [secrets[s] EXCEPT !.status = "deleted"] \in Secret
    BY Tables DEF Secret
  <2>2. \E row \in Secret : secrets' = [secrets EXCEPT ![s] = row]
    BY <1>6, <2>1 DEF ConfirmRevocation, DeleteCandidate
  <2>3. secrets' \in Seq(Secret) /\ Len(secrets') = Len(secrets)
    BY <2>2, ExceptRow
  <2>. QED  BY <1>6, <2>3 DEF ConfirmRevocation, DeleteCandidate
<1>7. ASSUME NEW a \in Admins, StartVerification(a) \/ UseSecret(a) \/ VerificationFails(a)
      PROVE  TrustTypeOK'
  <2>1. conn.version \in 0 .. MaxVersion /\ NotVerifying \in [version : 0 .. MaxVersion, secret : 0 .. MaxSecrets]
        /\ DOMAIN secrets \subseteq 0 .. MaxSecrets
    BY Tables, TrustAssumption DEF NotVerifying
  <2>2. CASE StartVerification(a)
    BY <2>1, <2>2 DEF StartVerification
  <2>3. CASE UseSecret(a)
    BY <2>1, <2>3 DEF UseSecret
  <2>4. CASE VerificationFails(a)
    BY <2>1, <2>4 DEF VerificationFails
  <2>. QED  BY <1>7, <2>2, <2>3, <2>4
<1>8. ASSUME NEW a \in Admins, StoreAttempt(a)
      PROVE  TrustTypeOK'
  <2>1. [pending |-> TRUE, version |-> verifying[a].version, secret |-> verifying[a].secret]
          \in Attempt
    BY <1>8, TrustAssumption DEF StoreAttempt, Attempt, Started
  <2>2. attempts' \in Seq(Attempt) /\ Len(attempts') = Len(attempts) + 1
    BY <1>8, <2>1, AppendRow DEF StoreAttempt
  <2>3. Len(attempts') <= MaxAttempts
    BY <1>8, <2>2, Tables, TrustAssumption DEF StoreAttempt
  <2>4. verifying' \in [Admins -> [version : 0 .. MaxVersion, secret : 0 .. MaxSecrets]]
    BY <1>8, TrustAssumption DEF StoreAttempt, NotVerifying
  <2>. QED  BY <1>8, <2>2, <2>3, <2>4 DEF StoreAttempt
<1>9. ASSUME NEW t \in DOMAIN attempts, DropAttempt(t) \/ SaveRevision(t)
      PROVE  TrustTypeOK'
  <2>1. attempts' \in Seq(Attempt) /\ Len(attempts') = Len(attempts)
    <3>1. [attempts[t] EXCEPT !.pending = FALSE] \in Attempt
      BY Tables DEF Attempt
    <3>2. attempts' = [attempts EXCEPT ![t] = [attempts[t] EXCEPT !.pending = FALSE]]
      BY <1>9 DEF DropAttempt, SaveRevision, Consumed
    <3>. QED  BY <3>1, <3>2, ExceptRow, Tables
  <2>2. CASE DropAttempt(t)
    BY <2>1, <2>2 DEF DropAttempt
  <2>3. CASE SaveRevision(t)
    <3>1. [status |-> "verified", version |-> conn.version, secret |-> attempts[t].secret,
           attempt |-> t] \in Revision
      BY Tables DEF Revision, Attempt
    <3>2. revisions' \in Seq(Revision) /\ Len(revisions') = Len(revisions) + 1
      BY <2>3, <3>1, AppendRow DEF SaveRevision
    <3>3. Len(revisions) + 1 \in 0 .. MaxRevisions
      BY <2>3, Tables, TrustAssumption DEF SaveRevision
    <3>4. evidence' \in Seq(0 .. MaxRevisions)
      BY <2>3, <3>3, AppendRow DEF SaveRevision
    <3>. QED  BY <2>1, <2>3, <3>2, <3>3, <3>4 DEF SaveRevision
  <2>. QED  BY <1>9, <2>2, <2>3
<1>10. ASSUME NEW r \in DOMAIN revisions, EndRevision(r) \/ DeleteRevision(r) \/ ContradictModel(r)
       PROVE  TrustTypeOK'
  <2>1. revisions' \in Seq(Revision) /\ Len(revisions') = Len(revisions)
    <3>1. /\ [revisions[r] EXCEPT !.status = "ended"] \in Revision
          /\ [revisions[r] EXCEPT !.status = "deleted"] \in Revision
      BY Tables DEF Revision
    <3>2. \E row \in Revision : revisions' = [revisions EXCEPT ![r] = row]
      BY <1>10, <3>1, OutdatedRow DEF EndRevision, DeleteRevision, ContradictModel
    <3>. QED  BY <3>2, ExceptRow, Tables
  <2>2. evidence' \in Seq(0 .. MaxRevisions)
    BY <1>10, RemovedAt, Tables DEF EndRevision, DeleteRevision, ContradictModel, EvidenceOf
  <2>. QED  BY <1>10, <2>1, <2>2 DEF EndRevision, DeleteRevision, ContradictModel
<1>11. ASSUME NEW r \in DOMAIN revisions, ContradictConnection(r)
       PROVE  TrustTypeOK'
  <2>1. revisions' \in [DOMAIN revisions -> Revision]
    BY <1>11, OutdatedRow DEF ContradictConnection, ContradictedRevisions
  <2>2. revisions' \in Seq(Revision) /\ Len(revisions') = Len(revisions)
    BY <2>1, MappedSeq, Tables
  <2>3. evidence' \in Seq(0 .. MaxRevisions)
    <3>1. 0 \in 0 .. MaxRevisions
      BY TrustAssumption
    <3>. QED  BY <1>11, <3>1, AppendRow DEF ContradictConnection
  <2>4. conn' \in Connection
    BY <1>11 DEF ContradictConnection, Connection
  <2>. QED  BY <1>11, <2>2, <2>3, <2>4 DEF ContradictConnection
<1>12. ASSUME NEW r \in DOMAIN revisions, SelectRevision(r)
       PROVE  TrustTypeOK'
  BY <1>12, Tables DEF SelectRevision
<1>13. CASE UNCHANGED trustVars
  BY <1>13 DEF trustVars
<1>. QED
  BY <1>1, <1>2, <1>3, <1>4, <1>5, <1>6, <1>7, <1>8, <1>9, <1>10, <1>11, <1>12, <1>13
  DEF TrustNext

-----------------------------------------------------------------------------
(***************************************************************************)
(* The secret of the current version.                                      *)
(***************************************************************************)
\* What was read under version v used secret s, which is the active one still
\* if v is still the current version.
ReadUnder(current, rows, v, s) ==
  /\ v <= current
  /\ v = current => s \in DOMAIN rows /\ rows[s].status = "active" /\ rows[s].material

ReadWith(v, s) == ReadUnder(conn.version, secrets, v, s)

VerifyingGood ==
  \A a \in Admins :
    /\ verifying[a].version <= conn.version
    /\ verifying[a].secret # 0 => ReadWith(verifying[a].version, verifying[a].secret)

AttemptsGood == \A t \in DOMAIN attempts : ReadWith(attempts[t].version, attempts[t].secret)

\* The evidence of a revision, and no contradiction after it.
BackedIn(e, r) == \E i \in DOMAIN e : e[i] = r /\ \A j \in DOMAIN e : j >= i => e[j] # 0

Backed(r) == BackedIn(evidence, r)

RevisionGood(r) ==
  Verified(r) => /\ revisions[r].version = conn.version
                 /\ ReadWith(revisions[r].version, revisions[r].secret)
                 /\ Backed(r)

RevisionsGood == \A r \in DOMAIN revisions : RevisionGood(r)

\* An attempt that a revision was made from is spent, and on that one only.
SpentOnce ==
  \A r \in DOMAIN revisions :
    /\ revisions[r].attempt \in DOMAIN attempts
    /\ ~attempts[revisions[r].attempt].pending
    /\ \A q \in DOMAIN revisions : revisions[q].attempt = revisions[r].attempt => q = r

TrustIInv ==
  TrustTypeOK /\ Started /\ VerifyingGood /\ AttemptsGood /\ RevisionsGood /\ SpentOnce

\* A step either changes the version, and then nobody is verified, or leaves
\* the active secret alone.
LEMMA VersionStep ==
  ASSUME TrustTypeOK, [TrustNext]_trustVars
  PROVE  \/ /\ conn'.version = conn.version + 1
            /\ DOMAIN revisions' = DOMAIN revisions /\ evidence' = << >>
            /\ \A r \in DOMAIN revisions : /\ revisions'[r].status # "verified"
                                           /\ revisions'[r].attempt = revisions[r].attempt
            /\ UNCHANGED <<attempts, verifying, selected>>
         \/ /\ conn'.version = conn.version
            /\ \A s \in DOMAIN secrets :
                 s \in DOMAIN secrets' /\ (Usable(s) => Usable(s)')
<1>. DEFINE Kept == /\ conn'.version = conn.version
                    /\ \A s \in DOMAIN secrets :
                         s \in DOMAIN secrets' /\ (Usable(s) => Usable(s)')
<1>1. CASE UpdateConnection
  BY <1>1, ReverifyStatus, ReconfiguredFacts DEF UpdateConnection
<1>2. CASE WriteSecret
  <2>1. [status |-> "candidate", material |-> TRUE] \in Secret
    BY DEF Secret
  <2>2. \A s \in DOMAIN secrets : s \in DOMAIN secrets' /\ secrets'[s] = secrets[s]
    BY <1>2, <2>1, AppendRow, Tables DEF WriteSecret
  <2>3. Kept
    BY <1>2, <2>2 DEF WriteSecret, Usable
  <2>. QED  BY <2>3
<1>3. ASSUME NEW s \in DOMAIN secrets, ActivateSecret(s)
      PROVE  /\ conn'.version = conn.version + 1
             /\ DOMAIN revisions' = DOMAIN revisions /\ evidence' = << >>
             /\ \A r \in DOMAIN revisions : /\ revisions'[r].status # "verified"
                                            /\ revisions'[r].attempt = revisions[r].attempt
             /\ UNCHANGED <<attempts, verifying, selected>>
  BY <1>3, ReverifyStatus, ReconfiguredFacts DEF ActivateSecret
<1>4. ASSUME NEW s \in DOMAIN secrets, ConfirmRevocation(s) \/ DeleteCandidate(s)
      PROVE  Kept
  BY <1>4, Tables DEF ConfirmRevocation, DeleteCandidate, Usable, Secret
<1>5. CASE UNCHANGED secrets /\ conn'.version = conn.version
  <2>1. Kept
    BY <1>5 DEF Usable
  <2>. QED  BY <2>1
<1>6. CASE \E status \in {"suspended", "retired"} : StopConnection(status)
  <2>1. Kept
    BY <1>6 DEF StopConnection, Usable, TrustTypeOK, Connection
  <2>. QED  BY <2>1
<1>7. CASE ActivateConnection \/ Attest \/ \E r \in DOMAIN revisions : ContradictConnection(r)
  <2>1. Kept
    BY <1>7 DEF ActivateConnection, Attest, ContradictConnection, Usable, TrustTypeOK, Connection
  <2>. QED  BY <2>1
<1>. QED
  BY <1>1, <1>2, <1>3, <1>4, <1>5, <1>6, <1>7
  DEF TrustNext, trustVars, Deselect, StartVerification, UseSecret, StoreAttempt,
      VerificationFails, DropAttempt, SaveRevision, EndRevision, DeleteRevision,
      SelectRevision, ContradictModel

LEMMA ReadStep ==
  ASSUME TrustTypeOK, [TrustNext]_trustVars
  PROVE  \A v \in Nat : \A s : ReadWith(v, s) => ReadUnder(conn'.version, secrets', v, s)
<1>1. conn.version \in Nat
  BY Tables, TrustAssumption
<1>. QED  BY <1>1, VersionStep DEF ReadWith, ReadUnder, Usable

\* Which verifications a step starts, carries on or ends.
LEMMA VerifyingSteps ==
  ASSUME TrustTypeOK, [TrustNext]_trustVars, NEW a \in Admins
  PROVE  \/ verifying'[a] = verifying[a] \/ verifying'[a] = NotVerifying
         \/ verifying'[a].version = conn.version /\ verifying'[a].secret = 0
         \/ /\ verifying[a].version # 0 /\ verifying'[a].version = verifying[a].version
            /\ verifying'[a].secret \in DOMAIN secrets /\ Usable(verifying'[a].secret)
<1>. USE DEF TrustTypeOK
<1>1. ASSUME NEW b \in Admins, StartVerification(b)
      PROVE  \/ verifying'[a] = verifying[a]
             \/ verifying'[a].version = conn.version /\ verifying'[a].secret = 0
  BY <1>1 DEF StartVerification, NotVerifying
<1>2. ASSUME NEW b \in Admins, UseSecret(b)
      PROVE  \/ verifying'[a] = verifying[a]
             \/ /\ verifying[a].version # 0 /\ verifying'[a].version = verifying[a].version
                /\ verifying'[a].secret \in DOMAIN secrets /\ Usable(verifying'[a].secret)
  <2>1. PICK s \in DOMAIN secrets :
          Usable(s) /\ verifying' = [verifying EXCEPT ![b].secret = s]
    BY <1>2 DEF UseSecret
  <2>2. /\ verifying'[b].secret = s /\ verifying'[b].version = verifying[b].version
        /\ a # b => verifying'[a] = verifying[a]
    BY <2>1
  <2>. QED  BY <1>2, <2>1, <2>2 DEF UseSecret
<1>3. ASSUME NEW b \in Admins, StoreAttempt(b) \/ VerificationFails(b)
      PROVE  verifying'[a] = verifying[a] \/ verifying'[a] = NotVerifying
  BY <1>3 DEF StoreAttempt, VerificationFails
<1>4. CASE UNCHANGED verifying
  BY <1>4
<1>. QED
  BY <1>1, <1>2, <1>3, <1>4
  DEF TrustNext, trustVars, UpdateConnection, WriteSecret, ActivateSecret, ConfirmRevocation,
      DeleteCandidate, ActivateConnection, Attest, Deselect, StopConnection, DropAttempt,
      SaveRevision, EndRevision, DeleteRevision, SelectRevision, ContradictModel,
      ContradictConnection

\* A verification under way has read no later version than the current one.
LEMMA VerifyingStep ==
  ASSUME TrustTypeOK, Started, VerifyingGood, [TrustNext]_trustVars
  PROVE  Started' /\ VerifyingGood'
<1>. SUFFICES ASSUME NEW a \in Admins
              PROVE  /\ verifying'[a].secret # 0 => verifying'[a].version # 0
                     /\ verifying'[a].version <= conn'.version
                     /\ verifying'[a].secret # 0 =>
                          ReadUnder(conn'.version, secrets', verifying'[a].version,
                                    verifying'[a].secret)
  BY DEF Started, VerifyingGood, ReadWith
<1>0. /\ conn.version \in Nat /\ verifying[a].version \in Nat
      /\ verifying[a].version <= conn.version
      /\ verifying[a].secret # 0 => verifying[a].version # 0
      /\ verifying[a].secret # 0 => ReadWith(verifying[a].version, verifying[a].secret)
  BY Tables, TrustAssumption DEF TrustTypeOK, Started, VerifyingGood
<1>1. conn'.version \in {conn.version, conn.version + 1}
  BY VersionStep
<1>2. CASE verifying'[a] = verifying[a]
  BY <1>0, <1>1, <1>2, ReadStep
<1>3. CASE verifying'[a] = NotVerifying
  BY <1>0, <1>1, <1>3 DEF NotVerifying
<1>4. CASE verifying'[a].version = conn.version /\ verifying'[a].secret = 0
  BY <1>0, <1>1, <1>4
<1>5. CASE /\ verifying[a].version # 0 /\ verifying'[a].version = verifying[a].version
           /\ verifying'[a].secret \in DOMAIN secrets /\ Usable(verifying'[a].secret)
  <2>1. ReadWith(verifying[a].version, verifying'[a].secret)
    BY <1>0, <1>5 DEF ReadWith, ReadUnder, Usable
  <2>2. ReadUnder(conn'.version, secrets', verifying[a].version, verifying'[a].secret)
    BY <1>0, <2>1, ReadStep
  <2>. QED  BY <1>0, <1>1, <1>5, <2>2
<1>. QED  BY <1>2, <1>3, <1>4, <1>5, VerifyingSteps

\* An attempt is stored with what its verification has read, and is not
\* changed but for being spent.
LEMMA AttemptSteps ==
  ASSUME TrustTypeOK, Started, VerifyingGood, [TrustNext]_trustVars
  PROVE  /\ DOMAIN attempts \subseteq DOMAIN attempts'
         /\ \A t \in DOMAIN attempts :
              /\ attempts'[t].version = attempts[t].version
              /\ attempts'[t].secret = attempts[t].secret
              /\ ~attempts[t].pending => ~attempts'[t].pending
         /\ \A t \in DOMAIN attempts' \ DOMAIN attempts :
              \E a \in Admins : /\ verifying[a].secret # 0
                                /\ attempts'[t].version = verifying[a].version
                                /\ attempts'[t].secret = verifying[a].secret
<1>1. ASSUME NEW a \in Admins, StoreAttempt(a)
      PROVE  /\ DOMAIN attempts \subseteq DOMAIN attempts'
             /\ \A t \in DOMAIN attempts : attempts'[t] = attempts[t]
             /\ \A t \in DOMAIN attempts' \ DOMAIN attempts :
                  /\ verifying[a].secret # 0
                  /\ attempts'[t].version = verifying[a].version
                  /\ attempts'[t].secret = verifying[a].secret
  <2>. DEFINE e == [pending |-> TRUE, version |-> verifying[a].version,
                    secret |-> verifying[a].secret]
  <2>0. attempts' = Append(attempts, e) /\ verifying[a].secret # 0
    BY <1>1 DEF StoreAttempt
  <2>1. e \in Attempt
    BY <2>0, TrustAssumption DEF Attempt, Started, TrustTypeOK
  <2>2. e.version = verifying[a].version /\ e.secret = verifying[a].secret
    OBVIOUS
  <2>. HIDE DEF e
  <2>. QED  BY <2>0, <2>1, <2>2, AppendRow, Tables
<1>2. ASSUME NEW t \in DOMAIN attempts, DropAttempt(t) \/ SaveRevision(t)
      PROVE  /\ DOMAIN attempts' = DOMAIN attempts
             /\ \A u \in DOMAIN attempts :
                  /\ attempts'[u].version = attempts[u].version
                  /\ attempts'[u].secret = attempts[u].secret
                  /\ ~attempts[u].pending => ~attempts'[u].pending
  <2>1. attempts' = [attempts EXCEPT ![t].pending = FALSE]
    BY <1>2 DEF DropAttempt, SaveRevision, Consumed
  <2>. QED  BY <2>1, Tables DEF Attempt
<1>3. CASE UNCHANGED attempts
  BY <1>3
<1>. QED
  BY <1>1, <1>2, <1>3
  DEF TrustNext, trustVars, UpdateConnection, WriteSecret, ActivateSecret, ConfirmRevocation,
      DeleteCandidate, ActivateConnection, Attest, Deselect, StopConnection, Reconfigured,
      StartVerification, UseSecret, VerificationFails, EndRevision, DeleteRevision,
      SelectRevision, ContradictModel, ContradictConnection

LEMMA AttemptsStep ==
  ASSUME TrustTypeOK, Started, VerifyingGood, AttemptsGood, [TrustNext]_trustVars
  PROVE  AttemptsGood'
<1>. SUFFICES ASSUME NEW t \in DOMAIN attempts'
              PROVE  ReadUnder(conn'.version, secrets', attempts'[t].version, attempts'[t].secret)
  BY DEF AttemptsGood, ReadWith
<1>1. CASE t \in DOMAIN attempts
  <2>1. attempts[t].version \in Nat /\ ReadWith(attempts[t].version, attempts[t].secret)
    BY <1>1, Tables DEF AttemptsGood, Attempt
  <2>. QED  BY <1>1, <2>1, ReadStep, AttemptSteps
<1>2. CASE t \notin DOMAIN attempts
  <2>1. PICK a \in Admins : /\ verifying[a].secret # 0
                            /\ attempts'[t].version = verifying[a].version
                            /\ attempts'[t].secret = verifying[a].secret
    BY <1>2, AttemptSteps
  <2>2. /\ verifying[a].version \in Nat
        /\ ReadWith(verifying[a].version, verifying[a].secret)
    BY <2>1 DEF VerifyingGood, TrustTypeOK
  <2>. QED  BY <2>1, <2>2, ReadStep
<1>. QED  BY <1>1, <1>2

-----------------------------------------------------------------------------
(***************************************************************************)
(* Revisions, their attempts and their evidence.                           *)
(***************************************************************************)
\* What saving adds.
LEMMA SavedFacts ==
  ASSUME TrustTypeOK, NEW t \in DOMAIN attempts, SaveRevision(t)
  PROVE  /\ attempts[t].pending /\ attempts[t].version = conn.version
         /\ DOMAIN revisions' = DOMAIN revisions \cup {Len(revisions) + 1}
         /\ Len(revisions) + 1 \notin DOMAIN revisions
         /\ \A r \in DOMAIN revisions : revisions'[r] = revisions[r]
         /\ revisions'[Len(revisions) + 1].version = conn.version
         /\ revisions'[Len(revisions) + 1].secret = attempts[t].secret
         /\ revisions'[Len(revisions) + 1].attempt = t
         /\ DOMAIN attempts' = DOMAIN attempts
         /\ ~attempts'[t].pending
         /\ UNCHANGED <<conn, secrets>>
<1>. DEFINE row == [status |-> "verified", version |-> conn.version,
                    secret |-> attempts[t].secret, attempt |-> t]
<1>1. row \in Revision
  BY Tables DEF Revision, Attempt
<1>2. revisions' = Append(revisions, row)
  BY DEF SaveRevision
<1>3. attempts' = [attempts EXCEPT ![t].pending = FALSE]
  BY DEF SaveRevision, Consumed
<1>4. DOMAIN attempts' = DOMAIN attempts /\ ~attempts'[t].pending
  BY <1>3, Tables DEF Attempt
<1>. HIDE DEF row
<1>5. /\ DOMAIN revisions' = DOMAIN revisions \cup {Len(revisions) + 1}
      /\ Len(revisions) + 1 \notin DOMAIN revisions
      /\ \A r \in DOMAIN revisions : revisions'[r] = revisions[r]
      /\ revisions'[Len(revisions) + 1] = row
  BY <1>1, <1>2, AppendRow, Tables
<1>. QED  BY <1>4, <1>5 DEF SaveRevision, FingerprintMatches, row

\* What the other steps do to the revisions: none is added, none becomes
\* verified, and each remembers its attempt, version and secret.
LEMMA RevisionSteps ==
  ASSUME TrustTypeOK, [TrustNext]_trustVars
  PROVE  \/ \E t \in DOMAIN attempts : SaveRevision(t)
         \/ conn'.version = conn.version + 1
         \/ /\ DOMAIN revisions' = DOMAIN revisions
            /\ \A r \in DOMAIN revisions :
                 /\ revisions'[r].attempt = revisions[r].attempt
                 /\ revisions'[r].version = revisions[r].version
                 /\ revisions'[r].secret = revisions[r].secret
                 /\ revisions'[r].status = "verified" => Verified(r)
<1>. DEFINE Same == /\ DOMAIN revisions' = DOMAIN revisions
                    /\ \A r \in DOMAIN revisions :
                         /\ revisions'[r].attempt = revisions[r].attempt
                         /\ revisions'[r].version = revisions[r].version
                         /\ revisions'[r].secret = revisions[r].secret
                         /\ revisions'[r].status = "verified" => Verified(r)
<1>1. ASSUME NEW r \in DOMAIN revisions,
             EndRevision(r) \/ DeleteRevision(r) \/ ContradictModel(r)
      PROVE  Same
  <2>1. \E row \in Revision :
          /\ revisions' = [revisions EXCEPT ![r] = row]
          /\ row.attempt = revisions[r].attempt /\ row.version = revisions[r].version
          /\ row.secret = revisions[r].secret /\ row.status # "verified"
    <3>1. CASE EndRevision(r)
      <4>1. [revisions[r] EXCEPT !.status = "ended"] \in Revision
        BY Tables DEF Revision
      <4>. QED  BY <3>1, <4>1 DEF EndRevision, Revision
    <3>2. CASE DeleteRevision(r)
      <4>1. [revisions[r] EXCEPT !.status = "deleted"] \in Revision
        BY Tables DEF Revision
      <4>. QED  BY <3>2, <4>1 DEF DeleteRevision, Revision
    <3>3. CASE ContradictModel(r)
      BY <3>3, OutdatedRow DEF ContradictModel
    <3>. QED  BY <1>1, <3>1, <3>2, <3>3
  <2>. QED  BY <2>1 DEF Verified
<1>2. ASSUME NEW r \in DOMAIN revisions, ContradictConnection(r)
      PROVE  Same
  BY <1>2, Tables, OutdatedRow DEF ContradictConnection, ContradictedRevisions, Verified
<1>3. CASE UNCHANGED revisions
  BY <1>3 DEF Verified
<1>4. CASE UpdateConnection \/ \E s \in DOMAIN secrets : ActivateSecret(s)
  BY <1>4, ReverifyStatus, ReconfiguredFacts DEF UpdateConnection, ActivateSecret
<1>5. \/ \E t \in DOMAIN attempts : SaveRevision(t)
      \/ UpdateConnection \/ \E s \in DOMAIN secrets : ActivateSecret(s)
      \/ \E r \in DOMAIN revisions :
           \/ EndRevision(r) \/ DeleteRevision(r) \/ ContradictModel(r)
           \/ ContradictConnection(r)
      \/ UNCHANGED revisions
  BY DEF TrustNext, trustVars, WriteSecret, ConfirmRevocation, DeleteCandidate,
         ActivateConnection, Attest, Deselect, StopConnection, StartVerification, UseSecret,
         StoreAttempt, VerificationFails, DropAttempt, SelectRevision
<1>. QED  BY <1>1, <1>2, <1>3, <1>4, <1>5

\* One attempt, one revision.
LEMMA SpentStep ==
  ASSUME TrustTypeOK, Started, VerifyingGood, SpentOnce, [TrustNext]_trustVars
  PROVE  SpentOnce'
<1>0. /\ DOMAIN attempts \subseteq DOMAIN attempts'
      /\ \A t \in DOMAIN attempts : ~attempts[t].pending => ~attempts'[t].pending
  BY AttemptSteps
<1>1. ASSUME NEW t \in DOMAIN attempts, SaveRevision(t)
      PROVE  SpentOnce'
  <2>. DEFINE new == Len(revisions) + 1
  <2>1. /\ attempts[t].pending /\ ~attempts'[t].pending /\ t \in DOMAIN attempts'
        /\ DOMAIN revisions' = DOMAIN revisions \cup {new} /\ new \notin DOMAIN revisions
        /\ \A r \in DOMAIN revisions : revisions'[r] = revisions[r]
        /\ revisions'[new].attempt = t
    BY <1>1, SavedFacts
  <2>. HIDE DEF new
  <2>2. \A r \in DOMAIN revisions : revisions[r].attempt # t
    BY <2>1 DEF SpentOnce
  <2>. QED  BY <1>0, <2>1, <2>2 DEF SpentOnce
<1>2. CASE /\ DOMAIN revisions' = DOMAIN revisions
           /\ \A r \in DOMAIN revisions : revisions'[r].attempt = revisions[r].attempt
  BY <1>0, <1>2 DEF SpentOnce
<1>3. CASE conn'.version = conn.version + 1
  <2>1. conn.version \in Nat
    BY Tables, TrustAssumption
  <2>. QED  BY <1>2, <1>3, <2>1, VersionStep
<1>. QED  BY <1>1, <1>2, <1>3, RevisionSteps

\* Later evidence that contradicts nothing leaves a revision backed.
LEMMA BackedAppend ==
  ASSUME NEW e \in Seq(Nat), NEW x \in Nat \ {0}, NEW r
  PROVE  /\ BackedIn(e, r) => BackedIn(Append(e, x), r)
         /\ BackedIn(Append(e, x), x)
<1>. DEFINE f == Append(e, x)
<1>1. /\ Len(e) \in Nat /\ DOMAIN e = 1 .. Len(e) /\ DOMAIN f = 1 .. Len(e) + 1
      /\ f[Len(e) + 1] = x /\ \A i \in DOMAIN e : f[i] = e[i]
  BY AppendRow, LenProperties
<1>. HIDE DEF f
<1>2. ASSUME BackedIn(e, r)
      PROVE  BackedIn(f, r)
  <2>1. PICK i \in DOMAIN e : e[i] = r /\ \A j \in DOMAIN e : j >= i => e[j] # 0
    BY <1>2 DEF BackedIn
  <2>2. i \in DOMAIN f /\ f[i] = r
    BY <1>1, <2>1
  <2>3. \A j \in DOMAIN f : j >= i => f[j] # 0
    BY <1>1, <2>1
  <2>. QED  BY <2>2, <2>3 DEF BackedIn
<1>3. BackedIn(f, x)
  <2>1. Len(e) + 1 \in DOMAIN f /\ \A j \in DOMAIN f : j >= Len(e) + 1 => j = Len(e) + 1
    BY <1>1
  <2>. QED  BY <1>1, <2>1 DEF BackedIn
<1>. QED  BY <1>2, <1>3 DEF f

\* So does the removal of what another revision was saved with.
LEMMA BackedRemove ==
  ASSUME NEW e \in Seq(Nat), NEW k \in DOMAIN e, NEW r, e[k] # r, BackedIn(e, r)
  PROVE  BackedIn(RemoveAt(e, k), r)
<1>. DEFINE f == RemoveAt(e, k)
<1>1. /\ Len(e) \in Nat /\ DOMAIN e = 1 .. Len(e) /\ DOMAIN f = 1 .. Len(e) - 1
      /\ \A i \in 1 .. Len(e) - 1 : f[i] = IF i < k THEN e[i] ELSE e[i + 1]
  <2>1. f \in Seq(Nat) /\ Len(f) = Len(e) - 1
        /\ \A i \in 1 .. Len(e) - 1 : f[i] = IF i < k THEN e[i] ELSE e[i + 1]
    BY RemovedAt
  <2>. HIDE DEF f
  <2>. QED  BY <2>1, LenProperties
<1>. HIDE DEF f
<1>2. PICK i \in DOMAIN e : e[i] = r /\ \A j \in DOMAIN e : j >= i => e[j] # 0
  BY DEF BackedIn
<1>3. i # k
  BY <1>2
<1>4. CASE i < k
  <2>1. i \in DOMAIN f /\ f[i] = r
    BY <1>1, <1>2, <1>4
  <2>2. ASSUME NEW j \in DOMAIN f, j >= i
        PROVE  f[j] # 0
    <3>1. j \in DOMAIN e /\ j + 1 \in DOMAIN e /\ j + 1 >= i
      BY <1>1, <1>2, <2>2
    <3>. QED  BY <1>1, <1>2, <2>2, <3>1
  <2>. QED  BY <2>1, <2>2 DEF BackedIn, f
<1>5. CASE i > k
  <2>1. i - 1 \in DOMAIN f /\ f[i - 1] = r
    BY <1>1, <1>2, <1>5
  <2>2. ASSUME NEW j \in DOMAIN f, j >= i - 1
        PROVE  f[j] # 0
    <3>1. j + 1 \in DOMAIN e /\ j + 1 >= i /\ ~(j < k)
      BY <1>1, <1>2, <1>5, <2>2
    <3>. QED  BY <1>1, <1>2, <2>2, <3>1
  <2>. QED  BY <2>1, <2>2 DEF BackedIn, f
<1>. QED  BY <1>1, <1>2, <1>3, <1>4, <1>5

\* What every step makes of the evidence while the version stays.
LEMMA EvidenceStep ==
  ASSUME TrustTypeOK, RevisionsGood, [TrustNext]_trustVars, conn'.version = conn.version,
         NEW r \in DOMAIN revisions, Verified(r), revisions'[r].status = "verified"
  PROVE  BackedIn(evidence', r)
<1>0. /\ Backed(r) /\ revisions[r].version = conn.version /\ r \in Nat \ {0}
      /\ evidence \in Seq(Nat) /\ Len(revisions) + 1 \in Nat \ {0}
  BY Tables, SeqMonotonic, TrustAssumption DEF RevisionsGood, RevisionGood
<1>1. ASSUME NEW t \in DOMAIN attempts, SaveRevision(t)
      PROVE  BackedIn(evidence', r)
  BY <1>0, <1>1, BackedAppend DEF SaveRevision, Backed
<1>2. ASSUME NEW q \in DOMAIN revisions, DeleteRevision(q)
      PROVE  BackedIn(evidence', r)
  <2>1. q # r
    BY <1>2 DEF DeleteRevision, Verified
  <2>. QED  BY <1>0, <1>2, <2>1, BackedRemove DEF DeleteRevision, EvidenceOf, Backed
<1>3. ASSUME NEW q \in DOMAIN revisions, ContradictConnection(q)
      PROVE  FALSE
  BY <1>0, <1>3, OutdatedRow DEF ContradictConnection, ContradictedRevisions
<1>4. CASE UNCHANGED evidence
  BY <1>0, <1>4 DEF Backed
<1>5. CASE UpdateConnection \/ \E s \in DOMAIN secrets : ActivateSecret(s)
  <2>1. conn.version \in Nat
    BY Tables, TrustAssumption
  <2>. QED  BY <1>5, <2>1, ReverifyStatus, ReconfiguredFacts DEF UpdateConnection, ActivateSecret
<1>. QED
  BY <1>1, <1>2, <1>3, <1>4, <1>5
  DEF TrustNext, trustVars, WriteSecret, ConfirmRevocation, DeleteCandidate,
      ActivateConnection, Attest, Deselect, StopConnection, StartVerification, UseSecret,
      StoreAttempt, VerificationFails, DropAttempt, EndRevision, ContradictModel,
      SelectRevision

\* A verified revision stays in force until it is not verified any more.
LEMMA RevisionsStep ==
  ASSUME TrustTypeOK, Started, VerifyingGood, AttemptsGood, RevisionsGood, [TrustNext]_trustVars
  PROVE  RevisionsGood'
<1>. SUFFICES ASSUME NEW r \in DOMAIN revisions', revisions'[r].status = "verified"
              PROVE  /\ revisions'[r].version = conn'.version
                     /\ ReadUnder(conn'.version, secrets', revisions'[r].version,
                                  revisions'[r].secret)
                     /\ BackedIn(evidence', r)
  BY DEF RevisionsGood, RevisionGood, Verified, ReadWith, Backed
<1>0. conn.version \in Nat
  BY Tables, TrustAssumption
<1>1. conn'.version = conn.version
  BY <1>0, VersionStep
<1>2. ASSUME NEW t \in DOMAIN attempts, SaveRevision(t), r = Len(revisions) + 1
      PROVE  /\ revisions'[r].version = conn'.version
             /\ ReadUnder(conn'.version, secrets', revisions'[r].version,
                          revisions'[r].secret)
             /\ BackedIn(evidence', r)
  <2>1. /\ attempts[t].version = conn.version
        /\ revisions'[r].version = conn.version /\ revisions'[r].secret = attempts[t].secret
    BY <1>2, SavedFacts
  <2>2. ReadUnder(conn'.version, secrets', conn.version, attempts[t].secret)
    BY <1>0, <2>1, ReadStep DEF AttemptsGood
  <2>3. r \in Nat \ {0} /\ evidence \in Seq(Nat)
    BY <1>2, Tables, SeqMonotonic, TrustAssumption
  <2>4. BackedIn(evidence', r)
    BY <1>2, <2>3, BackedAppend DEF SaveRevision
  <2>. QED  BY <1>1, <2>1, <2>2, <2>4
<1>3. ASSUME r \in DOMAIN revisions, Verified(r),
             revisions'[r].version = revisions[r].version,
             revisions'[r].secret = revisions[r].secret
      PROVE  /\ revisions'[r].version = conn'.version
             /\ ReadUnder(conn'.version, secrets', revisions'[r].version,
                          revisions'[r].secret)
             /\ BackedIn(evidence', r)
  <2>1. /\ revisions[r].version = conn.version
        /\ ReadWith(revisions[r].version, revisions[r].secret)
    BY <1>3 DEF RevisionsGood, RevisionGood
  <2>2. ReadUnder(conn'.version, secrets', revisions[r].version, revisions[r].secret)
    BY <1>0, <2>1, ReadStep
  <2>3. BackedIn(evidence', r)
    BY <1>1, <1>3, EvidenceStep
  <2>. QED  BY <1>1, <1>3, <2>1, <2>2, <2>3
<1>4. ASSUME NEW t \in DOMAIN attempts, SaveRevision(t), r # Len(revisions) + 1
      PROVE  /\ r \in DOMAIN revisions /\ Verified(r)
             /\ revisions'[r].version = revisions[r].version
             /\ revisions'[r].secret = revisions[r].secret
  BY <1>4, SavedFacts DEF Verified
<1>. QED  BY <1>0, <1>1, <1>2, <1>3, <1>4, RevisionSteps

-----------------------------------------------------------------------------
(***************************************************************************)
(* The theorems.                                                           *)
(***************************************************************************)
LEMMA InitIInv == TrustInit => TrustIInv
  BY InitTypes
  DEF TrustInit, TrustIInv, Started, VerifyingGood, AttemptsGood, RevisionsGood, SpentOnce,
      NotVerifying

LEMMA NextIInv == TrustIInv /\ [TrustNext]_trustVars => TrustIInv'
  BY NextTypes, VerifyingStep, AttemptsStep, RevisionsStep, SpentStep DEF TrustIInv

LEMMA Invariance == TrustSpec => []TrustIInv
  BY InitIInv, NextIInv, PTL DEF TrustSpec

\* Every reachable state is well typed (the tables of ai-connection-admin.ts and
\* ai-model-verification-attempts.ts).
THEOREM TrustTypeCorrect == TrustSpec => []TrustTypeOK
<1>1. TrustIInv => TrustTypeOK
  BY DEF TrustIInv
<1>. QED  BY <1>1, Invariance, PTL

\* A revision that counts as verified is in force: its configuration and its
\* secret are the current ones, the newest evidence of the connection is a
\* passed test, and its verification made no other revision
\* (saveVerifiedModelRevision, updateAiConnection, activateProviderSecret).
THEOREM VerifiedIsInForce == TrustSpec => []TrustInForce
<1>1. ASSUME TrustIInv
      PROVE  TrustInForce
  <2>. SUFFICES ASSUME NEW r \in DOMAIN revisions, Verified(r)
                PROVE  /\ revisions[r].version = conn.version
                       /\ Usable(revisions[r].secret)
                       /\ evidence # << >> /\ evidence[Len(evidence)] # 0
    BY <1>1 DEF TrustInForce, TrustIInv, SpentOnce
  <2>1. /\ revisions[r].version = conn.version
        /\ ReadWith(revisions[r].version, revisions[r].secret) /\ Backed(r)
    BY <1>1 DEF TrustIInv, RevisionsGood, RevisionGood
  <2>2. Usable(revisions[r].secret)
    BY <2>1 DEF ReadWith, ReadUnder, Usable
  <2>3. PICK i \in DOMAIN evidence :
          evidence[i] = r /\ \A j \in DOMAIN evidence : j >= i => evidence[j] # 0
    BY <2>1 DEF Backed, BackedIn
  <2>4. Len(evidence) \in DOMAIN evidence /\ Len(evidence) >= i /\ evidence # << >>
    BY <1>1, <2>3, Tables, LenProperties, EmptySeq DEF TrustIInv
  <2>. QED  BY <2>1, <2>2, <2>3, <2>4
<1>. QED  BY <1>1, Invariance, PTL
=============================================================================
