--------------------- MODULE RequirementLifecycleProofs ---------------------
(***************************************************************************)
(* Theorems about RequirementLifecycle, for every number of versions,      *)
(* forms, overlapping requests, texts and answers.                         *)
(***************************************************************************)
EXTENDS RequirementLifecycle, TLAPS

(* NEWID() returns a token no form remembers for the row it is written to. *)
LEMMA NewTokenFresh ==
    ASSUME TypeOK, NEW r \in Rows
    PROVE  NewToken(r) \in Tokens /\ NewToken(r) \notin Remembered(r)
<1> DEFINE held == {f \in Editors : form[f].row = r}
           f == [e \in Editors |-> IF e \in held THEN form[e].token
                                   ELSE CHOOSE t \in Tokens : TRUE]
<1>1. \A e \in held : form[e].token \in Tokens
  <2> SUFFICES ASSUME NEW e \in held PROVE form[e].token \in Tokens
    OBVIOUS
  <2>1. form[e] # NoForm
    BY NoneAssumption DEF NoForm
  <2> QED
    BY <2>1 DEF TypeOK, Form
<1>2. f \in [Editors -> Tokens]
  BY <1>1, TokenAssumption
<1>3. PICK t \in Tokens : \A e \in Editors : f[e] # t
  BY <1>2, TokenAssumption
<1>4. t \notin Remembered(r)
  BY <1>3 DEF Remembered
<1> QED
  BY <1>3, <1>4 DEF NewToken

\* An id that is not live has well-typed columns.
LEMMA BlankIsVersion == Blank \in Version
  BY NumAssumption, DataAssumption, TokenAssumption
  DEF Blank, NewDraft, Version, Status, Draft

(* Inserting a draft keeps the tables well typed. *)
LEMMA InsertDraftType ==
    ASSUME TypeOK, NEW r \in Rows, NEW n \in 1..MaxNum, NEW x \in Texts,
           NEW b, InsertDraft(r, n, x, b)
    PROVE  /\ live' \subseteq Rows
           /\ ver' \in [Rows -> Version]
           /\ linked' \subseteq live'
           /\ reviewed' \in [Rows -> Texts \cup {None}]
<1>1. NewDraft(n, x, NewToken(r)) \in Version
  BY NewTokenFresh DEF NewDraft, Version, Status, Draft
<1> QED
  BY <1>1 DEF InsertDraft, TypeOK

\* The initial state is well typed.
LEMMA InitType == Init => TypeOK
<1>1. NoForm \in {NoForm} /\ Idle \in Call
  BY DEF Call
<1>2. [r \in Rows |-> Blank] \in [Rows -> Version]
  BY BlankIsVersion
<1>3. Init => form \in [Editors -> Form \cup {NoForm}] /\ call \in [Procs -> Call]
  BY <1>1 DEF Init
<1> QED
  BY <1>2, <1>3 DEF Init, TypeOK

(* Every request leaves the tables, the forms and the calls well typed. *)
LEMMA WriteType == TypeOK /\ Write => TypeOK'
<1> SUFFICES ASSUME TypeOK, Write PROVE TypeOK'
  OBVIOUS
<1>1. \A p \in Procs : [call EXCEPT ![p] = Idle] \in [Procs -> Call]
  BY DEF TypeOK, Call
<1>2. \A e \in Editors : [form EXCEPT ![e] = NoForm] \in [Editors -> Form \cup {NoForm}]
  BY DEF TypeOK
<1>3. ASSUME NEW r \in Rows, NEW x \in Texts, NEW b \in Membership, Create(r, x, b)
      PROVE  TypeOK'
  <2>1. 1 \in 1..MaxNum /\ InsertDraft(r, 1, x, b)
    BY <1>3, NumAssumption DEF Create
  <2>2. /\ live' \subseteq Rows /\ ver' \in [Rows -> Version]
        /\ linked' \subseteq live' /\ reviewed' \in [Rows -> Texts \cup {None}]
    BY <2>1, InsertDraftType
  <2> QED
    BY <1>3, <2>2 DEF Create, TypeOK
<1>4. ASSUME NEW e \in Editors, NEW x \in Texts, NEW b \in Membership,
             SaveInPlace(e, x, b)
      PROVE  TypeOK'
  <2>1. form[e].row \in Rows /\ form[e].row \in live
    BY <1>4 DEF SaveInPlace, BaseIsCurrent, IsLatest, TypeOK
  <2>2. NewToken(form[e].row) \in Tokens
    BY <2>1, NewTokenFresh
  <2>3. ver' \in [Rows -> Version]
    BY <1>4, <2>1, <2>2 DEF SaveInPlace, TypeOK, Version
  <2> QED
    BY <1>2, <1>4, <2>1, <2>3 DEF SaveInPlace, TypeOK
<1>5. ASSUME NEW e \in Editors, NEW x \in Texts, NEW b \in Membership,
             SaveAsNewDraft(e, x, b)
      PROVE  TypeOK'
  <2>1. PICK n \in 1..MaxNum, r \in Rows : InsertDraft(r, n, x, b)
    BY <1>5 DEF SaveAsNewDraft
  <2> QED
    BY <1>2, <1>5, <2>1, InsertDraftType DEF SaveAsNewDraft, TypeOK
<1>6. CASE InitiateArchiving
  <2>1. PICK r \in Rows : ver' = [ver EXCEPT ![r] =
          [@ EXCEPT !.status = Review, !.archive_initiated = TRUE, !.token = NewToken(r)]]
    BY <1>6 DEF InitiateArchiving, InStatus, TypeOK
  <2>2. ver' \in [Rows -> Version]
    BY <2>1, NewTokenFresh DEF TypeOK, Version, Status
  <2> QED
    BY <1>6, <2>2 DEF InitiateArchiving, TypeOK
<1>7. CASE ApproveArchiving
  <2>1. PICK r \in Rows : ver' = [ver EXCEPT ![r] =
          [@ EXCEPT !.status = Archived, !.archived_at = TRUE,
                    !.archive_initiated = FALSE, !.token = NewToken(r)]]
    BY <1>7 DEF ApproveArchiving
  <2>2. ver' \in [Rows -> Version]
    BY <2>1, NewTokenFresh DEF TypeOK, Version, Status
  <2> QED
    BY <1>7, <2>2 DEF ApproveArchiving, CleanedSelection, TypeOK
<1>8. CASE CancelArchiving
  <2>1. PICK r \in Rows : ver' = [ver EXCEPT ![r] =
          [@ EXCEPT !.status = Published, !.archive_initiated = FALSE, !.token = NewToken(r)]]
    BY <1>8 DEF CancelArchiving
  <2>2. ver' \in [Rows -> Version]
    BY <2>1, NewTokenFresh DEF TypeOK, Version, Status
  <2> QED
    BY <1>8, <2>2 DEF CancelArchiving, TypeOK
<1>9. CASE Reactivate
  <2>1. PICK r \in live, new \in Rows, n \in 1..MaxNum :
              InsertDraft(new, n, ver[r].text, r \in linked)
    BY <1>9 DEF Reactivate, InStatus
  <2>2. ver[r].text \in Texts
    BY DEF TypeOK, Version
  <2> QED
    BY <1>9, <2>1, <2>2, InsertDraftType DEF Reactivate, TypeOK
<1>10. CASE Unlink
  BY <1>10 DEF Unlink, TypeOK
<1>11. ASSUME NEW p \in Procs, CommitTransition(p) PROVE TypeOK'
  <2> DEFINE c == call[p]
  <2>1. c \in TransitionCall
    BY <1>11 DEF CommitTransition, TypeOK, Call, DeleteCall, RestoreCall, LinkCall, Idle
  <2>2. ArchivePredecessors(c) \in [Rows -> Version]
    BY NewTokenFresh DEF ArchivePredecessors, TypeOK, Version, Status
  <2>3. NewToken(c.row) \in Tokens
    BY <2>1, NewTokenFresh DEF TransitionCall
  <2>4. c.row \in Rows /\ c.to \in Status
    BY <2>1 DEF TransitionCall
  <2>5. Publishes(c) \in BOOLEAN /\ ArchiveInitiatedAfter(c) \in BOOLEAN
        /\ ResolveArchivedFlag(c) \in BOOLEAN
    BY <2>1 DEF Publishes, ArchiveInitiatedAfter, ResolveArchivedFlag
  <2>6. ver' \in [Rows -> Version]
    <3>1. \A v \in Version : TransitionRow(c, v) \in Version
      BY <2>3, <2>4, <2>5 DEF TransitionRow, Version
    <3> QED
      BY <1>11, <2>2, <2>4, <3>1 DEF CommitTransition
  <2>7. ver[c.row].text \in Texts
    BY <2>4 DEF TypeOK, Version
  <2>8. reviewed' \in [Rows -> Texts \cup {None}]
    BY <1>11, <2>7 DEF CommitTransition, TypeOK
  <2> QED
    BY <1>1, <1>11, <2>5, <2>6, <2>8 DEF CommitTransition, LinksAfter, CleanedSelection, TypeOK
<1>12. ASSUME NEW p \in Procs, CommitDelete(p) PROVE TypeOK'
  BY <1>1, <1>12, BlankIsVersion DEF CommitDelete, TypeOK
<1>13. ASSUME NEW p \in Procs, CommitRestore(p) PROVE TypeOK'
  <2>1. call[p] \in RestoreCall
    BY <1>13 DEF CommitRestore, TypeOK, Call, DeleteCall, TransitionCall, LinkCall, Idle
  <2>2. PICK r \in Rows : InsertDraft(r, call[p].num, call[p].text, call[p].linked)
    BY <1>13 DEF CommitRestore
  <2>3. call[p].num \in 1..MaxNum /\ call[p].text \in Texts
    BY <2>1 DEF RestoreCall
  <2> QED
    BY <1>1, <1>13, <2>2, <2>3, InsertDraftType DEF CommitRestore, TypeOK
<1>14. ASSUME NEW p \in Procs, CommitLink(p) PROVE TypeOK'
  <2>1. call[p].answer \in Answers
    BY <1>14 DEF CommitLink, TypeOK, Call, DeleteCall, TransitionCall, RestoreCall,
                 LinkCall, Idle
  <2> QED
    BY <1>1, <1>14, <2>1 DEF CommitLink, TypeOK
<1> QED
  BY <1>3, <1>4, <1>5, <1>6, <1>7, <1>8, <1>9, <1>10, <1>11, <1>12, <1>13, <1>14
  DEF Write

\* Reading keeps the types.
LEMMA ReadType == TypeOK /\ Read => TypeOK'
<1> SUFFICES ASSUME TypeOK, Read PROVE TypeOK'
  OBVIOUS
<1>1. ASSUME NEW e \in Editors, LoadForm(e) \/ CloseForm(e) PROVE TypeOK'
  <2>1. form' \in [Editors -> Form \cup {NoForm}]
    BY <1>1 DEF LoadForm, CloseForm, TypeOK, Form, Version
  <2> QED
    BY <1>1, <2>1 DEF LoadForm, CloseForm, TypeOK, tables
<1>2. ASSUME NEW p \in Procs,
             \/ \E to \in Status : ReadTransition(p, to)
             \/ ReadDelete(p) \/ ReadRestore(p) \/ ReadLink(p) \/ Abort(p)
      PROVE  TypeOK'
  <2>1. \E c \in Call : call' = [call EXCEPT ![p] = c]
    <3>1. ASSUME NEW to \in Status, ReadTransition(p, to)
          PROVE  \E c \in TransitionCall : call' = [call EXCEPT ![p] = c]
      BY <3>1 DEF ReadTransition, TransitionCall, TypeOK, Version
    <3>2. ASSUME ReadDelete(p)
          PROVE  \E c \in DeleteCall : call' = [call EXCEPT ![p] = c]
      BY <3>2 DEF ReadDelete, DeleteCall, TypeOK, InStatus
    <3>3. ASSUME ReadRestore(p)
          PROVE  \E c \in RestoreCall : call' = [call EXCEPT ![p] = c]
      <4>1. PICK r \in live, n \in 1..MaxNum :
              call' = [call EXCEPT ![p] = [op |-> "restore", text |-> ver[r].text,
                                           linked |-> r \in linked, num |-> n]]
        BY <3>3 DEF ReadRestore
      <4>2. ver[r].text \in Texts /\ (r \in linked) \in BOOLEAN
        BY DEF TypeOK, Version
      <4>3. [op |-> "restore", text |-> ver[r].text, linked |-> r \in linked,
             num |-> n] \in RestoreCall
        BY <4>2 DEF RestoreCall
      <4> QED
        BY <4>1, <4>3
    <3>4. ASSUME ReadLink(p)
          PROVE  \E c \in LinkCall : call' = [call EXCEPT ![p] = c]
      BY <3>4 DEF ReadLink, LinkCall
    <3>5. ASSUME Abort(p) PROVE call' = [call EXCEPT ![p] = Idle]
      BY <3>5 DEF Abort
    <3> QED
      BY <1>2, <3>1, <3>2, <3>3, <3>4, <3>5 DEF Call
  <2>2. UNCHANGED <<tables, form, reviewed>>
    BY <1>2 DEF ReadTransition, ReadDelete, ReadRestore, ReadLink, Abort
  <2> QED
    BY <2>1, <2>2 DEF TypeOK, tables
<1> QED
  BY <1>1, <1>2 DEF Read

\* Every step keeps the types.
LEMMA StepType == TypeOK /\ [Next]_vars => TypeOK'
<1>1. TypeOK /\ UNCHANGED vars => TypeOK'
  BY DEF TypeOK, vars, tables
<1> QED
  BY <1>1, WriteType, ReadType DEF Next

(* The tables, forms and snapshots are always well typed. *)
THEOREM TypeCorrect == Spec => []TypeOK
<1> QED
  BY InitType, StepType, PTL DEF Spec

-----------------------------------------------------------------------------
(* No lost edits *)

(* Each row a request writes is new, or carries a token no form remembers. *)
Renewed == \A r \in live' :
    \/ r \in live /\ ver'[r] = ver[r]
    \/ ver'[r].token \notin Remembered(r)
    \/ FreshRow(r)

\* An insertion takes a row id no form remembers.
LEMMA InsertDraftRenews ==
    ASSUME TypeOK, NEW r \in Rows, NEW n, NEW x, NEW b, InsertDraft(r, n, x, b)
    PROVE  Renewed
  BY DEF InsertDraft, Renewed, TypeOK

(* One row changes and gets a new token. *)
LEMMA UpdateRenews ==
    ASSUME TypeOK, NEW r \in Rows, NEW v, live' = live,
           ver' = [ver EXCEPT ![r] = v], v.token = NewToken(r)
    PROVE  Renewed
<1>1. v.token \notin Remembered(r)
  BY NewTokenFresh
<1> QED
  BY <1>1 DEF Renewed, TypeOK

\* Whatever a write changes gets a token no form remembers.
LEMMA WriteRenews == TypeOK /\ Write => Renewed
<1> SUFFICES ASSUME TypeOK, Write PROVE Renewed
  OBVIOUS
<1>0. ver \in [Rows -> Version] /\ live \subseteq Rows
  BY DEF TypeOK
<1>1. ASSUME NEW r \in Rows, NEW x \in Texts, NEW b \in Membership, Create(r, x, b)
      PROVE  Renewed
  BY <1>1, InsertDraftRenews DEF Create
<1>2. ASSUME NEW e \in Editors, NEW x \in Texts, NEW b \in Membership,
             SaveInPlace(e, x, b)
      PROVE  Renewed
  <2> DEFINE r == form[e].row
             v == [ver[r] EXCEPT !.text = x, !.token = NewToken(r)]
  <2>1. r \in Rows /\ live' = live /\ ver' = [ver EXCEPT ![r] = v]
    BY <1>0, <1>2 DEF SaveInPlace, BaseIsCurrent, IsLatest
  <2>2. v.token = NewToken(r)
    BY <1>0, <2>1 DEF Version
  <2> HIDE DEF r, v
  <2> QED
    BY <2>1, <2>2, UpdateRenews
<1>3. ASSUME NEW e \in Editors, NEW x \in Texts, NEW b \in Membership,
             SaveAsNewDraft(e, x, b)
      PROVE  Renewed
  BY <1>3, InsertDraftRenews DEF SaveAsNewDraft
<1>4. CASE InitiateArchiving
  <2>1. PICK r \in Rows : /\ live' = live
              /\ ver' = [ver EXCEPT ![r] = [ver[r] EXCEPT !.status = Review,
                           !.archive_initiated = TRUE, !.token = NewToken(r)]]
    BY <1>0, <1>4 DEF InitiateArchiving, InStatus
  <2> DEFINE v == [ver[r] EXCEPT !.status = Review, !.archive_initiated = TRUE,
                                 !.token = NewToken(r)]
  <2>2. v.token = NewToken(r)
    BY <1>0 DEF Version
  <2> HIDE DEF v
  <2>3. ver' = [ver EXCEPT ![r] = v]
    BY <2>1 DEF v
  <2> QED
    BY <2>1, <2>2, <2>3, UpdateRenews
<1>5. CASE ApproveArchiving
  <2>1. PICK r \in Rows : /\ live' = live
              /\ ver' = [ver EXCEPT ![r] = [ver[r] EXCEPT !.status = Archived,
                           !.archived_at = TRUE, !.archive_initiated = FALSE,
                           !.token = NewToken(r)]]
    BY <1>5 DEF ApproveArchiving
  <2> DEFINE v == [ver[r] EXCEPT !.status = Archived, !.archived_at = TRUE,
                                 !.archive_initiated = FALSE, !.token = NewToken(r)]
  <2>2. v.token = NewToken(r)
    BY <1>0 DEF Version
  <2>3. ver' = [ver EXCEPT ![r] = v]
    BY <2>1
  <2> HIDE DEF v
  <2> QED
    BY <2>1, <2>2, <2>3, UpdateRenews
<1>6. CASE CancelArchiving
  <2>1. PICK r \in Rows : /\ live' = live
              /\ ver' = [ver EXCEPT ![r] = [ver[r] EXCEPT !.status = Published,
                           !.archive_initiated = FALSE, !.token = NewToken(r)]]
    BY <1>6 DEF CancelArchiving
  <2> DEFINE v == [ver[r] EXCEPT !.status = Published, !.archive_initiated = FALSE,
                                 !.token = NewToken(r)]
  <2>2. v.token = NewToken(r)
    BY <1>0 DEF Version
  <2>3. ver' = [ver EXCEPT ![r] = v]
    BY <2>1
  <2> HIDE DEF v
  <2> QED
    BY <2>1, <2>2, <2>3, UpdateRenews
<1>7. CASE Reactivate
  BY <1>7, InsertDraftRenews DEF Reactivate
<1>8. CASE Unlink
  BY <1>8 DEF Unlink, Renewed
<1>9. ASSUME NEW p \in Procs, CommitTransition(p) PROVE Renewed
  <2> DEFINE c == call[p]
             old == ArchivePredecessors(c)
  <2>1. \A r \in live : old[r] = ver[r] \/ old[r].token \notin Remembered(r)
    BY <1>0, NewTokenFresh DEF ArchivePredecessors, Version
  <2>2. TransitionRow(c, old[c.row]).token \notin Remembered(c.row)
    <3>1. c.row \in Rows
      BY <1>0, <1>9 DEF CommitTransition
    <3>2. old[c.row] \in Version
      BY <1>0, <3>1, NewTokenFresh DEF ArchivePredecessors, Version, Status
    <3>3. TransitionRow(c, old[c.row]).token = NewToken(c.row)
      BY <3>2 DEF TransitionRow, Version
    <3> QED
      BY <3>1, <3>3, NewTokenFresh
  <2>3. ver' = [old EXCEPT ![c.row] = TransitionRow(c, old[c.row])] /\ live' = live
    BY <1>9 DEF CommitTransition
  <2>4. \A r \in live : ver'[r] = IF r = c.row THEN TransitionRow(c, old[c.row]) ELSE old[r]
    BY <1>0, <2>3 DEF ArchivePredecessors
  <2> QED
    BY <2>1, <2>2, <2>3, <2>4 DEF Renewed
<1>10. ASSUME NEW p \in Procs, CommitDelete(p) PROVE Renewed
  BY <1>0, <1>10 DEF CommitDelete, Renewed
<1>11. ASSUME NEW p \in Procs, CommitRestore(p) PROVE Renewed
  BY <1>11, InsertDraftRenews DEF CommitRestore
<1>12. ASSUME NEW p \in Procs, CommitLink(p) PROVE Renewed
  BY <1>12 DEF CommitLink, Renewed
<1> QED
  BY <1>1, <1>2, <1>3, <1>4, <1>5, <1>6, <1>7, <1>8, <1>9, <1>10, <1>11, <1>12
  DEF Write

(* A request closes forms but opens none. *)
LEMMA WriteForms ==
    ASSUME TypeOK, Write, NEW e \in Editors
    PROVE  form'[e] = form[e] \/ form'[e] = NoForm
<1>1. form' = form \/ \E d \in Editors : form' = [form EXCEPT ![d] = NoForm]
  BY DEF Write, Create, SaveInPlace, SaveAsNewDraft, InitiateArchiving,
         ApproveArchiving, CancelArchiving, Reactivate, Unlink,
         CommitTransition, CommitDelete, CommitRestore, CommitLink
<1> QED
  BY <1>1 DEF TypeOK

\* A write keeps the meaning of remembered tokens.
LEMMA TokenPinsWrite == TypeOK /\ TokenPinsForm /\ Write => TokenPinsForm'
<1> SUFFICES ASSUME TypeOK, TokenPinsForm, Write, NEW e \in Editors,
                    form'[e] # NoForm, form'[e].row \in live',
                    ver'[form'[e].row].token = form'[e].token
             PROVE  /\ ver'[form'[e].row].text = form'[e].text
                    /\ ver'[form'[e].row].status = form'[e].status
  BY DEF TokenPinsForm
<1> DEFINE r == form[e].row
<1>1. form'[e] = form[e]
  BY WriteForms
<1>2. ver'[r].token \in Remembered(r) /\ ~FreshRow(r)
  BY <1>1 DEF Remembered, FreshRow
<1>3. r \in live /\ ver'[r] = ver[r]
  BY <1>1, <1>2, WriteRenews DEF Renewed
<1> QED
  BY <1>1, <1>3 DEF TokenPinsForm

\* So does opening or closing a form.
LEMMA TokenPinsRead == TypeOK /\ TokenPinsForm /\ Read => TokenPinsForm'
<1> SUFFICES ASSUME TypeOK, TokenPinsForm, Read PROVE TokenPinsForm'
  OBVIOUS
<1>1. ASSUME NEW d \in Editors, LoadForm(d) PROVE TokenPinsForm'
  BY <1>1 DEF LoadForm, TokenPinsForm, TypeOK, tables
<1>2. ASSUME NEW d \in Editors, CloseForm(d) PROVE TokenPinsForm'
  BY <1>2 DEF CloseForm, TokenPinsForm, TypeOK, tables
<1>3. ASSUME NEW p \in Procs,
             \/ \E to \in Status : ReadTransition(p, to)
             \/ ReadDelete(p) \/ ReadRestore(p) \/ ReadLink(p) \/ Abort(p)
      PROVE  TokenPinsForm'
  <2>1. UNCHANGED <<tables, form>>
    BY <1>3 DEF ReadTransition, ReadDelete, ReadRestore, ReadLink, Abort
  <2> QED
    BY <2>1 DEF TokenPinsForm, tables
<1> QED
  BY <1>1, <1>2, <1>3 DEF Read

(* A save that passes its precondition writes over exactly what its author  *)
(* was shown (editRequirement).                                             *)
THEOREM NoLostEdit == Spec => []TokenPinsForm
<1>1. Init => TokenPinsForm
  BY DEF Init, TokenPinsForm
<1>2. TypeOK /\ TokenPinsForm /\ [Next]_vars => TokenPinsForm'
  <2>1. TokenPinsForm /\ UNCHANGED vars => TokenPinsForm'
    BY DEF TokenPinsForm, vars, tables
  <2> QED
    BY <2>1, TokenPinsWrite, TokenPinsRead DEF Next
<1> QED
  BY <1>1, <1>2, TypeCorrect, PTL DEF Spec

-----------------------------------------------------------------------------
(* A requirement and its versions *)

\* A write keeps the requirement exactly as long as its versions.
LEMMA HasVersionsWrite ==
    TypeOK /\ RequirementHasVersions /\ Write => RequirementHasVersions'
<1> SUFFICES ASSUME TypeOK, RequirementHasVersions, Write
             PROVE  RequirementHasVersions'
  OBVIOUS
<1>1. ASSUME UNCHANGED <<present, live>> PROVE RequirementHasVersions'
  BY <1>1 DEF RequirementHasVersions
<1>2. ASSUME present', live' # {} PROVE RequirementHasVersions'
  BY <1>2 DEF RequirementHasVersions
<1>3. ASSUME NEW r \in Rows, NEW n, NEW x, NEW b, InsertDraft(r, n, x, b), present'
      PROVE  RequirementHasVersions'
  BY <1>2, <1>3 DEF InsertDraft
<1>4. ASSUME NEW e \in Editors, NEW x \in Texts, NEW b \in Membership,
             SaveAsNewDraft(e, x, b)
      PROVE  RequirementHasVersions'
  <2>1. live # {}
    BY <1>4 DEF SaveAsNewDraft, BaseIsCurrent, IsLatest
  <2>2. present'
    BY <1>4, <2>1 DEF SaveAsNewDraft, RequirementHasVersions
  <2> QED
    BY <1>3, <1>4, <2>2 DEF SaveAsNewDraft
<1>5. CASE Reactivate
  <2>1. live # {}
    BY <1>5 DEF Reactivate, InStatus
  <2>2. present'
    BY <1>5, <2>1 DEF Reactivate, RequirementHasVersions
  <2> QED
    BY <1>3, <1>5, <2>2 DEF Reactivate
<1>6. ASSUME NEW p \in Procs, CommitDelete(p) PROVE RequirementHasVersions'
  BY <1>6 DEF CommitDelete, RequirementHasVersions, TypeOK
<1>7. ASSUME NEW p \in Procs, CommitRestore(p) PROVE RequirementHasVersions'
  BY <1>3, <1>7 DEF CommitRestore
<1>8. ASSUME NEW r \in Rows, NEW x \in Texts, NEW b \in Membership, Create(r, x, b)
      PROVE  RequirementHasVersions'
  BY <1>3, <1>8 DEF Create
<1>9. ASSUME \/ \E e \in Editors, x \in Texts, b \in Membership : SaveInPlace(e, x, b)
             \/ InitiateArchiving \/ ApproveArchiving \/ CancelArchiving \/ Unlink
             \/ \E p \in Procs : CommitTransition(p) \/ CommitLink(p)
      PROVE  RequirementHasVersions'
  BY <1>1, <1>9 DEF SaveInPlace, InitiateArchiving, ApproveArchiving, CancelArchiving,
                    Unlink, CommitTransition, CommitLink
<1> QED
  BY <1>4, <1>5, <1>6, <1>7, <1>8, <1>9 DEF Write

(* However deletions, restorations and saves overlap, a requirement exists  *)
(* exactly while it has a version (deleteDraftVersion, restoreVersion).     *)
THEOREM NeverWithoutVersions == Spec => []RequirementHasVersions
<1>1. Init => RequirementHasVersions
  BY DEF Init, RequirementHasVersions
<1>2. TypeOK /\ RequirementHasVersions /\ [Next]_vars => RequirementHasVersions'
  <2>1. Read => UNCHANGED <<present, live>>
    BY DEF Read, LoadForm, CloseForm, ReadTransition, ReadDelete, ReadRestore,
           ReadLink, Abort, tables
  <2> QED
    BY <2>1, HasVersionsWrite DEF Next, RequirementHasVersions, vars, tables
<1> QED
  BY <1>1, <1>2, TypeCorrect, PTL DEF Spec

-----------------------------------------------------------------------------
(* Content is frozen outside Draft *)

Frozen == \A r \in live \cap live' : ver'[r].text # ver[r].text
              => ver[r].status = Draft /\ ver'[r].status = Draft

\* No step changes the content of a version that is no Draft.
LEMMA StepFreezes == TypeOK /\ [Next]_vars => Frozen
<1> SUFFICES ASSUME TypeOK, [Next]_vars PROVE Frozen
  OBVIOUS
<1>0. ver \in [Rows -> Version] /\ live \subseteq Rows
  BY DEF TypeOK
<1>1. ASSUME UNCHANGED ver PROVE Frozen
  BY <1>1 DEF Frozen
<1>2. ASSUME NEW r \in Rows, NEW n, NEW x, NEW b, InsertDraft(r, n, x, b) PROVE Frozen
  BY <1>0, <1>2 DEF InsertDraft, FreshRow, Frozen
<1>3. ASSUME NEW e \in Editors, NEW x \in Texts, NEW b \in Membership,
             SaveInPlace(e, x, b)
      PROVE  Frozen
  BY <1>0, <1>3 DEF SaveInPlace, Frozen, Version
<1>4. ASSUME InitiateArchiving \/ ApproveArchiving \/ CancelArchiving PROVE Frozen
  <2>1. PICK r \in Rows : \E v \in Version :
          /\ v.text = ver[r].text
          /\ ver' = [ver EXCEPT ![r] = v]
          /\ live' = live
    <3> DEFINE Marked(r) == [ver[r] EXCEPT !.status = Review, !.archive_initiated = TRUE,
                                          !.token = NewToken(r)]
               Approved(r) == [ver[r] EXCEPT !.status = Archived, !.archived_at = TRUE,
                                            !.archive_initiated = FALSE,
                                            !.token = NewToken(r)]
               Canceled(r) == [ver[r] EXCEPT !.status = Published,
                                            !.archive_initiated = FALSE,
                                            !.token = NewToken(r)]
    <3>1. \A r \in Rows : /\ Marked(r) \in Version /\ Marked(r).text = ver[r].text
                          /\ Approved(r) \in Version /\ Approved(r).text = ver[r].text
                          /\ Canceled(r) \in Version /\ Canceled(r).text = ver[r].text
      BY <1>0, NewTokenFresh DEF Version, Status
    <3>2. \E r \in Rows : /\ \/ ver' = [ver EXCEPT ![r] = Marked(r)]
                            \/ ver' = [ver EXCEPT ![r] = Approved(r)]
                            \/ ver' = [ver EXCEPT ![r] = Canceled(r)]
                         /\ live' = live
      BY <1>0, <1>4 DEF InitiateArchiving, ApproveArchiving, CancelArchiving, InStatus
    <3> HIDE DEF Marked, Approved, Canceled
    <3> QED
      BY <3>1, <3>2
  <2> QED
    BY <1>0, <2>1 DEF Frozen
<1>5. ASSUME NEW p \in Procs, CommitTransition(p) PROVE Frozen
  <2> DEFINE c == call[p]
             old == ArchivePredecessors(c)
  <2>1. \A r \in Rows : old[r] \in Version /\ old[r].text = ver[r].text
    BY <1>0, NewTokenFresh DEF ArchivePredecessors, Version, Status
  <2>2. \A v \in Version : TransitionRow(c, v).text = v.text
    BY DEF TransitionRow, Version
  <2>3. \A r \in Rows : ver'[r] = IF r = c.row THEN TransitionRow(c, old[r]) ELSE old[r]
    BY <1>5 DEF CommitTransition, ArchivePredecessors
  <2> QED
    BY <1>0, <2>1, <2>2, <2>3 DEF Frozen
<1>6. ASSUME NEW p \in Procs, CommitDelete(p) PROVE Frozen
  BY <1>0, <1>6 DEF CommitDelete, Frozen
<1>7. CASE Write
  BY <1>1, <1>2, <1>3, <1>4, <1>5, <1>6, <1>7
  DEF Write, Create, SaveAsNewDraft, Reactivate, Unlink, CommitRestore, CommitLink
<1>8. CASE Read \/ UNCHANGED vars
  BY <1>1, <1>8 DEF Read, LoadForm, CloseForm, ReadTransition, ReadDelete, ReadRestore,
                    ReadLink, Abort, tables, vars
<1> QED
  BY <1>7, <1>8 DEF Next

(* What is under review, published or archived keeps its content, even when *)
(* a save races a status change (editRequirement, transitionStatus).        *)
THEOREM ContentStaysFrozen == Spec => ContentFrozen
<1>1. TypeOK /\ [Next]_vars => [Frozen]_vars
  BY StepFreezes
<1> QED
  BY <1>1, TypeCorrect, PTL DEF Spec, ContentFrozen, Frozen

-----------------------------------------------------------------------------
(* One request at a time *)

(* Requests run one at a time still obey Next, so what Spec keeps they keep. *)
LEMMA SerialIsSpec == SerialSpec => Spec
<1>1. [SerialNext]_vars => [Next]_vars
  BY DEF SerialNext
<1> QED
  BY <1>1, PTL DEF SerialSpec, Spec

Quiet == \A p \in Procs : call[p] = Idle

OneCall == \A p, q \in Procs : call[p] # Idle /\ call[q] # Idle => p = q

(* The version a status change reads allows it. *)
Allowed(c) ==
    /\ <<c.status, c.to>> \in StatusTransitions
    /\ c.status = Review => IF c.archive_initiated THEN c.to \in {Archived, Published}
                                                   ELSE c.to # Archived

(* A snapshot is still what the tables hold when its request writes. *)
Current(c) ==
    /\ c.op = "transition" =>
          /\ c.row \in live
          /\ ver[c.row].status = c.status
          /\ ver[c.row].archive_initiated = c.archive_initiated
          /\ Allowed(c)
          /\ c.archived = archived
    /\ c.op = "delete" => c.row \in live /\ ver[c.row].status = Draft
    /\ c.op = "link" => InStatus(Published) # {}

SnapshotCurrent == \A p \in Procs : Current(call[p])

\* With no request under way nothing can be stale.
LEMMA QuietIsCurrent == Quiet => OneCall /\ SnapshotCurrent
  BY DEF Quiet, OneCall, SnapshotCurrent, Current, Idle

(* Only a commit or a rollback runs while a request is between its read and *)
(* its writes.                                                              *)
LEMMA SerialStep ==
    ASSUME TypeOK, OneCall, SerialNext
    PROVE  \/ Quiet
           \/ Quiet' /\ \E p \in Procs :
                 \/ Abort(p)
                 \/ /\ UniqueIndexes'
                    /\ \/ CommitTransition(p) \/ CommitDelete(p)
                       \/ CommitRestore(p) \/ CommitLink(p)
<1> SUFFICES ASSUME ~Quiet
             PROVE  Quiet' /\ \E p \in Procs :
                       \/ Abort(p)
                       \/ /\ UniqueIndexes'
                          /\ \/ CommitTransition(p) \/ CommitDelete(p)
                             \/ CommitRestore(p) \/ CommitLink(p)
  OBVIOUS
<1>1. PICK p \in Procs : call[p] # Idle /\ call'[p] = Idle
  BY DEF SerialNext, OneAtATime, Quiet
<1>2. \A q \in Procs : q # p => call[q] = Idle
  BY <1>1 DEF OneCall
<1>3. ASSUME NEW q \in Procs, Abort(q) \/ CommitTransition(q) \/ CommitDelete(q)
                              \/ CommitRestore(q) \/ CommitLink(q)
      PROVE  Quiet'
  <2>1. call' = [call EXCEPT ![q] = Idle]
    BY <1>3 DEF Abort, CommitTransition, CommitDelete, CommitRestore, CommitLink
  <2>2. q = p
    BY <1>1, <2>1 DEF TypeOK
  <2> QED
    BY <1>2, <2>1, <2>2 DEF Quiet, TypeOK
<1>4. call' # call
  BY <1>1
<1>5. CASE Write /\ UniqueIndexes'
  BY <1>3, <1>4, <1>5 DEF Write, Create, SaveInPlace, SaveAsNewDraft, InsertDraft,
     InitiateArchiving, ApproveArchiving, CancelArchiving, Reactivate, Unlink
<1>6. CASE Read
  <2>1. ASSUME NEW q \in Procs,
               (\E to \in Status : ReadTransition(q, to)) \/ ReadDelete(q)
               \/ ReadRestore(q) \/ ReadLink(q)
        PROVE  FALSE
    <3>1. call[q] = Idle /\ \E c : call' = [call EXCEPT ![q] = c]
      BY <2>1 DEF ReadTransition, ReadDelete, ReadRestore, ReadLink
    <3> QED
      BY <1>1, <3>1 DEF TypeOK
  <2> QED
    BY <1>3, <1>4, <1>6, <2>1 DEF Read, LoadForm, CloseForm
<1> QED
  BY <1>5, <1>6 DEF SerialNext, Next

\* Run one at a time, a request still sees at its commit what it read.
LEMMA SnapshotStep ==
    ASSUME TypeOK, OneCall, SnapshotCurrent, [SerialNext]_vars
    PROVE  OneCall' /\ SnapshotCurrent'
<1>1. CASE UNCHANGED vars
  BY <1>1 DEF vars, tables, OneCall, SnapshotCurrent, Current, Allowed, InStatus
<1>2. CASE Quiet'
  BY <1>2, QuietIsCurrent, PTL
<1>3. ASSUME Quiet, call' = call PROVE Quiet'
  BY <1>3 DEF Quiet
<1>4. CASE Quiet /\ SerialNext
  <2>1. CASE Write
    <3>1. ASSUME NEW p \in Procs
          PROVE  ~ (CommitTransition(p) \/ CommitDelete(p) \/ CommitRestore(p)
                    \/ CommitLink(p))
      BY <1>4 DEF Quiet, Idle, CommitTransition, CommitDelete, CommitRestore, CommitLink
    <3>2. call' = call
      BY <2>1, <3>1 DEF Write, Create, SaveInPlace, SaveAsNewDraft,
         InitiateArchiving, ApproveArchiving, CancelArchiving, Reactivate, Unlink
    <3> QED
      BY <1>2, <1>3, <1>4, <3>2
  <2>2. ASSUME NEW e \in Editors, LoadForm(e) \/ CloseForm(e) PROVE call' = call
    BY <2>2 DEF LoadForm, CloseForm
  <2>3. ASSUME NEW p \in Procs,
               \/ \E to \in Status : ReadTransition(p, to)
               \/ ReadDelete(p) \/ ReadRestore(p) \/ ReadLink(p) \/ Abort(p)
        PROVE  OneCall' /\ SnapshotCurrent'
    <3>1. ASSUME NEW c, call' = [call EXCEPT ![p] = c], Current(c)', UNCHANGED tables
          PROVE  OneCall' /\ SnapshotCurrent'
      <4>1. \A q \in Procs : call'[q] = IF q = p THEN c ELSE Idle
        BY <1>4, <3>1 DEF Quiet, TypeOK
      <4>2. Current(Idle)'
        BY DEF Current, Idle
      <4> QED
        BY <3>1, <4>1, <4>2 DEF OneCall, SnapshotCurrent
    <3>2. ASSUME NEW to \in Status, ReadTransition(p, to)
          PROVE  OneCall' /\ SnapshotCurrent'
      <4>1. PICK c : /\ call' = [call EXCEPT ![p] = c]
                     /\ c.op = "transition" /\ c.row \in live
                     /\ c.status = ver[c.row].status
                     /\ c.archive_initiated = ver[c.row].archive_initiated
                     /\ Allowed(c) /\ c.archived = archived
                     /\ UNCHANGED tables
        <5>1. PICK r \in live :
                /\ <<ver[r].status, to>> \in StatusTransitions
                /\ ver[r].status = Review =>
                      IF ver[r].archive_initiated THEN to \in {Archived, Published}
                                                  ELSE to # Archived
                /\ call' = [call EXCEPT ![p] =
                      [op |-> "transition", to |-> to, row |-> r,
                       status |-> ver[r].status,
                       archive_initiated |-> ver[r].archive_initiated,
                       archived |-> archived]]
          BY <3>2 DEF ReadTransition
        <5>2. UNCHANGED tables
          BY <3>2 DEF ReadTransition
        <5> WITNESS [op |-> "transition", to |-> to, row |-> r,
                     status |-> ver[r].status,
                     archive_initiated |-> ver[r].archive_initiated,
                     archived |-> archived]
        <5> QED
          BY <5>1, <5>2 DEF Allowed
      <4>2. Current(c)'
        BY <4>1 DEF Current, Allowed, tables
      <4> QED
        BY <3>1, <4>1, <4>2
    <3>3. CASE ReadDelete(p)
      <4>1. PICK r \in live : /\ ver[r].status = Draft
                             /\ call' = [call EXCEPT ![p] = [op |-> "delete", row |-> r]]
                             /\ UNCHANGED tables
        BY <3>3 DEF ReadDelete, InStatus
      <4>2. Current([op |-> "delete", row |-> r])'
        BY <4>1 DEF Current, tables
      <4> QED
        BY <3>1, <4>1, <4>2
    <3>4. CASE ReadRestore(p) \/ ReadLink(p)
      <4>1. PICK c : /\ call' = [call EXCEPT ![p] = c] /\ c.op \in {"restore", "link"}
                     /\ c.op = "link" => InStatus(Published) # {}
                     /\ UNCHANGED tables
        BY <3>4 DEF ReadRestore, ReadLink
      <4>2. Current(c)'
        BY <4>1 DEF Current, InStatus, tables
      <4> QED
        BY <3>1, <4>1, <4>2
    <3>5. CASE Abort(p)
      BY <1>4, <3>5 DEF Abort, Quiet
    <3> QED
      BY <2>3, <3>2, <3>3, <3>4, <3>5
  <2> QED
    BY <1>2, <1>3, <1>4, <2>1, <2>2, <2>3 DEF SerialNext, Next, Read
<1> QED
  BY <1>1, <1>2, <1>4, SerialStep

(* Run one at a time, a request writes what it decided on. *)
THEOREM SerialSnapshots == SerialSpec => [](TypeOK /\ OneCall /\ SnapshotCurrent)
<1>1. Init => OneCall /\ SnapshotCurrent
  BY QuietIsCurrent DEF Init, Quiet
<1>2. TypeOK /\ OneCall /\ SnapshotCurrent /\ [SerialNext]_vars
        => OneCall' /\ SnapshotCurrent'
  BY SnapshotStep
<1> QED
  BY <1>1, <1>2, SerialIsSpec, TypeCorrect, PTL DEF SerialSpec

-----------------------------------------------------------------------------
(* The lifecycle dates *)

Dated(v) ==
    /\ v.published_at <=> v.status \in {Published, Archived} \/ v.archive_initiated
    /\ v.archive_initiated => v.status = Review
    /\ v.archived_at <=> v.status = Archived

\* The dates of the lifecycle are a matter of each version alone.
LEMMA DatesByVersion == LifecycleDates <=> \A r \in live : Dated(ver[r])
  BY DEF LifecycleDates, Dated

(* Changing one version keeps the dates of all when it keeps its own. *)
LEMMA OneRowDated ==
    ASSUME TypeOK, LifecycleDates, NEW r \in Rows, NEW v,
           ver' = [ver EXCEPT ![r] = v], live' \subseteq live \cup {r},
           r \in live' => Dated(v)
    PROVE  LifecycleDates'
<1>1. \A q \in live' : Dated(ver'[q])
  BY DatesByVersion DEF TypeOK
<1> QED
  BY <1>1 DEF LifecycleDates, Dated

(* The row a status change writes, whatever its dates were allowed to be. *)
LEMMA TransitionRowDated ==
    ASSUME TypeOK, NEW c \in TransitionCall, Current(c), Dated(ver[c.row]),
           NEW v \in Version, v.archived_at = ver[c.row].archived_at,
           v.published_at = ver[c.row].published_at
    PROVE  Dated(TransitionRow(c, v))
<1> DEFINE old == ver[c.row]
           new == TransitionRow(c, v)
<1>1. /\ old.status = c.status /\ old.archive_initiated = c.archive_initiated
      /\ Allowed(c)
  BY DEF Current, TransitionCall
<1>2. /\ new.status = c.to
      /\ new.archive_initiated = ArchiveInitiatedAfter(c)
      /\ Publishes(c) => new.published_at = TRUE
      /\ ~Publishes(c) => new.published_at = old.published_at
      /\ c.to = Archived => new.archived_at = TRUE
      /\ c.to # Archived => new.archived_at = old.archived_at
  BY DEF TransitionRow, Version
<1>3. /\ Draft # Review /\ Draft # Published /\ Draft # Archived /\ Review # Published
      /\ Review # Archived /\ Published # Archived
  BY DEF Draft, Review, Published, Archived
<1> SUFFICES Dated(new)
  OBVIOUS
<1> HIDE DEF new
<1>4. CASE c.status = Draft /\ c.to = Review
  <2>1. ~Publishes(c) /\ ~ArchiveInitiatedAfter(c)
    BY <1>1, <1>3, <1>4 DEF Publishes, ArchiveInitiatedAfter, Dated
  <2> QED
    BY <1>1, <1>2, <1>3, <1>4, <2>1, Zenon DEF Dated
<1>5. CASE c.status = Review /\ c.to = Published
  <2>1. ~ArchiveInitiatedAfter(c)
    BY <1>1, <1>3, <1>5 DEF ArchiveInitiatedAfter, Dated
  <2>2. new.published_at
    <3>1. CASE c.archive_initiated
      BY <1>1, <1>2, <1>3, <1>5, <3>1, Zenon DEF Publishes, Dated
    <3>2. CASE ~c.archive_initiated
      BY <1>2, <1>5, <3>2, Zenon DEF Publishes
    <3> QED
      BY <3>1, <3>2
  <2> QED
    BY <1>1, <1>2, <1>3, <1>5, <2>1, <2>2, Zenon DEF Dated
<1>6. CASE c.status = Review /\ c.to = Draft
  <2>1. ~Publishes(c) /\ ~ArchiveInitiatedAfter(c) /\ ~old.archive_initiated
    BY <1>1, <1>3, <1>6, Zenon DEF Publishes, ArchiveInitiatedAfter, Dated, Allowed
  <2> QED
    BY <1>1, <1>2, <1>3, <1>6, <2>1, Zenon DEF Dated
<1>7. CASE c.status = Published /\ c.to = Review
  <2>1. ~Publishes(c) /\ ArchiveInitiatedAfter(c)
    BY <1>3, <1>7 DEF Publishes, ArchiveInitiatedAfter
  <2> QED
    BY <1>1, <1>2, <1>3, <1>7, <2>1, Zenon DEF Dated
<1>8. CASE c.status = Review /\ c.to = Archived
  <2>1. ~Publishes(c) /\ ~ArchiveInitiatedAfter(c) /\ old.archive_initiated
    BY <1>1, <1>3, <1>8, Zenon DEF Publishes, ArchiveInitiatedAfter, Allowed
  <2> QED
    BY <1>1, <1>2, <1>3, <1>8, <2>1, Zenon DEF Dated
<1> QED
  BY <1>1, <1>4, <1>5, <1>6, <1>7, <1>8 DEF Allowed, StatusTransitions

\* A transition that decides on current data leaves consistent dates.
LEMMA TransitionDated ==
    ASSUME TypeOK, LifecycleDates, NEW p \in Procs, Current(call[p]), CommitTransition(p)
    PROVE  LifecycleDates'
<1> DEFINE c == call[p]
           old == ArchivePredecessors(c)
<1>0. ver \in [Rows -> Version] /\ live \subseteq Rows
  BY DEF TypeOK
<1>1. c \in TransitionCall
  BY DEF CommitTransition, TypeOK, Call, DeleteCall, RestoreCall, LinkCall, Idle
<1>2. c.row \in live /\ live' = live
  BY DEF CommitTransition
<1>3. ver' = [old EXCEPT ![c.row] = TransitionRow(c, old[c.row])]
  BY DEF CommitTransition
<1>4. ASSUME NEW r \in live PROVE Dated(old[r]) /\ old[r] \in Version
  <2>1. CASE Publishes(c) /\ r \in InStatus(Published)
    <3>1. old[r] = [ver[r] EXCEPT !.status = Archived, !.archived_at = TRUE,
                                  !.token = NewToken(r)]
      BY <1>0, <2>1 DEF ArchivePredecessors
    <3>2. /\ ver[r].status = Published /\ ver[r] \in Version /\ Dated(ver[r])
          /\ NewToken(r) \in Tokens
      BY <1>0, <2>1, NewTokenFresh, DatesByVersion DEF InStatus
    <3>3. old[r] \in Version
      BY <3>1, <3>2 DEF Version, Status
    <3>4. /\ old[r].status = Archived /\ old[r].archived_at = TRUE
          /\ old[r].published_at = ver[r].published_at
          /\ old[r].archive_initiated = ver[r].archive_initiated
      BY <3>1, <3>2 DEF Version
    <3> QED
      BY <3>2, <3>3, <3>4 DEF Dated, Published, Review, Archived
  <2>2. CASE ~ (Publishes(c) /\ r \in InStatus(Published))
    <3>1. old[r] = ver[r]
      BY <1>0, <2>2 DEF ArchivePredecessors
    <3> QED
      BY <1>0, <3>1, DatesByVersion
  <2> QED
    BY <2>1, <2>2
<1>5. Dated(TransitionRow(c, old[c.row]))
  <2>1. old[c.row] = ver[c.row]
    <3>1. ver[c.row].status = c.status /\ Allowed(c)
      BY <1>1 DEF Current, TransitionCall
    <3>2. Publishes(c) => c.row \notin InStatus(Published)
      BY <3>1 DEF Publishes, Allowed, StatusTransitions, InStatus, Draft, Review,
                  Published, Archived
    <3> QED
      BY <1>0, <1>2, <3>2 DEF ArchivePredecessors
  <2>2. ver[c.row] \in Version /\ Dated(ver[c.row])
    BY <1>0, <1>2, DatesByVersion
  <2> QED
    BY <1>1, <2>1, <2>2, TransitionRowDated
<1>6. \A r \in live' : Dated(ver'[r])
  <2>1. old \in [Rows -> {old[r] : r \in Rows}]
    BY DEF ArchivePredecessors
  <2> QED
    BY <1>0, <1>2, <1>3, <1>4, <1>5, <2>1
<1> QED
  BY <1>6 DEF LifecycleDates, Dated

\* So does every other write.
LEMMA WriteDated ==
    ASSUME TypeOK, LifecycleDates, SnapshotCurrent, Write
    PROVE  LifecycleDates'
<1>0. ver \in [Rows -> Version] /\ live \subseteq Rows
  BY DEF TypeOK
<1>1. ASSUME UNCHANGED <<live, ver>> PROVE LifecycleDates'
  BY <1>1 DEF LifecycleDates
<1>2. ASSUME NEW r \in Rows, NEW n, NEW x, NEW b, InsertDraft(r, n, x, b)
      PROVE  LifecycleDates'
  <2>1. Dated(NewDraft(n, x, NewToken(r)))
    BY DEF Dated, NewDraft, Draft, Review, Published, Archived
  <2> QED
    BY <1>2, <2>1, OneRowDated DEF InsertDraft
<1>3. ASSUME NEW e \in Editors, NEW x \in Texts, NEW b \in Membership,
             SaveInPlace(e, x, b)
      PROVE  LifecycleDates'
  <2> DEFINE r == form[e].row
             v == [ver[r] EXCEPT !.text = x, !.token = NewToken(r)]
  <2>1. r \in live /\ live' = live /\ ver' = [ver EXCEPT ![r] = v]
    BY <1>3 DEF SaveInPlace, BaseIsCurrent, IsLatest
  <2>2. /\ v.status = ver[r].status /\ v.published_at = ver[r].published_at
        /\ v.archived_at = ver[r].archived_at
        /\ v.archive_initiated = ver[r].archive_initiated
    BY <1>0, <2>1 DEF Version
  <2> HIDE DEF r, v
  <2>3. Dated(v)
    BY <2>1, <2>2, DatesByVersion DEF Dated
  <2> QED
    BY <1>0, <2>1, <2>3, OneRowDated
<1>4. CASE InitiateArchiving
  <2>1. PICK r \in live : /\ ver[r].status = Published /\ live' = live
              /\ ver' = [ver EXCEPT ![r] = [ver[r] EXCEPT !.status = Review,
                           !.archive_initiated = TRUE, !.token = NewToken(r)]]
    BY <1>4 DEF InitiateArchiving, InStatus
  <2> DEFINE v == [ver[r] EXCEPT !.status = Review, !.archive_initiated = TRUE,
                                 !.token = NewToken(r)]
  <2>2. /\ v.status = Review /\ v.archive_initiated = TRUE
        /\ v.published_at = ver[r].published_at /\ v.archived_at = ver[r].archived_at
    BY <1>0, <2>1 DEF Version
  <2>3. ver' = [ver EXCEPT ![r] = v]
    BY <2>1
  <2> HIDE DEF v
  <2>4. Dated(v)
    BY <2>1, <2>2, DatesByVersion DEF Dated, Published, Review, Archived
  <2> QED
    BY <1>0, <2>1, <2>3, <2>4, OneRowDated
<1>5. CASE ApproveArchiving
  <2>1. PICK r \in live : /\ ver[r].archive_initiated /\ live' = live
              /\ ver' = [ver EXCEPT ![r] = [ver[r] EXCEPT !.status = Archived,
                           !.archived_at = TRUE, !.archive_initiated = FALSE,
                           !.token = NewToken(r)]]
    BY <1>5 DEF ApproveArchiving, IsArchivingReview
  <2> DEFINE v == [ver[r] EXCEPT !.status = Archived, !.archived_at = TRUE,
                                 !.archive_initiated = FALSE, !.token = NewToken(r)]
  <2>2. /\ v.status = Archived /\ v.archive_initiated = FALSE
        /\ v.published_at = ver[r].published_at /\ v.archived_at = TRUE
    BY <1>0, <2>1 DEF Version
  <2>3. ver' = [ver EXCEPT ![r] = v]
    BY <2>1
  <2> HIDE DEF v
  <2>4. Dated(v)
    BY <2>1, <2>2, DatesByVersion DEF Dated, Published, Review, Archived
  <2> QED
    BY <1>0, <2>1, <2>3, <2>4, OneRowDated
<1>6. CASE CancelArchiving
  <2>1. PICK r \in live : /\ ver[r].archive_initiated /\ live' = live
              /\ ver' = [ver EXCEPT ![r] = [ver[r] EXCEPT !.status = Published,
                           !.archive_initiated = FALSE, !.token = NewToken(r)]]
    BY <1>6 DEF CancelArchiving, IsArchivingReview
  <2> DEFINE v == [ver[r] EXCEPT !.status = Published, !.archive_initiated = FALSE,
                                 !.token = NewToken(r)]
  <2>2. /\ v.status = Published /\ v.archive_initiated = FALSE
        /\ v.published_at = ver[r].published_at /\ v.archived_at = ver[r].archived_at
    BY <1>0, <2>1 DEF Version
  <2>3. ver' = [ver EXCEPT ![r] = v]
    BY <2>1
  <2> HIDE DEF v
  <2>4. Dated(v)
    BY <2>1, <2>2, DatesByVersion DEF Dated, Published, Review, Archived
  <2> QED
    BY <1>0, <2>1, <2>3, <2>4, OneRowDated
<1>7. ASSUME NEW p \in Procs, CommitTransition(p) PROVE LifecycleDates'
  BY <1>7, TransitionDated DEF SnapshotCurrent
<1>8. ASSUME NEW p \in Procs, CommitDelete(p) PROVE LifecycleDates'
  <2>1. \A r \in live' : r \in live /\ ver'[r] = ver[r]
    BY <1>0, <1>8 DEF CommitDelete
  <2> QED
    BY <2>1 DEF LifecycleDates
<1> QED
  BY <1>1, <1>2, <1>3, <1>4, <1>5, <1>6, <1>7, <1>8
  DEF Write, Create, SaveAsNewDraft, Reactivate, Unlink, CommitRestore, CommitLink

\* And so does every step.
LEMMA StepDated ==
    TypeOK /\ LifecycleDates /\ SnapshotCurrent /\ [SerialNext]_vars => LifecycleDates'
<1>1. UNCHANGED <<live, ver>> /\ LifecycleDates => LifecycleDates'
  BY DEF LifecycleDates
<1>2. Read \/ UNCHANGED vars => UNCHANGED <<live, ver>>
  BY DEF Read, LoadForm, CloseForm, ReadTransition, ReadDelete, ReadRestore,
         ReadLink, Abort, tables, vars
<1> QED
  BY <1>1, <1>2, WriteDated DEF SerialNext, Next

(* Run one at a time, the requests keep the documented dates of each status *)
(* (transitionStatus, the archiving requests, createRequirement).           *)
THEOREM SerialDates == SerialSpec => []LifecycleDates
<1>1. Init => LifecycleDates
  BY DEF Init, LifecycleDates
<1> QED
  BY <1>1, StepDated, SerialSnapshots, PTL DEF SerialSpec

-----------------------------------------------------------------------------
(* The published workflow *)

StateOf(v) == IF v.archive_initiated THEN "ArchivingReview" ELSE v.status

StateAt(r) == IF r \notin live THEN "None" ELSE StateOf(ver[r])

\* The workflow state of a version depends on that version alone.
LEMMA WorkflowStates == WorkflowState = [r \in Rows |-> StateAt(r)]
  BY DEF WorkflowState, StateAt, StateOf

(* A request that touches one version moves that version alone. *)
LEMMA OneMove ==
    ASSUME TypeOK, NEW r \in Rows, NEW v, ver' = [ver EXCEPT ![r] = v],
           \A q \in Rows \ {r} : q \in live' <=> q \in live
    PROVE  WorkflowState' = [WorkflowState EXCEPT
                                ![r] = IF r \notin live' THEN "None" ELSE StateOf(v)]
<1>1. \A q \in Rows : StateAt(q)' = IF q = r
                                    THEN IF r \notin live' THEN "None" ELSE StateOf(v)
                                    ELSE StateAt(q)
  BY DEF StateAt, StateOf, TypeOK
<1>2. WorkflowState' = [q \in Rows |-> StateAt(q)']
  BY DEF WorkflowState, StateAt, StateOf
<1> QED
  BY <1>1, <1>2, WorkflowStates

\* Rewriting one version moves that version alone in the workflow.
LEMMA LiveMove ==
    ASSUME TypeOK, NEW r \in live, NEW v, ver' = [ver EXCEPT ![r] = v], live' = live
    PROVE  /\ WorkflowState' = [WorkflowState EXCEPT ![r] = StateOf(v)]
           /\ WorkflowState[r] = StateOf(ver[r])
<1>1. r \in Rows
  BY DEF TypeOK
<1>2. WorkflowState' = [WorkflowState EXCEPT
                           ![r] = IF r \notin live' THEN "None" ELSE StateOf(v)]
  BY <1>1, OneMove
<1>3. WorkflowState[r] = StateOf(ver[r])
  BY <1>1, WorkflowStates DEF StateAt
<1> QED
  BY <1>2, <1>3

\* A step that writes no version moves nothing in the workflow.
LEMMA SameStates == UNCHANGED <<live, ver>> => UNCHANGED WorkflowState
  BY DEF WorkflowState

\* An insertion authors a Draft.
LEMMA InsertDraftAuthors ==
    ASSUME TypeOK, NEW r \in Rows, NEW n, NEW x, NEW b, InsertDraft(r, n, x, b)
    PROVE  Workflow!Next
<1> DEFINE v == NewDraft(n, x, NewToken(r))
<1>1. StateOf(v) = "Draft"
  BY DEF NewDraft, StateOf, Draft
<1>2. ver' = [ver EXCEPT ![r] = v] /\ live' = live \cup {r} /\ r \notin live
  BY DEF InsertDraft, FreshRow
<1> HIDE DEF v
<1>3. WorkflowState' = [WorkflowState EXCEPT ![r] = "Draft"]
  BY <1>1, <1>2, OneMove
<1>4. WorkflowState[r] = "None"
  BY <1>2, WorkflowStates DEF StateAt
<1>5. Workflow!Author(r)
  BY <1>3, <1>4 DEF Workflow!Author, Workflow!Move
<1> QED
  BY <1>5 DEF Workflow!Next

(* A status change that publishes a reviewed version replaces the one in use. *)
LEMMA PublicationPublishes ==
    ASSUME TypeOK, LifecycleDates, NEW p \in Procs, Current(call[p]),
           CommitTransition(p), Publishes(call[p])
    PROVE  Workflow!Publish(call[p].row)
<1> DEFINE c == call[p]
           old == ArchivePredecessors(c)
<1>0. ver \in [Rows -> Version] /\ live \subseteq Rows
  BY DEF TypeOK
<1>1. c \in TransitionCall
  BY DEF CommitTransition, TypeOK, Call, DeleteCall, RestoreCall, LinkCall, Idle
<1>2. PICK row \in live : /\ c.row = row /\ live' = live
        /\ ver' = [old EXCEPT ![row] = TransitionRow(c, old[row])]
  BY DEF CommitTransition
<1>3. /\ c.to = Published /\ c.status = Review /\ ~c.archive_initiated
      /\ ver[row].status = Review /\ ~ver[row].archive_initiated
  BY <1>1, <1>2 DEF Publishes, Current, Allowed, StatusTransitions, TransitionCall,
                    Draft, Review, Published, Archived
<1>4. StateAt(row) = "Review"
  BY <1>2, <1>3 DEF StateAt, StateOf, Review
<1>5. StateAt(row)' = "Published"
  <2>1. old[row] = ver[row]
    BY <1>0, <1>2, <1>3 DEF ArchivePredecessors, InStatus, Review, Published
  <2>2. ver'[row] = TransitionRow(c, ver[row])
    BY <1>0, <1>2, <2>1 DEF ArchivePredecessors
  <2>3. ~ArchiveInitiatedAfter(c)
    BY <1>2, <1>3 DEF ArchiveInitiatedAfter, Review, Published
  <2>4. ver'[row].status = c.to /\ ver'[row].archive_initiated = ArchiveInitiatedAfter(c)
    BY <1>0, <2>2 DEF TransitionRow, Version
  <2>5. ver'[row].status = Published /\ ~ver'[row].archive_initiated
    BY <1>3, <2>3, <2>4
  <2> QED
    BY <1>2, <2>5 DEF StateAt, StateOf, Published
<1>6. ASSUME NEW r \in Rows, r # row
      PROVE  StateAt(r)' = IF StateAt(r) = "Published" THEN "Archived" ELSE StateAt(r)
  <2>1. ver'[r] = old[r]
    BY <1>0, <1>2, <1>6 DEF ArchivePredecessors
  <2>2. CASE r \notin live
    BY <1>2, <2>2 DEF StateAt
  <2>3. CASE r \in live /\ ver[r].status = Published
    <3>1. old[r] = [ver[r] EXCEPT !.status = Archived, !.archived_at = TRUE,
                                  !.token = NewToken(r)]
      BY <1>0, <2>3 DEF ArchivePredecessors, InStatus
    <3>2. ~ver[r].archive_initiated
      BY <2>3 DEF LifecycleDates, Review, Published
    <3>3. old[r].status = Archived /\ ~old[r].archive_initiated
      BY <1>0, <3>1, <3>2 DEF Version
    <3> QED
      BY <1>2, <2>1, <2>3, <3>2, <3>3 DEF StateAt, StateOf, Published, Archived
  <2>4. CASE r \in live /\ ver[r].status # Published
    <3>1. old[r] = ver[r]
      BY <1>0, <2>4 DEF ArchivePredecessors, InStatus
    <3> QED
      BY <1>2, <2>1, <2>4, <3>1 DEF StateAt, StateOf, Published
  <2> QED
    BY <2>2, <2>3, <2>4
<1>7. WorkflowState' = [r \in Rows |-> StateAt(r)']
  BY DEF WorkflowState, StateAt, StateOf
<1> QED
  BY <1>0, <1>2, <1>4, <1>5, <1>6, <1>7, WorkflowStates DEF Workflow!Publish

(* Every other status change moves the one version it read. *)
LEMMA TransitionMoves ==
    ASSUME TypeOK, LifecycleDates, NEW p \in Procs, Current(call[p]),
           CommitTransition(p), UniqueIndexes', ~Publishes(call[p])
    PROVE  Workflow!Next
<1> DEFINE c == call[p]
           new == TransitionRow(c, ver[c.row])
<1>0. ver \in [Rows -> Version] /\ live \subseteq Rows
  BY DEF TypeOK
<1>1. c \in TransitionCall
  BY DEF CommitTransition, TypeOK, Call, DeleteCall, RestoreCall, LinkCall, Idle
<1>2. ArchivePredecessors(c) = ver
  BY <1>0 DEF ArchivePredecessors
<1>3. c.row \in live /\ live' = live /\ ver' = [ver EXCEPT ![c.row] = new]
  BY <1>2 DEF CommitTransition
<1>4. new.status = c.to /\ new.archive_initiated = ArchiveInitiatedAfter(c)
  BY <1>0, <1>3 DEF TransitionRow, Version
<1> HIDE DEF new
<1>5. /\ ver[c.row].status = c.status /\ ver[c.row].archive_initiated = c.archive_initiated
      /\ Allowed(c)
  BY <1>1 DEF Current, TransitionCall
<1>6. c.status # Review => ~ver[c.row].archive_initiated
  BY <1>3, <1>5 DEF LifecycleDates
<1>7. /\ WorkflowState[c.row] = StateOf(ver[c.row])
      /\ WorkflowState' = [WorkflowState EXCEPT ![c.row] = StateOf(new)]
  BY <1>0, <1>3, OneMove, WorkflowStates DEF StateAt
<1>8. CASE c.status = Draft /\ c.to = Review
  <2>1. StateOf(ver[c.row]) = "Draft" /\ StateOf(new) = "Review"
    BY <1>4, <1>5, <1>6, <1>8 DEF StateOf, ArchiveInitiatedAfter, Draft, Review, Published
  <2> QED
    BY <1>0, <1>3, <1>7, <2>1 DEF Workflow!Next, Workflow!Submit, Workflow!Move
<1>9. CASE c.status = Review /\ c.to = Draft
  <2>1. ~c.archive_initiated
    BY <1>5, <1>9 DEF Allowed, Draft, Published, Archived
  <2>2. StateOf(ver[c.row]) = "Review" /\ StateOf(new) = "Draft"
    BY <1>4, <1>5, <1>9, <2>1 DEF StateOf, ArchiveInitiatedAfter, Draft, Review, Published
  <2> QED
    BY <1>0, <1>3, <1>7, <2>2 DEF Workflow!Next, Workflow!ReturnToDraft, Workflow!Move
<1>10. CASE c.status = Published /\ c.to = Review
  <2>1. StateOf(ver[c.row]) = "Published" /\ StateOf(new) = "ArchivingReview"
    BY <1>4, <1>5, <1>6, <1>10 DEF StateOf, ArchiveInitiatedAfter, Review, Published
  <2> QED
    BY <1>0, <1>3, <1>7, <2>1 DEF Workflow!Next, Workflow!InitiateArchiving, Workflow!Move
<1>11. CASE c.status = Review /\ c.to = Archived
  <2>1. c.archive_initiated
    BY <1>5, <1>11 DEF Allowed
  <2>2. StateOf(ver[c.row]) = "ArchivingReview" /\ StateOf(new) = "Archived"
    BY <1>4, <1>5, <1>11, <2>1
    DEF StateOf, ArchiveInitiatedAfter, Review, Published, Archived
  <2> QED
    BY <1>0, <1>3, <1>7, <2>2 DEF Workflow!Next, Workflow!ApproveArchiving, Workflow!Move
<1>12. CASE c.status = Review /\ c.to = Published
  <2>1. c.archive_initiated
    BY <1>12 DEF Publishes
  <2>2. StateOf(ver[c.row]) = "ArchivingReview" /\ StateOf(new) = "Published"
    BY <1>4, <1>5, <1>12, <2>1 DEF StateOf, ArchiveInitiatedAfter, Review, Published
  <2>3. new.status = Published
    BY <1>4, <1>12
  <2>4. \A w \in Rows : WorkflowState[w] # "Published"
    BY <1>0, <1>3, <1>5, <1>12, <2>3, WorkflowStates
    DEF UniqueIndexes, StateAt, StateOf, Review, Published
  <2> QED
    BY <1>0, <1>3, <1>7, <2>2, <2>4 DEF Workflow!Next, Workflow!CancelArchiving, Workflow!Move
<1> QED
  BY <1>5, <1>8, <1>9, <1>10, <1>11, <1>12 DEF Allowed, StatusTransitions

\* A write that decides on current data is a move of the workflow.
LEMMA WriteFollowsWorkflow ==
    ASSUME TypeOK, LifecycleDates, SnapshotCurrent, Write, UniqueIndexes'
    PROVE  [Workflow!Next]_WorkflowState
<1>0. ver \in [Rows -> Version] /\ live \subseteq Rows
  BY DEF TypeOK
<1>1. ASSUME NEW r \in Rows, NEW n, NEW x, NEW b, InsertDraft(r, n, x, b)
      PROVE  Workflow!Next
  BY <1>1, InsertDraftAuthors
<1>2. ASSUME NEW e \in Editors, NEW x \in Texts, NEW b \in Membership,
             SaveInPlace(e, x, b)
      PROVE  UNCHANGED WorkflowState
  <2> DEFINE r == form[e].row
             v == [ver[r] EXCEPT !.text = x, !.token = NewToken(r)]
  <2>1. r \in live /\ live' = live /\ ver' = [ver EXCEPT ![r] = v]
    BY <1>2 DEF SaveInPlace, BaseIsCurrent, IsLatest
  <2>2. v.status = ver[r].status /\ v.archive_initiated = ver[r].archive_initiated
    BY <1>0, <2>1 DEF Version
  <2> HIDE DEF r, v
  <2>3. StateOf(v) = StateOf(ver[r])
    BY <2>2 DEF StateOf
  <2>4. /\ WorkflowState' = [WorkflowState EXCEPT ![r] = StateOf(v)]
        /\ WorkflowState[r] = StateOf(v)
    BY <2>1, <2>3, LiveMove
  <2> QED
    BY <2>4, WorkflowStates
<1>3. CASE InitiateArchiving
  <2>1. PICK r \in live : /\ ver[r].status = Published /\ ~ver[r].archive_initiated
              /\ live' = live
              /\ ver' = [ver EXCEPT ![r] = [ver[r] EXCEPT !.status = Review,
                           !.archive_initiated = TRUE, !.token = NewToken(r)]]
    BY <1>3 DEF InitiateArchiving, InStatus
  <2> DEFINE v == [ver[r] EXCEPT !.status = Review, !.archive_initiated = TRUE,
                                 !.token = NewToken(r)]
  <2>2. v.archive_initiated = TRUE
    BY <1>0, <2>1 DEF Version
  <2>3. ver' = [ver EXCEPT ![r] = v]
    BY <2>1
  <2> HIDE DEF v
  <2>4. StateOf(ver[r]) = "Published" /\ StateOf(v) = "ArchivingReview"
    BY <2>1, <2>2 DEF StateOf, Published
  <2>5. /\ WorkflowState' = [WorkflowState EXCEPT ![r] = StateOf(v)]
        /\ WorkflowState[r] = StateOf(ver[r])
    BY <2>1, <2>3, LiveMove
  <2>6. Workflow!InitiateArchiving(r)
    BY <2>4, <2>5 DEF Workflow!InitiateArchiving, Workflow!Move
  <2> QED
    BY <1>0, <2>6 DEF Workflow!Next
<1>4. CASE ApproveArchiving
  <2>1. PICK r \in live : /\ ver[r].archive_initiated /\ live' = live
              /\ ver' = [ver EXCEPT ![r] = [ver[r] EXCEPT !.status = Archived,
                           !.archived_at = TRUE, !.archive_initiated = FALSE,
                           !.token = NewToken(r)]]
    BY <1>4 DEF ApproveArchiving, IsArchivingReview
  <2> DEFINE v == [ver[r] EXCEPT !.status = Archived, !.archived_at = TRUE,
                                 !.archive_initiated = FALSE, !.token = NewToken(r)]
  <2>2. v.status = Archived /\ v.archive_initiated = FALSE
    BY <1>0, <2>1 DEF Version
  <2>3. ver' = [ver EXCEPT ![r] = v]
    BY <2>1
  <2> HIDE DEF v
  <2>4. StateOf(ver[r]) = "ArchivingReview" /\ StateOf(v) = "Archived"
    BY <2>1, <2>2 DEF StateOf, Archived
  <2>5. /\ WorkflowState' = [WorkflowState EXCEPT ![r] = StateOf(v)]
        /\ WorkflowState[r] = StateOf(ver[r])
    BY <2>1, <2>3, LiveMove
  <2>6. Workflow!ApproveArchiving(r)
    BY <2>4, <2>5 DEF Workflow!ApproveArchiving, Workflow!Move
  <2> QED
    BY <1>0, <2>6 DEF Workflow!Next
<1>5. CASE CancelArchiving
  <2>1. PICK r \in live : /\ ver[r].archive_initiated /\ live' = live
              /\ ver[r].status = Review
              /\ ver' = [ver EXCEPT ![r] = [ver[r] EXCEPT !.status = Published,
                           !.archive_initiated = FALSE, !.token = NewToken(r)]]
    BY <1>5 DEF CancelArchiving, IsArchivingReview
  <2> DEFINE v == [ver[r] EXCEPT !.status = Published, !.archive_initiated = FALSE,
                                 !.token = NewToken(r)]
  <2>2. v.status = Published /\ v.archive_initiated = FALSE
    BY <1>0, <2>1 DEF Version
  <2>3. ver' = [ver EXCEPT ![r] = v]
    BY <2>1
  <2> HIDE DEF v
  <2>4. StateOf(ver[r]) = "ArchivingReview" /\ StateOf(v) = "Published"
    BY <2>1, <2>2 DEF StateOf, Published
  <2>5. \A w \in Rows : WorkflowState[w] # "Published"
    BY <1>0, <2>1, <2>2, <2>3, WorkflowStates
    DEF UniqueIndexes, StateAt, StateOf, Review, Published
  <2>6. /\ WorkflowState' = [WorkflowState EXCEPT ![r] = StateOf(v)]
        /\ WorkflowState[r] = StateOf(ver[r])
    BY <2>1, <2>3, LiveMove
  <2>7. Workflow!CancelArchiving(r)
    BY <2>4, <2>5, <2>6 DEF Workflow!CancelArchiving, Workflow!Move
  <2> QED
    BY <1>0, <2>7 DEF Workflow!Next
<1>6. ASSUME NEW p \in Procs, CommitTransition(p) PROVE Workflow!Next
  <2>1. call[p].row \in Rows
    BY <1>0, <1>6 DEF CommitTransition
  <2> QED
    BY <1>6, <2>1, PublicationPublishes, TransitionMoves
    DEF SnapshotCurrent, Workflow!Next
<1>7. ASSUME NEW p \in Procs, CommitDelete(p) PROVE Workflow!Next
  <2> DEFINE r == call[p].row
  <2>1. r \in live /\ ver[r].status = Draft
    BY <1>7 DEF CommitDelete, SnapshotCurrent, Current
  <2>2. live' = live \ {r} /\ ver' = [ver EXCEPT ![r] = Blank]
    BY <1>7 DEF CommitDelete
  <2>3. StateAt(r) = "Draft"
    BY <2>1 DEF StateAt, StateOf, LifecycleDates, Draft, Review
  <2>4. Workflow!Discard(r)
    BY <1>0, <2>1, <2>2, <2>3, OneMove, WorkflowStates
    DEF Workflow!Discard, Workflow!Move
  <2> QED
    BY <1>0, <2>1, <2>4 DEF Workflow!Next
<1>8. ASSUME UNCHANGED <<live, ver>> PROVE UNCHANGED WorkflowState
  BY <1>8, SameStates
<1> QED
  BY <1>1, <1>2, <1>3, <1>4, <1>5, <1>6, <1>7, <1>8
  DEF Write, Create, SaveAsNewDraft, Reactivate, Unlink, CommitRestore, CommitLink

\* Every serial step is a move of the workflow, or none.
LEMMA StepFollowsWorkflow ==
    TypeOK /\ LifecycleDates /\ SnapshotCurrent /\ [SerialNext]_vars
        => [Workflow!Next]_WorkflowState
<1>1. Read \/ UNCHANGED vars => UNCHANGED <<live, ver>>
  BY DEF Read, LoadForm, CloseForm, ReadTransition, ReadDelete, ReadRestore,
         ReadLink, Abort, tables, vars
<1> QED
  BY <1>1, SameStates, WriteFollowsWorkflow DEF SerialNext, Next

(* Run one at a time, the requests walk the published state diagram and     *)
(* never leave two versions in use (lib/dal/requirements.ts, lib/           *)
(* requirements/lifecycle.ts).                                              *)
THEOREM SerialWorkflow == SerialSpec => ImplementsWorkflow
<1>1. Init => Workflow!Init
  BY DEF Init, Workflow!Init, WorkflowState
<1> QED
  BY <1>1, StepFollowsWorkflow, SerialSnapshots, SerialDates, PTL
  DEF SerialSpec, ImplementsWorkflow, Workflow!Spec

-----------------------------------------------------------------------------
(* What moves with a version: its links, its text, the archived flag *)

\* Under the documented dates the workflow state of a version is its status.
LEMMA StatesByStatus ==
    TypeOK /\ LifecycleDates =>
        \A r \in live : /\ r \in Rows
                        /\ WorkflowState[r] = "Draft" <=> ver[r].status = Draft
                        /\ WorkflowState[r] = "Published" <=> ver[r].status = Published
                        /\ WorkflowState[r] = "Archived" <=> ver[r].status = Archived
                        /\ WorkflowState[r] = "ArchivingReview" <=> ver[r].archive_initiated
                        /\ WorkflowState[r] # "None"
<1> SUFFICES ASSUME TypeOK, LifecycleDates, NEW r \in live
             PROVE  /\ r \in Rows
                    /\ WorkflowState[r] = "Draft" <=> ver[r].status = Draft
                    /\ WorkflowState[r] = "Published" <=> ver[r].status = Published
                    /\ WorkflowState[r] = "Archived" <=> ver[r].status = Archived
                    /\ WorkflowState[r] = "ArchivingReview" <=> ver[r].archive_initiated
                    /\ WorkflowState[r] # "None"
  OBVIOUS
<1>1. r \in Rows /\ ver[r] \in Version
  BY DEF TypeOK
<1>2. ver[r].archive_initiated => ver[r].status = Review
  BY DEF LifecycleDates
<1>3. ver[r].status \in {"Draft", "Review", "Published", "Archived"}
  BY <1>1 DEF Version, Status, Draft, Review, Published, Archived
<1>4. WorkflowState[r] = IF ver[r].archive_initiated THEN "ArchivingReview" ELSE ver[r].status
  BY <1>1, WorkflowStates DEF StateAt, StateOf
<1> QED
  BY <1>1, <1>2, <1>3, <1>4 DEF Draft, Review, Published, Archived

PublishedState == \E r \in Rows : WorkflowState[r] = "Published"

(* What a step does besides moving a version in the workflow: only a Draft  *)
(* is given packages, the approval of a review takes those of all others,   *)
(* an answer is linked only to what is published, the approval of an        *)
(* archiving leaves answers only to a Published version, and a text is      *)
(* noted when it is submitted and changes only in a Draft.                  *)
Bookkeeping ==
    /\ \A r \in linked' : r \in linked \/ WorkflowState'[r] = "Draft"
    /\ \A r \in Rows : WorkflowState[r] = "Review" /\ WorkflowState'[r] = "Published"
                          => linked' \subseteq {r}
    /\ selected' # {} => selected # {} \/ PublishedState
    /\ \A r \in Rows : WorkflowState[r] = "ArchivingReview" /\ WorkflowState'[r] = "Archived"
                          => selected' = {} \/ \E q \in Rows : WorkflowState'[q] = "Published"
    /\ \A r \in live' : \/ WorkflowState'[r] = "Draft"
                        \/ reviewed'[r] = ver'[r].text
                        \/ /\ r \in live /\ WorkflowState[r] # "Draft"
                           /\ ver'[r].text = ver[r].text
                           /\ reviewed'[r] = reviewed[r]

\* A step that moves nothing keeps the books.
LEMMA SameBooks ==
    ASSUME TypeOK, UNCHANGED <<live, ver, linked, reviewed>>,
           selected' # {} => selected # {} \/ PublishedState
    PROVE  Bookkeeping
<1>1. UNCHANGED WorkflowState
  BY SameStates
<1> QED
  BY <1>1 DEF Bookkeeping, TypeOK

\* A new draft is the only version it gives packages to.
LEMMA InsertBooks ==
    ASSUME TypeOK, NEW r \in Rows, NEW n, NEW x, NEW b, InsertDraft(r, n, x, b),
           UNCHANGED selected
    PROVE  Bookkeeping
<1> DEFINE v == NewDraft(n, x, NewToken(r))
<1>1. StateOf(v) = "Draft"
  BY DEF NewDraft, StateOf, Draft
<1>2. /\ ver' = [ver EXCEPT ![r] = v] /\ live' = live \cup {r} /\ r \notin live
      /\ linked' \subseteq linked \cup {r}
      /\ reviewed' = [reviewed EXCEPT ![r] = None]
  BY DEF InsertDraft, FreshRow
<1> HIDE DEF v
<1>3. WorkflowState' = [WorkflowState EXCEPT ![r] = "Draft"]
  BY <1>1, <1>2, OneMove
<1>4. WorkflowState \in [Rows -> {WorkflowState[q] : q \in Rows}]
  BY WorkflowStates
<1>5. \A q \in Rows : q # r => /\ WorkflowState'[q] = WorkflowState[q]
                               /\ ver'[q] = ver[q] /\ reviewed'[q] = reviewed[q]
  BY <1>2, <1>3, <1>4 DEF TypeOK
<1>6. WorkflowState'[r] = "Draft"
  BY <1>3, <1>4
<1>7. live \subseteq Rows /\ linked \subseteq live
  BY DEF TypeOK
<1> QED
  BY <1>2, <1>5, <1>6, <1>7 DEF Bookkeeping

\* Rewriting the status of a version that is not a Draft.
LEMMA LiveBooks ==
    ASSUME TypeOK, NEW r \in live, NEW v, ver' = [ver EXCEPT ![r] = v],
           UNCHANGED <<live, linked, reviewed>>, selected' \subseteq selected,
           v.text = ver[r].text, StateOf(ver[r]) # "Draft", StateOf(ver[r]) # "Review",
           StateOf(v) = "Archived" /\ selected' # {}
               => \E q \in Rows : WorkflowState'[q] = "Published"
    PROVE  Bookkeeping
<1>1. /\ WorkflowState' = [WorkflowState EXCEPT ![r] = StateOf(v)]
      /\ WorkflowState[r] = StateOf(ver[r])
  BY LiveMove
<1>2. WorkflowState \in [Rows -> {WorkflowState[q] : q \in Rows}]
  BY WorkflowStates
<1>3. \A q \in Rows : q # r => /\ WorkflowState'[q] = WorkflowState[q]
                               /\ ver'[q] = ver[q]
  BY <1>1, <1>2 DEF TypeOK
<1>4. WorkflowState'[r] = StateOf(v) /\ ver'[r].text = ver[r].text /\ r \in Rows
  BY <1>1, <1>2 DEF TypeOK
<1>5. live \subseteq Rows /\ linked \subseteq live
  BY DEF TypeOK
<1> QED
  BY <1>1, <1>3, <1>4, <1>5 DEF Bookkeeping

PublishedByStatus == \A r \in live :
    r \in Rows /\ (WorkflowState[r] = "Published" <=> ver[r].status = Published)

LEMMA PublishedStates == TypeOK /\ LifecycleDates => PublishedByStatus
  BY StatesByStatus DEF PublishedByStatus

\* What the clean-up of the selection leaves links to a Published version.
LEMMA CleanedBooks ==
    ASSUME TypeOK', LifecycleDates', UNCHANGED live, selected' = CleanedSelection(ver')
    PROVE  /\ selected' \subseteq selected
           /\ selected' # {} => \E q \in Rows : WorkflowState'[q] = "Published"
<1>1. \A r \in live' : r \in Rows /\ (WorkflowState'[r] = "Published" <=> ver'[r].status = Published)
  <2>1. PublishedByStatus'
    BY PublishedStates, PTL
  <2> QED
    BY <2>1 DEF PublishedByStatus
<1> QED
  BY <1>1 DEF CleanedSelection

\* A status change that publishes keeps the links of the published version alone.
LEMMA PublicationBooks ==
    ASSUME TypeOK, TypeOK', LifecycleDates, LifecycleDates', NEW p \in Procs,
           Current(call[p]), CommitTransition(p), Publishes(call[p])
    PROVE  Bookkeeping
<1> DEFINE c == call[p]
           old == ArchivePredecessors(c)
<1>0. ver \in [Rows -> Version] /\ live \subseteq Rows /\ linked \subseteq live
  BY DEF TypeOK
<1>1. c \in TransitionCall
  BY DEF CommitTransition, TypeOK, Call, DeleteCall, RestoreCall, LinkCall, Idle
<1>2. /\ c.row \in live /\ live' = live /\ c.to = Published
      /\ linked' \subseteq {c.row} /\ linked' \subseteq linked
      /\ ver' = [old EXCEPT ![c.row] = TransitionRow(c, old[c.row])]
  BY DEF CommitTransition, LinksAfter, Publishes
<1>3. UNCHANGED reviewed
  BY <1>2 DEF CommitTransition, Review, Published
<1>4. /\ WorkflowState[c.row] = "Review"
      /\ WorkflowState' = [w \in Rows |-> IF w = c.row THEN "Published"
             ELSE IF WorkflowState[w] = "Published" THEN "Archived" ELSE WorkflowState[w]]
  BY PublicationPublishes DEF Workflow!Publish
<1>5. selected' \subseteq selected
  BY <1>2, CleanedBooks DEF CommitTransition
<1>6. \A r \in live : ver'[r].text = ver[r].text
  <2>1. \A r \in Rows : old[r].text = ver[r].text
    BY <1>0 DEF ArchivePredecessors, Version
  <2>2. TransitionRow(c, old[c.row]).text = old[c.row].text
    <3>1. old[c.row] \in Version
      <4>1. c.row \in Rows
        BY <1>0, <1>2
      <4> QED
        BY <1>0, <4>1, NewTokenFresh DEF ArchivePredecessors, Version, Status
    <3> QED
      BY <3>1 DEF TransitionRow, Version
  <2>3. \A r \in Rows : ver'[r] = IF r = c.row THEN TransitionRow(c, old[c.row]) ELSE old[r]
    BY <1>2 DEF ArchivePredecessors
  <2> QED
    BY <1>0, <2>1, <2>2, <2>3
<1>7. \A r \in Rows : /\ WorkflowState[r] = "Review" /\ WorkflowState'[r] = "Published" => r = c.row
                      /\ WorkflowState[r] = "ArchivingReview" => WorkflowState'[r] # "Archived"
                      /\ WorkflowState[r] = "Draft" => WorkflowState'[r] = "Draft"
  BY <1>4
<1> HIDE DEF c, old
<1> QED
  BY <1>0, <1>2, <1>3, <1>5, <1>6, <1>7 DEF Bookkeeping

\* Any other status change notes the text when it submits one.
LEMMA TransitionBooks ==
    ASSUME TypeOK, TypeOK', LifecycleDates, LifecycleDates', NEW p \in Procs,
           Current(call[p]), CommitTransition(p), ~Publishes(call[p])
    PROVE  Bookkeeping
<1> DEFINE c == call[p]
           new == TransitionRow(c, ver[c.row])
<1>0. ver \in [Rows -> Version] /\ live \subseteq Rows /\ linked \subseteq live
  BY DEF TypeOK
<1>1. c \in TransitionCall
  BY DEF CommitTransition, TypeOK, Call, DeleteCall, RestoreCall, LinkCall, Idle
<1>2. ArchivePredecessors(c) = ver
  BY <1>0 DEF ArchivePredecessors
<1>3. /\ c.row \in live /\ live' = live /\ ver' = [ver EXCEPT ![c.row] = new]
      /\ linked' = linked
  BY <1>2 DEF CommitTransition, LinksAfter
<1>4. new.status = c.to /\ new.archive_initiated = ArchiveInitiatedAfter(c)
      /\ new.text = ver[c.row].text
  BY <1>0, <1>3 DEF TransitionRow, Version
<1> HIDE DEF new
<1>5. ver[c.row].status = c.status /\ ver[c.row].archive_initiated = c.archive_initiated
  BY <1>1 DEF Current, TransitionCall
<1>6. /\ WorkflowState' = [WorkflowState EXCEPT ![c.row] = StateOf(new)]
      /\ WorkflowState[c.row] = StateOf(ver[c.row])
  BY <1>3, LiveMove
<1>7. /\ selected' \subseteq selected
      /\ selected' # {} => \E q \in Rows : WorkflowState'[q] = "Published"
  BY <1>3, CleanedBooks DEF CommitTransition
<1>8. WorkflowState \in [Rows -> {WorkflowState[q] : q \in Rows}]
  BY WorkflowStates
<1>9. \A q \in Rows : q # c.row => /\ WorkflowState'[q] = WorkflowState[q]
                                   /\ ver'[q] = ver[q] /\ reviewed'[q] = reviewed[q]
  BY <1>3, <1>6, <1>8 DEF TypeOK, CommitTransition
<1>10. WorkflowState'[c.row] = StateOf(new) /\ ver'[c.row].text = ver[c.row].text /\ c.row \in Rows
  BY <1>0, <1>3, <1>4, <1>6, <1>8
<1>11. ~ (WorkflowState[c.row] = "Review" /\ WorkflowState'[c.row] = "Published")
  BY <1>4, <1>5, <1>6, <1>10 DEF StateOf, Publishes, Review, Published
<1>12. \/ WorkflowState'[c.row] = "Draft" \/ reviewed'[c.row] = ver'[c.row].text
       \/ WorkflowState[c.row] # "Draft" /\ reviewed'[c.row] = reviewed[c.row]
  <2>1. CASE c.status = Draft /\ c.to = Review
    <3>1. reviewed' = [reviewed EXCEPT ![c.row] = ver[c.row].text]
      BY <2>1 DEF CommitTransition
    <3> QED
      BY <1>10, <3>1 DEF TypeOK
  <2>2. CASE ~ (c.status = Draft /\ c.to = Review)
    <3>1. UNCHANGED reviewed
      BY <2>2 DEF CommitTransition
    <3>2. WorkflowState[c.row] = "Draft" => c.status = Draft
      BY <1>5, <1>6 DEF StateOf, Draft
    <3>3. c.status = Draft => c.to = Review
      BY <1>1 DEF Current, TransitionCall, Allowed, StatusTransitions, Draft, Review,
                  Published, Archived
    <3> QED
      BY <2>2, <3>1, <3>2, <3>3
  <2> QED
    BY <2>1, <2>2
<1> HIDE DEF c
<1> QED
  BY <1>0, <1>3, <1>7, <1>9, <1>10, <1>11, <1>12 DEF Bookkeeping

\* Every write that decides on current data keeps the books.
LEMMA WriteBooks ==
    ASSUME TypeOK, TypeOK', LifecycleDates, LifecycleDates', SnapshotCurrent, Write
    PROVE  Bookkeeping
<1>0. ver \in [Rows -> Version] /\ live \subseteq Rows /\ linked \subseteq live
  BY DEF TypeOK
<1>1. ASSUME NEW r \in Rows, NEW x \in Texts, NEW b \in Membership, Create(r, x, b)
      PROVE  Bookkeeping
  BY <1>1, InsertBooks DEF Create
<1>2. ASSUME NEW e \in Editors, NEW x \in Texts, NEW b \in Membership,
             SaveAsNewDraft(e, x, b)
      PROVE  Bookkeeping
  BY <1>2, InsertBooks DEF SaveAsNewDraft
<1>3. CASE Reactivate
  BY <1>3, InsertBooks DEF Reactivate
<1>4. ASSUME NEW p \in Procs, CommitRestore(p) PROVE Bookkeeping
  BY <1>4, InsertBooks DEF CommitRestore
<1>5. ASSUME NEW e \in Editors, NEW x \in Texts, NEW b \in Membership,
             SaveInPlace(e, x, b)
      PROVE  Bookkeeping
  <2> DEFINE r == form[e].row
             v == [ver[r] EXCEPT !.text = x, !.token = NewToken(r)]
  <2>1. /\ r \in live /\ live' = live /\ ver' = [ver EXCEPT ![r] = v]
        /\ linked' \subseteq linked \cup {r} /\ UNCHANGED <<selected, reviewed>>
        /\ ver[r].status = Draft
    BY <1>5 DEF SaveInPlace, BaseIsCurrent, IsLatest
  <2>2. v.status = ver[r].status /\ v.archive_initiated = ver[r].archive_initiated
    BY <1>0, <2>1 DEF Version
  <2> HIDE DEF r, v
  <2>3. StateOf(v) = StateOf(ver[r])
    BY <2>2 DEF StateOf
  <2>4. WorkflowState[r] = "Draft" /\ r \in Rows
    BY <2>1, StatesByStatus
  <2>5. WorkflowState' = WorkflowState
    BY <2>1, <2>3, LiveMove, WorkflowStates
  <2>6. \A q \in live' : q # r => ver'[q] = ver[q]
    BY <1>0, <2>1
  <2> QED
    BY <1>0, <2>1, <2>4, <2>5, <2>6 DEF Bookkeeping
<1>6. CASE InitiateArchiving
  <2>1. PICK r \in live : /\ ver[r].status = Published /\ ~ver[r].archive_initiated
              /\ UNCHANGED <<live, linked, selected, reviewed>>
              /\ ver' = [ver EXCEPT ![r] = [ver[r] EXCEPT !.status = Review,
                           !.archive_initiated = TRUE, !.token = NewToken(r)]]
    BY <1>6 DEF InitiateArchiving, InStatus
  <2> DEFINE v == [ver[r] EXCEPT !.status = Review, !.archive_initiated = TRUE,
                                 !.token = NewToken(r)]
  <2>2. v.archive_initiated = TRUE /\ v.text = ver[r].text
    BY <1>0, <2>1 DEF Version
  <2>3. ver' = [ver EXCEPT ![r] = v]
    BY <2>1
  <2> HIDE DEF v
  <2>4. StateOf(ver[r]) = "Published" /\ StateOf(v) = "ArchivingReview"
    BY <2>1, <2>2 DEF StateOf, Published
  <2> QED
    BY <2>1, <2>2, <2>3, <2>4, LiveBooks
<1>7. CASE ApproveArchiving
  <2>1. PICK r \in live : /\ ver[r].archive_initiated
              /\ UNCHANGED <<live, linked, reviewed>> /\ selected' = CleanedSelection(ver')
              /\ ver' = [ver EXCEPT ![r] = [ver[r] EXCEPT !.status = Archived,
                           !.archived_at = TRUE, !.archive_initiated = FALSE,
                           !.token = NewToken(r)]]
    BY <1>7 DEF ApproveArchiving, IsArchivingReview
  <2> DEFINE v == [ver[r] EXCEPT !.status = Archived, !.archived_at = TRUE,
                                 !.archive_initiated = FALSE, !.token = NewToken(r)]
  <2>2. v.text = ver[r].text
    BY <1>0, <2>1 DEF Version
  <2>3. ver' = [ver EXCEPT ![r] = v]
    BY <2>1
  <2> HIDE DEF v
  <2>4. StateOf(ver[r]) = "ArchivingReview"
    BY <2>1 DEF StateOf
  <2>5. /\ selected' \subseteq selected
        /\ selected' # {} => \E q \in Rows : WorkflowState'[q] = "Published"
    BY <2>1, CleanedBooks
  <2> QED
    BY <2>1, <2>2, <2>3, <2>4, <2>5, LiveBooks
<1>8. CASE CancelArchiving
  <2>1. PICK r \in live : /\ ver[r].archive_initiated
              /\ UNCHANGED <<live, linked, selected, reviewed>>
              /\ ver' = [ver EXCEPT ![r] = [ver[r] EXCEPT !.status = Published,
                           !.archive_initiated = FALSE, !.token = NewToken(r)]]
    BY <1>8 DEF CancelArchiving, IsArchivingReview
  <2> DEFINE v == [ver[r] EXCEPT !.status = Published, !.archive_initiated = FALSE,
                                 !.token = NewToken(r)]
  <2>2. v.status = Published /\ v.archive_initiated = FALSE /\ v.text = ver[r].text
    BY <1>0, <2>1 DEF Version
  <2>3. ver' = [ver EXCEPT ![r] = v]
    BY <2>1
  <2> HIDE DEF v
  <2>4. StateOf(ver[r]) = "ArchivingReview" /\ StateOf(v) = "Published"
    BY <2>1, <2>2 DEF StateOf, Published
  <2> QED
    BY <2>1, <2>2, <2>3, <2>4, LiveBooks
<1>9. ASSUME NEW p \in Procs, CommitTransition(p) PROVE Bookkeeping
  BY <1>9, PublicationBooks, TransitionBooks DEF SnapshotCurrent
<1>10. ASSUME NEW p \in Procs, CommitDelete(p) PROVE Bookkeeping
  <2> DEFINE r == call[p].row
  <2>1. /\ r \in live /\ ver[r].status = Draft
        /\ live' = live \ {r} /\ ver' = [ver EXCEPT ![r] = Blank]
        /\ linked' = linked \ {r} /\ UNCHANGED selected
        /\ reviewed' = [reviewed EXCEPT ![r] = None]
    BY <1>10 DEF CommitDelete, SnapshotCurrent, Current
  <2>2. WorkflowState[r] = "Draft" /\ r \in Rows
    BY <2>1, StatesByStatus
  <2> HIDE DEF r
  <2>3. WorkflowState' = [WorkflowState EXCEPT ![r] = "None"]
    BY <1>0, <2>1, <2>2, OneMove
  <2>4. WorkflowState \in [Rows -> {WorkflowState[q] : q \in Rows}]
    BY WorkflowStates
  <2>5. \A q \in Rows : q # r => /\ WorkflowState'[q] = WorkflowState[q]
                                 /\ ver'[q] = ver[q] /\ reviewed'[q] = reviewed[q]
    BY <2>1, <2>3, <2>4 DEF TypeOK
  <2> QED
    BY <1>0, <2>1, <2>2, <2>5 DEF Bookkeeping
<1>11. ASSUME NEW p \in Procs, CommitLink(p) PROVE Bookkeeping
  <2>1. InStatus(Published) # {}
    BY <1>11 DEF CommitLink, SnapshotCurrent, Current
  <2>2. PublishedState
    BY <2>1, StatesByStatus DEF PublishedState, InStatus
  <2> QED
    BY <1>11, <2>2, SameBooks DEF CommitLink
<1>12. CASE Unlink
  <2>1. selected' \subseteq selected /\ UNCHANGED <<live, ver, linked, reviewed>>
    BY <1>12 DEF Unlink
  <2> QED
    BY <2>1, SameBooks
<1> QED
  BY <1>1, <1>2, <1>3, <1>4, <1>5, <1>6, <1>7, <1>8, <1>9, <1>10, <1>11, <1>12 DEF Write

LEMMA StepBooks ==
    TypeOK /\ TypeOK' /\ LifecycleDates /\ LifecycleDates' /\ SnapshotCurrent
      /\ [SerialNext]_vars => Bookkeeping
<1>1. Read \/ UNCHANGED vars => UNCHANGED <<live, ver, linked, selected, reviewed>>
  BY DEF Read, LoadForm, CloseForm, ReadTransition, ReadDelete, ReadRestore,
         ReadLink, Abort, tables, vars
<1> QED
  BY <1>1, SameBooks, WriteBooks DEF SerialNext, Next

-----------------------------------------------------------------------------
(* Links and reviewed texts *)

OneOfEach == \A q, r \in Rows :
    WorkflowState[q] = WorkflowState[r] /\ WorkflowState[q] \in {"Published", "ArchivingReview"}
        => q = r

InUse == \E r \in Rows : WorkflowState[r] \in {"Published", "ArchivingReview"}

(* Where links may be: not on what a version in use has replaced, nor on    *)
(* what awaits archiving beside a Published version.                        *)
LinkIInv ==
    /\ OneOfEach
    /\ InUse => \A r \in linked : WorkflowState[r] # "Archived"
    /\ PublishedState => \A r \in linked : WorkflowState[r] # "ArchivingReview"
    /\ selected # {} => InUse

(* What is beyond a Draft has the text that was submitted. *)
ReviewIInv == \A r \in live :
    WorkflowState[r] \in {"Review", "ArchivingReview", "Published"} => reviewed[r] = ver[r].text

\* The filtered unique indexes, as the workflow sees them.
LEMMA IndexesSeparate == TypeOK /\ LifecycleDates /\ UniqueIndexes => OneOfEach
<1> SUFFICES ASSUME TypeOK, LifecycleDates, UniqueIndexes, NEW q \in Rows, NEW r \in Rows,
                    WorkflowState[q] = WorkflowState[r],
                    WorkflowState[q] \in {"Published", "ArchivingReview"}
             PROVE  q = r
  BY DEF OneOfEach
<1>1. q \in live /\ r \in live
  BY WorkflowStates DEF StateAt
<1> QED
  BY <1>1, StatesByStatus DEF UniqueIndexes

LEMMA LinkStep ==
    ASSUME TypeOK, LinkIInv, OneOfEach', Bookkeeping, [Workflow!Next]_WorkflowState,
           linked' \subseteq Rows
    PROVE  LinkIInv'
<1> DEFINE s == WorkflowState
           Used(t) == \E r \in Rows : t[r] \in {"Published", "ArchivingReview"}
           Pub(t) == \E r \in Rows : t[r] = "Published"
<1>0. linked \subseteq Rows /\ s \in [Rows -> {s[q] : q \in Rows}]
  BY WorkflowStates DEF TypeOK
<1>1. SUFFICES /\ Used(s') => \A r \in linked' : s'[r] # "Archived"
               /\ Pub(s') => \A r \in linked' : s'[r] # "ArchivingReview"
               /\ selected' # {} => Used(s')
  BY DEF LinkIInv, InUse, PublishedState
<1>2. /\ \A q, r \in Rows : s[q] = s[r] /\ s[q] \in {"Published", "ArchivingReview"} => q = r
      /\ Used(s) => \A r \in linked : s[r] # "Archived"
      /\ Pub(s) => \A r \in linked : s[r] # "ArchivingReview"
      /\ selected # {} => Used(s)
  BY DEF LinkIInv, OneOfEach, InUse, PublishedState
<1>3. \A q, r \in Rows : s'[q] = s'[r] /\ s'[q] \in {"Published", "ArchivingReview"} => q = r
  BY DEF OneOfEach
<1>4. /\ \A r \in linked' : r \in linked \/ s'[r] = "Draft"
      /\ \A r \in Rows : s[r] = "Review" /\ s'[r] = "Published" => linked' \subseteq {r}
      /\ selected' # {} => selected # {} \/ Pub(s)
      /\ \A r \in Rows : s[r] = "ArchivingReview" /\ s'[r] = "Archived"
                          => selected' = {} \/ Pub(s')
  BY DEF Bookkeeping, PublishedState
<1>5. ASSUME \A r \in Rows : \A w \in {"Published", "ArchivingReview", "Archived"} :
                s'[r] = w <=> s[r] = w
      PROVE  /\ Used(s') => \A r \in linked' : s'[r] # "Archived"
             /\ Pub(s') => \A r \in linked' : s'[r] # "ArchivingReview"
             /\ selected' # {} => Used(s')
  BY <1>0, <1>2, <1>4, <1>5
<1>6. CASE UNCHANGED s
  BY <1>5, <1>6
<1>7. ASSUME NEW v \in Rows, NEW from, NEW to, Workflow!Move(v, from, to)
      PROVE  s[v] = from /\ s'[v] = to /\ \A r \in Rows : r # v => s'[r] = s[r]
  BY <1>0, <1>7 DEF Workflow!Move
<1>8. ASSUME NEW v \in Rows, \/ Workflow!Author(v) \/ Workflow!Discard(v)
                             \/ Workflow!Submit(v) \/ Workflow!ReturnToDraft(v)
      PROVE  \A r \in Rows : \A w \in {"Published", "ArchivingReview", "Archived"} :
                s'[r] = w <=> s[r] = w
  <2>1. PICK from, to \in {"None", "Draft", "Review"} : Workflow!Move(v, from, to)
    BY <1>8 DEF Workflow!Author, Workflow!Discard, Workflow!Submit, Workflow!ReturnToDraft
  <2>2. s[v] = from /\ s'[v] = to /\ \A r \in Rows : r # v => s'[r] = s[r]
    BY <1>7, <2>1
  <2> HIDE DEF s
  <2> QED
    BY <2>1, <2>2
<1>9. ASSUME NEW v \in Rows, Workflow!InitiateArchiving(v)
      PROVE  /\ Used(s') => \A r \in linked' : s'[r] # "Archived"
             /\ Pub(s') => \A r \in linked' : s'[r] # "ArchivingReview"
             /\ selected' # {} => Used(s')
  <2>1. s[v] = "Published" /\ s'[v] = "ArchivingReview" /\ \A r \in Rows : r # v => s'[r] = s[r]
    BY <1>7, <1>9 DEF Workflow!InitiateArchiving
  <2> HIDE DEF s
  <2> QED
    BY <1>0, <1>2, <1>4, <2>1
<1>10. ASSUME NEW v \in Rows, Workflow!ApproveArchiving(v)
       PROVE  /\ Used(s') => \A r \in linked' : s'[r] # "Archived"
              /\ Pub(s') => \A r \in linked' : s'[r] # "ArchivingReview"
              /\ selected' # {} => Used(s')
  <2>1. s[v] = "ArchivingReview" /\ s'[v] = "Archived" /\ \A r \in Rows : r # v => s'[r] = s[r]
    BY <1>7, <1>10 DEF Workflow!ApproveArchiving
  <2> HIDE DEF s
  <2> QED
    BY <1>0, <1>2, <1>4, <2>1
<1>11. ASSUME NEW v \in Rows, Workflow!CancelArchiving(v)
       PROVE  /\ Used(s') => \A r \in linked' : s'[r] # "Archived"
              /\ Pub(s') => \A r \in linked' : s'[r] # "ArchivingReview"
              /\ selected' # {} => Used(s')
  <2>1. s[v] = "ArchivingReview" /\ s'[v] = "Published" /\ \A r \in Rows : r # v => s'[r] = s[r]
    BY <1>7, <1>11 DEF Workflow!CancelArchiving
  <2> HIDE DEF s
  <2> QED
    BY <1>0, <1>2, <1>4, <2>1
<1>12. ASSUME NEW v \in Rows, Workflow!Publish(v)
       PROVE  /\ Used(s') => \A r \in linked' : s'[r] # "Archived"
              /\ Pub(s') => \A r \in linked' : s'[r] # "ArchivingReview"
              /\ selected' # {} => Used(s')
  <2>1. s[v] = "Review" /\ s'[v] = "Published"
    BY <1>12 DEF Workflow!Publish
  <2> HIDE DEF s
  <2> QED
    BY <1>4, <2>1
<1> HIDE DEF s
<1> QED
  BY <1>5, <1>6, <1>8, <1>9, <1>10, <1>11, <1>12 DEF Workflow!Next, s

LEMMA ReviewStep ==
    ASSUME ReviewIInv, Bookkeeping, [Workflow!Next]_WorkflowState, live' \subseteq Rows,
           \A r \in live : WorkflowState[r] # "None"
    PROVE  ReviewIInv'
<1> DEFINE s == WorkflowState
           Beyond == {"Review", "ArchivingReview", "Published"}
<1>1. s \in [Rows -> {s[q] : q \in Rows}]
  BY WorkflowStates
<1>2. ASSUME NEW r \in Rows, s'[r] \in Beyond PROVE s[r] \in Beyond \/ s[r] = "Draft"
  <2>1. CASE UNCHANGED s
    BY <1>2, <2>1
  <2>2. ASSUME NEW v \in Rows, NEW from \in Beyond \cup {"Draft"}, NEW to, Workflow!Move(v, from, to)
        PROVE  s[r] \in Beyond \/ s[r] = "Draft"
    BY <1>1, <1>2, <2>2 DEF Workflow!Move
  <2>3. ASSUME NEW v \in Rows, Workflow!Author(v)
        PROVE  s[r] \in Beyond \/ s[r] = "Draft"
    BY <1>1, <1>2, <2>3 DEF Workflow!Move, Workflow!Author
  <2>4. ASSUME NEW v \in Rows, Workflow!Publish(v)
        PROVE  s[r] \in Beyond \/ s[r] = "Draft"
    BY <1>1, <1>2, <2>4 DEF Workflow!Publish
  <2> HIDE DEF s
  <2> QED
    BY <2>1, <2>2, <2>3, <2>4
    DEF Workflow!Next, Workflow!Discard, Workflow!Submit, Workflow!ReturnToDraft,
        Workflow!InitiateArchiving, Workflow!ApproveArchiving, Workflow!CancelArchiving, s
<1>3. ASSUME NEW r \in live', s'[r] \in Beyond PROVE reviewed'[r] = ver'[r].text
  <2>1. \/ reviewed'[r] = ver'[r].text
        \/ /\ r \in live /\ s[r] # "Draft" /\ ver'[r].text = ver[r].text
           /\ reviewed'[r] = reviewed[r]
    BY <1>3 DEF Bookkeeping
  <2> QED
    BY <1>2, <1>3, <2>1 DEF ReviewIInv
<1> QED
  BY <1>3 DEF ReviewIInv

\* What the serial requests keep besides the workflow.
SerialIInv == LinkIInv /\ ReviewIInv

LEMMA SerialInvariance ==
    SerialSpec => [](TypeOK /\ LifecycleDates /\ SnapshotCurrent /\ SerialIInv)
<1>1. Init => SerialIInv
  BY DEF Init, SerialIInv, LinkIInv, ReviewIInv, OneOfEach, PublishedState, InUse, WorkflowState
<1>2. ASSUME TypeOK, TypeOK', LifecycleDates, LifecycleDates', SnapshotCurrent, SerialIInv,
             [SerialNext]_vars
      PROVE  SerialIInv'
  <2>1. Bookkeeping /\ [Workflow!Next]_WorkflowState
    BY <1>2, StepBooks, StepFollowsWorkflow
  <2>2. live' \subseteq Rows /\ linked' \subseteq Rows
    BY <1>2 DEF TypeOK
  <2>3. OneOfEach'
    <3>1. CASE Write /\ UniqueIndexes'
      BY <1>2, <3>1, IndexesSeparate, PTL
    <3>2. CASE Read \/ UNCHANGED vars
      <4>1. UNCHANGED <<live, ver>>
        BY <3>2 DEF Read, LoadForm, CloseForm, ReadTransition, ReadDelete, ReadRestore,
                    ReadLink, Abort, tables, vars
      <4>2. UNCHANGED WorkflowState
        BY <4>1, SameStates
      <4> QED
        BY <1>2, <4>2 DEF SerialIInv, LinkIInv, OneOfEach
    <3> QED
      BY <1>2, <3>1, <3>2 DEF SerialNext, Next
  <2>4. \A r \in live : WorkflowState[r] # "None"
    BY <1>2, StatesByStatus
  <2> QED
    BY <1>2, <2>1, <2>2, <2>3, <2>4, LinkStep, ReviewStep DEF SerialIInv
<1>3. TypeOK /\ TypeOK' /\ LifecycleDates /\ LifecycleDates' /\ SnapshotCurrent /\ SerialIInv
        /\ [SerialNext]_vars => SerialIInv'
  BY <1>2
<1> QED
  BY <1>1, <1>3, SerialSnapshots, SerialDates, PTL DEF SerialSpec

\* What is published is what was submitted for review: no save, archiving or
\* restoration puts another text in its place (transitionStatus, editRequirement).
THEOREM SerialReviewed == SerialSpec => []PublishedWasReviewed
<1>1. TypeOK /\ LifecycleDates /\ SerialIInv => PublishedWasReviewed
  BY StatesByStatus DEF SerialIInv, ReviewIInv, PublishedWasReviewed, InStatus
<1> QED
  BY <1>1, SerialInvariance, PTL

\* Package and selection links follow publication, through cancelled and approved
\* archivings, reactivations and deletions (transitionStatus, approveArchiving,
\* cleanupRequirementSelectionRequirementLinksWithoutPublishedVersion).
THEOREM SerialLinks == SerialSpec => []LinksFollowPublication
<1>1. ASSUME TypeOK, LifecycleDates, SerialIInv PROVE LinksFollowPublication
  <2>1. InStatus(Published) # {} => InUse
    BY <1>1, StatesByStatus DEF InStatus, InUse
  <2>2. InUse => \A r \in linked : WorkflowState[r] # "Archived"
    BY <1>1 DEF SerialIInv, LinkIInv
  <2>3. InStatus(Published) # {} => linked \cap InStatus(Archived) = {}
    BY <1>1, <2>1, <2>2, StatesByStatus DEF InStatus
  <2>4. ASSUME selected # {}
        PROVE  \E r \in live : ver[r].status = Published \/ ver[r].archive_initiated
    <3>1. PICK r \in Rows : WorkflowState[r] \in {"Published", "ArchivingReview"}
      BY <1>1, <2>4 DEF SerialIInv, LinkIInv, InUse
    <3>2. r \in live
      BY <3>1, WorkflowStates DEF StateAt
    <3> QED
      BY <1>1, <3>1, <3>2, StatesByStatus
  <2> QED
    BY <2>3, <2>4 DEF LinksFollowPublication
<1>2. TypeOK /\ LifecycleDates /\ SerialIInv => LinksFollowPublication
  BY <1>1
<1> QED
  BY <1>2, SerialInvariance, PTL

-----------------------------------------------------------------------------
(* The archived flag *)

TakenBack == archived /\ ~archived' =>
    \/ \E r \in live : ver[r].status # Published /\ ver'[r].status = Published
    \/ ~ (live' \subseteq live)

LEMMA TransitionKeepsFlag ==
    ASSUME TypeOK, NEW p \in Procs, Current(call[p]), CommitTransition(p)
    PROVE  TakenBack
<1> DEFINE c == call[p]
           old == ArchivePredecessors(c)
<1>0. ver \in [Rows -> Version] /\ live \subseteq Rows
  BY DEF TypeOK
<1>1. c \in TransitionCall
  BY DEF CommitTransition, TypeOK, Call, DeleteCall, RestoreCall, LinkCall, Idle
<1>2. /\ c.row \in live /\ archived' = ResolveArchivedFlag(c)
      /\ ver' = [old EXCEPT ![c.row] = TransitionRow(c, old[c.row])]
  BY DEF CommitTransition
<1>3. ver[c.row].status = c.status /\ Allowed(c) /\ c.archived = archived
  BY <1>1 DEF Current, TransitionCall
<1>4. archived /\ ~archived' => c.to = Published
  BY <1>2, <1>3 DEF ResolveArchivedFlag
<1>5. c.to = Published => ver[c.row].status # Published
  BY <1>3 DEF Allowed, StatusTransitions, Draft, Review, Published, Archived
<1>6. ver'[c.row].status = c.to
  <2>1. old[c.row] \in Version
    BY <1>0, <1>2, NewTokenFresh DEF ArchivePredecessors, Version, Status
  <2>2. ver'[c.row] = TransitionRow(c, old[c.row])
    BY <1>0, <1>2 DEF ArchivePredecessors
  <2> QED
    BY <2>1, <2>2 DEF TransitionRow, Version
<1> QED
  BY <1>2, <1>4, <1>5, <1>6 DEF TakenBack

LEMMA StepKeepsFlag ==
    ASSUME TypeOK, SnapshotCurrent, [SerialNext]_vars
    PROVE  TakenBack
<1>1. CASE UNCHANGED archived
  BY <1>1 DEF TakenBack
<1>2. ASSUME NEW r \in Rows, NEW n, NEW x, NEW b, InsertDraft(r, n, x, b)
      PROVE  TakenBack
  BY <1>2 DEF InsertDraft, FreshRow, TakenBack
<1>3. ASSUME NEW p \in Procs, CommitTransition(p) PROVE TakenBack
  BY <1>3, TransitionKeepsFlag DEF SnapshotCurrent
<1>4. CASE ApproveArchiving
  BY <1>4 DEF ApproveArchiving, TakenBack
<1>5. Read \/ UNCHANGED vars => UNCHANGED archived
  BY DEF Read, LoadForm, CloseForm, ReadTransition, ReadDelete, ReadRestore,
         ReadLink, Abort, tables, vars
<1>6. CASE Write
  <2>1. ASSUME NEW e \in Editors, NEW x \in Texts, NEW b \in Membership, SaveInPlace(e, x, b)
        PROVE  UNCHANGED archived
    BY <2>1 DEF SaveInPlace
  <2>2. ASSUME NEW e \in Editors, NEW x \in Texts, NEW b \in Membership, SaveAsNewDraft(e, x, b)
        PROVE  UNCHANGED archived
    BY <2>2 DEF SaveAsNewDraft
  <2>3. InitiateArchiving \/ CancelArchiving \/ Unlink => UNCHANGED archived
    BY DEF InitiateArchiving, CancelArchiving, Unlink
  <2>4. \A p \in Procs : CommitDelete(p) \/ CommitRestore(p) \/ CommitLink(p)
                           => UNCHANGED archived
    BY DEF CommitDelete, CommitRestore, CommitLink
  <2> QED
    BY <1>1, <1>2, <1>3, <1>4, <1>6, <2>1, <2>2, <2>3, <2>4 DEF Write, Create, Reactivate
<1> QED
  BY <1>1, <1>5, <1>6 DEF SerialNext, Next

\* Run one at a time, a requirement stays archived until a version is published
\* or its archiving cancelled, or it is reactivated (resolveRequirementArchivedFlag,
\* reactivateRequirement).
THEOREM SerialArchivedFlag == SerialSpec => ArchivedFlagKept
<1>1. TypeOK /\ SnapshotCurrent /\ [SerialNext]_vars => [TakenBack]_vars
  BY StepKeepsFlag
<1> QED
  BY <1>1, SerialSnapshots, PTL DEF SerialSpec, ArchivedFlagKept, TakenBack
=============================================================================
