------------------------ MODULE RequirementLifecycle ------------------------
(***************************************************************************)
(* The lifecycle of one requirement of the requirements library: the rows  *)
(* of requirement_versions that belong to it, its is_archived flag, the    *)
(* requirement-package links of its versions and the selection-answer link *)
(* to the requirement itself (lib/dal/requirements.ts).                    *)
(*                                                                         *)
(* Every operation is an HTTP or MCP request that runs one database        *)
(* transaction.  A SERIALIZABLE transaction, and one whose first read      *)
(* takes UPDLOCK/HOLDLOCK, is one action.  A READ COMMITTED transaction    *)
(* that decides on rows it read without a lock is two actions: Read...     *)
(* takes the snapshot, Commit... performs all its writes (their row locks  *)
(* are held to the commit, so no other write falls between them).  Any     *)
(* other request may commit between the two.                               *)
(*                                                                         *)
(* Abstractions: a version's content (description, taxonomy, norm          *)
(* references) is one value of Texts; membership in requirement packages   *)
(* is one Boolean per version; a timestamp is whether it is set; a         *)
(* revision token (NEWID) is a value no open form remembers for that row - *)
(* tokens are compared only with the one a form remembers, together with   *)
(* the row id, and row ids are never reused.                               *)
(***************************************************************************)
EXTENDS Naturals, FiniteSets

CONSTANTS
    Rows,       \* identities of requirement_versions rows
    Texts,      \* contents a version can have
    Tokens,     \* values NEWID can return
    Editors,    \* open edit forms
    Membership, \* package choices a saved form can carry: TRUE, FALSE or both
    Answers,    \* selection answers that may link to the requirement
    Procs,      \* requests in flight in READ COMMITTED transactions
    MaxNum,     \* bound: the largest version_number explored
    None        \* absence of a row or a text

ASSUME NumAssumption == MaxNum \in Nat \ {0}
ASSUME NoneAssumption == None \notin Rows \cup Texts
ASSUME DataAssumption == Texts # {} /\ Membership \subseteq BOOLEAN
\* NEWID() never runs out: no assignment of tokens to forms uses them all.
ASSUME TokenAssumption ==
    /\ Tokens # {}
    /\ \A f \in [Editors -> Tokens] : \E t \in Tokens : \A e \in Editors : f[e] # t

VARIABLES
    present,    \* the requirements row exists
    archived,   \* requirements.is_archived
    live,       \* ids of the requirement_versions rows that exist
    ver,        \* their columns
    linked,     \* versions with requirement-package links
    selected,   \* the selection answers that link to the requirement
    form,       \* the base an edit form was opened with
    call,       \* the snapshot of a request between its reads and its writes
    reviewed    \* history: the text last submitted for publication review

tables == <<present, archived, live, ver, linked, selected>>
vars == <<tables, form, call, reviewed>>

Draft == "Draft"
Review == "Review"
Published == "Published"
Archived == "Archived"
Status == {Draft, Review, Published, Archived}

Version == [num : 1..MaxNum, status : Status, published_at : BOOLEAN,
            archived_at : BOOLEAN, archive_initiated : BOOLEAN,
            token : Tokens, text : Texts]

Form == [row : Rows, token : Tokens, text : Texts, status : Status]
NoForm == [row |-> None]

TransitionCall == [op : {"transition"}, to : Status, row : Rows, status : Status,
                   archive_initiated : BOOLEAN, archived : BOOLEAN]
DeleteCall == [op : {"delete"}, row : Rows]
RestoreCall == [op : {"restore"}, text : Texts, linked : BOOLEAN, num : 1..MaxNum]
LinkCall == [op : {"link"}, answer : Answers]
Idle == [op |-> "idle"]
Call == TransitionCall \cup DeleteCall \cup RestoreCall \cup LinkCall \cup {Idle}

TypeOK ==
    /\ present \in BOOLEAN /\ archived \in BOOLEAN /\ selected \subseteq Answers
    /\ live \subseteq Rows
    /\ ver \in [Rows -> Version]
    /\ linked \subseteq live
    /\ form \in [Editors -> Form \cup {NoForm}]
    /\ call \in [Procs -> Call]
    /\ reviewed \in [Rows -> Texts \cup {None}]

-----------------------------------------------------------------------------
(* Helpers *)

InStatus(s) == {r \in live : ver[r].status = s}

\* The row with the highest version_number.
IsLatest(r) == r \in live /\ \A q \in live : ver[q].num <= ver[r].num

\* A row id the table has never handed out: no request or form remembers it.
FreshRow(r) ==
    /\ r \notin live
    /\ \A e \in Editors : form[e].row # r
    /\ \A p \in Procs : call[p].op \in {"transition", "delete"} => call[p].row # r

\* NEWID(): a token no form remembers for row r.
Remembered(r) == {form[e].token : e \in {f \in Editors : form[f].row = r}}
NewToken(r) == CHOOSE t \in Tokens : t \notin Remembered(r)

\* MAX(version_number) + 1 over the existing rows.
IsNextNum(n) ==
    /\ n \in 1..MaxNum
    /\ \A r \in live : ver[r].num < n
    /\ n = 1 \/ \E r \in live : ver[r].num + 1 = n

NewDraft(n, x, t) ==
    [num |-> n, status |-> Draft, published_at |-> FALSE, archived_at |-> FALSE,
     archive_initiated |-> FALSE, token |-> t, text |-> x]

\* What ver holds at an id that is not live.
Blank == NewDraft(1, CHOOSE x \in Texts : TRUE, CHOOSE t \in Tokens : TRUE)

\* The filtered unique indexes on requirement_versions, and the unique
\* (requirement_id, version_number): a statement that breaks one fails and
\* its transaction rolls back.
UniqueIndexes ==
    \A q, r \in live : q # r =>
        /\ ver[q].num # ver[r].num
        /\ ~ (ver[q].status = Published /\ ver[r].status = Published)
        /\ ~ (ver[q].archive_initiated /\ ver[r].archive_initiated)

\* Mutant: an approval shortcut past the review.
StatusTransitionsShortcut == {<<Draft, Review>>, <<Draft, Published>>,
    <<Review, Published>>, <<Review, Draft>>, <<Published, Review>>, <<Review, Archived>>}

\* requirement_status_transitions, as seeded.
StatusTransitions == {<<Draft, Review>>, <<Review, Published>>, <<Review, Draft>>,
                      <<Published, Review>>, <<Review, Archived>>}

Init ==
    /\ present = FALSE /\ archived = FALSE /\ selected = {}
    /\ live = {} /\ linked = {}
    /\ ver = [r \in Rows |-> Blank]
    /\ form = [e \in Editors |-> NoForm]
    /\ call = [p \in Procs |-> Idle]
    /\ reviewed = [r \in Rows |-> None]

-----------------------------------------------------------------------------
(* Creating and inserting versions *)

\* INSERT of a version row with its package links.
InsertDraft(r, n, x, withPackages) ==
    /\ FreshRow(r)
    /\ live' = live \cup {r}
    /\ ver' = [ver EXCEPT ![r] = NewDraft(n, x, NewToken(r))]
    /\ linked' = IF withPackages THEN linked \cup {r} ELSE linked
    /\ reviewed' = [reviewed EXCEPT ![r] = None]

\* createRequirement.  A requirement deleted with its last draft may be
\* followed by a new one once nothing refers to the old.
Create(r, x, withPackages) ==
    /\ ~present
    /\ \A e \in Editors : form[e] = NoForm
    /\ \A p \in Procs : call[p] = Idle
    /\ present' = TRUE /\ archived' = FALSE
    /\ InsertDraft(r, 1, x, withPackages)
    /\ UNCHANGED <<selected, form, call>>

-----------------------------------------------------------------------------
(* Editing, with the row id and revision token the form was opened with *)

LoadForm(e) == \E r \in live :
    /\ IsLatest(r)
    /\ form' = [form EXCEPT ![e] = [row |-> r, token |-> ver[r].token,
                                   text |-> ver[r].text, status |-> ver[r].status]]
    /\ UNCHANGED <<tables, call, reviewed>>

CloseForm(e) ==
    /\ form[e] # NoForm
    /\ form' = [form EXCEPT ![e] = NoForm]
    /\ UNCHANGED <<tables, call, reviewed>>

\* The optimistic precondition: the base is still the latest row, unwritten.
BaseIsCurrent(e) ==
    /\ form[e] # NoForm
    /\ IsLatest(form[e].row)
    /\ ver[form[e].row].token = form[e].token

\* Mutant: any latest version is rewritten in place.
SaveInPlaceAnyStatus(e, x, withPackages) == LET r == form[e].row IN
    /\ BaseIsCurrent(e)
    /\ ver' = [ver EXCEPT ![r] = [@ EXCEPT !.text = x, !.token = NewToken(r)]]
    /\ linked' = IF withPackages THEN linked \cup {r} ELSE linked \ {r}
    /\ form' = [form EXCEPT ![e] = NoForm]
    /\ UNCHANGED <<present, archived, live, selected, call, reviewed>>

\* editRequirement on a Draft: the row is rewritten in place.
SaveInPlace(e, x, withPackages) == LET r == form[e].row IN
    /\ BaseIsCurrent(e)
    /\ ver[r].status = Draft
    /\ ver' = [ver EXCEPT ![r] = [@ EXCEPT !.text = x, !.token = NewToken(r)]]
    /\ linked' = IF withPackages THEN linked \cup {r} ELSE linked \ {r}
    /\ form' = [form EXCEPT ![e] = NoForm]
    /\ UNCHANGED <<present, archived, live, selected, call, reviewed>>

\* editRequirement on a Published version: a new Draft beside it.
SaveAsNewDraft(e, x, withPackages) ==
    /\ BaseIsCurrent(e)
    /\ ver[form[e].row].status = Published
    /\ \E n \in 1..MaxNum, r \in Rows :
          IsNextNum(n) /\ InsertDraft(r, n, x, withPackages)
    /\ form' = [form EXCEPT ![e] = NoForm]
    /\ UNCHANGED <<present, archived, selected, call>>

-----------------------------------------------------------------------------
(* Two-step archiving: SERIALIZABLE requests *)

\* cleanupRequirementSelectionRequirementLinksWithoutPublishedVersion, in the
\* transaction that leaves the version columns v.
CleanedSelection(v) ==
    IF \E r \in live : v[r].status = Published THEN selected ELSE {}

InitiateArchiving == \E r \in InStatus(Published) :
    /\ ~ver[r].archive_initiated
    /\ \A q \in InStatus(Draft) \cup InStatus(Review) : ver[q].num < ver[r].num
    /\ ver' = [ver EXCEPT ![r] =
          [@ EXCEPT !.status = Review, !.archive_initiated = TRUE, !.token = NewToken(r)]]
    /\ UNCHANGED <<present, archived, live, linked, selected, form, call, reviewed>>

IsArchivingReview(r) ==
    r \in live /\ ver[r].status = Review /\ ver[r].archive_initiated

ApproveArchiving == \E r \in Rows :
    /\ IsArchivingReview(r)
    /\ ver' = [ver EXCEPT ![r] =
          [@ EXCEPT !.status = Archived, !.archived_at = TRUE,
                    !.archive_initiated = FALSE, !.token = NewToken(r)]]
    /\ archived' = TRUE
    /\ selected' = CleanedSelection(ver')
    /\ UNCHANGED <<present, live, linked, form, call, reviewed>>

CancelArchiving == \E r \in Rows :
    /\ IsArchivingReview(r)
    /\ ver' = [ver EXCEPT ![r] =
          [@ EXCEPT !.status = Published, !.archive_initiated = FALSE, !.token = NewToken(r)]]
    /\ UNCHANGED <<present, archived, live, linked, selected, form, call, reviewed>>

-----------------------------------------------------------------------------
(* transitionStatus: READ COMMITTED, decides on an unlocked read *)

\* Mutant: the archiving-review restrictions are not checked.
ReadTransitionUnrestricted(p, to) == \E r \in live :
    /\ call[p] = Idle
    /\ IsLatest(r)
    /\ <<ver[r].status, to>> \in StatusTransitions
    /\ call' = [call EXCEPT ![p] =
          [op |-> "transition", to |-> to, row |-> r, status |-> ver[r].status,
           archive_initiated |-> ver[r].archive_initiated, archived |-> archived]]
    /\ UNCHANGED <<tables, form, reviewed>>

ReadTransition(p, to) == \E r \in live :
    /\ call[p] = Idle
    /\ IsLatest(r)
    /\ <<ver[r].status, to>> \in StatusTransitions
    /\ ver[r].status = Review =>
          IF ver[r].archive_initiated THEN to \in {Archived, Published}
                                      ELSE to # Archived
    /\ call' = [call EXCEPT ![p] =
          [op |-> "transition", to |-> to, row |-> r, status |-> ver[r].status,
           archive_initiated |-> ver[r].archive_initiated, archived |-> archived]]
    /\ UNCHANGED <<tables, form, reviewed>>

\* A transition of the snapshot to Published that is not a cancelled archiving.
Publishes(c) ==
    c.to = Published /\ ~ (c.status = Review /\ c.archive_initiated)

\* Mutant: the predecessor gets no archiving date.
ArchivePredecessorsUndated(c) ==
    [r \in Rows |->
        IF Publishes(c) /\ r \in InStatus(Published)
        THEN [ver[r] EXCEPT !.status = Archived, !.token = NewToken(r)]
        ELSE ver[r]]

\* The set-based UPDATE that archives every Published version.
ArchivePredecessors(c) ==
    [r \in Rows |->
        IF Publishes(c) /\ r \in InStatus(Published)
        THEN [ver[r] EXCEPT !.status = Archived, !.archived_at = TRUE,
                            !.token = NewToken(r)]
        ELSE ver[r]]

\* Mutant: the flag follows the new status alone.
ArchivedFlagReset(c) == c.to = Archived

\* resolveRequirementArchivedFlag, of the flag read in the snapshot.
ResolveArchivedFlag(c) == c.to = Archived \/ (c.to # Published /\ c.archived)

\* archive_initiated_at after the version UPDATE: set, cleared or left.
ArchiveInitiatedAfter(c) ==
    \/ c.status = Published /\ c.to = Review
    \/ /\ ver[c.row].archive_initiated
       /\ c.to # Archived
       /\ ~ (c.to = Published /\ c.status = Review /\ c.archive_initiated)

\* Mutant: a status change keeps the revision token.
TransitionRowKeepingToken(c, v) ==
    [v EXCEPT !.status = c.to,
              !.archive_initiated = ArchiveInitiatedAfter(c),
              !.published_at = IF Publishes(c) THEN TRUE ELSE @,
              !.archived_at = IF c.to = Archived THEN TRUE ELSE @]

\* The UPDATE of the version row by its id, whatever it holds by now.
TransitionRow(c, v) ==
    [v EXCEPT !.status = c.to,
              !.archive_initiated = ArchiveInitiatedAfter(c),
              !.published_at = IF Publishes(c) THEN TRUE ELSE @,
              !.archived_at = IF c.to = Archived THEN TRUE ELSE @,
              !.token = NewToken(c.row)]

\* Mutant: superseded versions stay in their packages.
LinksKept(c) == linked

\* A publication takes the package links of every other version.
LinksAfter(c) == IF Publishes(c) THEN linked \cap {c.row} ELSE linked

CommitTransition(p) == LET c == call[p] IN
    /\ c.op = "transition"
    /\ c.row \in live
    /\ ver' = [ArchivePredecessors(c) EXCEPT ![c.row] = TransitionRow(c, @)]
    /\ linked' = LinksAfter(c)
    /\ archived' = ResolveArchivedFlag(c)
    /\ selected' = CleanedSelection(ver')
    /\ reviewed' = IF c.status = Draft /\ c.to = Review
                   THEN [reviewed EXCEPT ![c.row] = ver[c.row].text] ELSE reviewed
    /\ call' = [call EXCEPT ![p] = Idle]
    /\ UNCHANGED <<present, live, form>>

-----------------------------------------------------------------------------
(* deleteDraftVersion: READ COMMITTED *)

ReadDelete(p) == \E r \in InStatus(Draft) :
    /\ call[p] = Idle
    /\ IsLatest(r)
    /\ call' = [call EXCEPT ![p] = [op |-> "delete", row |-> r]]
    /\ UNCHANGED <<tables, form, reviewed>>

\* Mutant: the package links are forgotten.
CommitDeleteKeepingLinks(p) ==
    /\ call[p].op = "delete"
    /\ live' = live \ {call[p].row}
    /\ present' = (present /\ live' # {})
    /\ live' = {} => selected = {}
    /\ ver' = [ver EXCEPT ![call[p].row] = Blank]
    /\ reviewed' = [reviewed EXCEPT ![call[p].row] = None]
    /\ call' = [call EXCEPT ![p] = Idle]
    /\ UNCHANGED <<archived, linked, selected, form>>

\* Mutant: the remaining versions are counted before the deletion.
CommitDeleteCountingFirst(p) ==
    /\ call[p].op = "delete"
    /\ live' = live \ {call[p].row}
    /\ linked' = linked \ {call[p].row}
    /\ present' = (present /\ live # {})
    /\ ver' = [ver EXCEPT ![call[p].row] = Blank]
    /\ reviewed' = [reviewed EXCEPT ![call[p].row] = None]
    /\ call' = [call EXCEPT ![p] = Idle]
    /\ UNCHANGED <<archived, selected, form>>

\* The row goes whatever its status is by now; the requirement goes with its
\* last version, unless a selection answer still refers to it.
CommitDelete(p) ==
    /\ call[p].op = "delete"
    /\ live' = live \ {call[p].row}
    /\ linked' = linked \ {call[p].row}
    /\ present' = (present /\ live' # {})
    /\ live' = {} => selected = {}
    /\ ver' = [ver EXCEPT ![call[p].row] = Blank]
    /\ reviewed' = [reviewed EXCEPT ![call[p].row] = None]
    /\ call' = [call EXCEPT ![p] = Idle]
    /\ UNCHANGED <<archived, selected, form>>

-----------------------------------------------------------------------------
(* restoreVersion: READ COMMITTED; reactivateRequirement: locks first *)

ReadRestore(p) == \E r \in live, n \in 1..MaxNum :
    /\ call[p] = Idle
    /\ IsNextNum(n)
    /\ call' = [call EXCEPT ![p] = [op |-> "restore", text |-> ver[r].text,
                                   linked |-> r \in linked, num |-> n]]
    /\ UNCHANGED <<tables, form, reviewed>>

CommitRestore(p) == LET c == call[p] IN
    /\ c.op = "restore"
    /\ present
    /\ \E r \in Rows : InsertDraft(r, c.num, c.text, c.linked)
    /\ call' = [call EXCEPT ![p] = Idle]
    /\ UNCHANGED <<present, archived, selected, form>>

Reactivate == \E r \in InStatus(Archived), new \in Rows, n \in 1..MaxNum :
    /\ IsLatest(r)
    /\ IsNextNum(n)
    /\ InsertDraft(new, n, ver[r].text, r \in linked)
    /\ archived' = FALSE
    /\ UNCHANGED <<present, selected, form, call>>

-----------------------------------------------------------------------------
(* Selection answers: replaceAnswerLinks checks the requirement, then links *)

ReadLink(p) == \E a \in Answers :
    /\ call[p] = Idle
    /\ InStatus(Published) # {}
    /\ call' = [call EXCEPT ![p] = [op |-> "link", answer |-> a]]
    /\ UNCHANGED <<tables, form, reviewed>>

CommitLink(p) ==
    /\ call[p].op = "link"
    /\ present
    /\ selected' = selected \cup {call[p].answer}
    /\ call' = [call EXCEPT ![p] = Idle]
    /\ UNCHANGED <<present, archived, live, ver, linked, form, reviewed>>

Unlink == \E a \in selected :
    /\ selected' = selected \ {a}
    /\ UNCHANGED <<present, archived, live, ver, linked, form, call, reviewed>>

-----------------------------------------------------------------------------

\* Rollback: a deadlock victim, a broken unique index or foreign key, a
\* vanished row, a lost connection.
Abort(p) ==
    /\ call[p] # Idle
    /\ call' = [call EXCEPT ![p] = Idle]
    /\ UNCHANGED <<tables, form, reviewed>>

\* Requests that write the database; each must satisfy the unique indexes.
Write ==
    \/ \E r \in Rows, x \in Texts, b \in Membership : Create(r, x, b)
    \/ \E e \in Editors, x \in Texts, b \in Membership :
          SaveInPlace(e, x, b) \/ SaveAsNewDraft(e, x, b)
    \/ InitiateArchiving \/ ApproveArchiving \/ CancelArchiving
    \/ Reactivate \/ Unlink
    \/ \E p \in Procs : \/ CommitTransition(p) \/ CommitDelete(p)
                        \/ CommitRestore(p) \/ CommitLink(p)

Read ==
    \/ \E e \in Editors : LoadForm(e) \/ CloseForm(e)
    \/ \E p \in Procs : \/ \E to \in Status : ReadTransition(p, to)
                        \/ ReadDelete(p) \/ ReadRestore(p) \/ ReadLink(p)
                        \/ Abort(p)

Next == (Write /\ UniqueIndexes') \/ Read

Spec == Init /\ [][Next]_vars

\* The same requests, one at a time: nothing runs between a read and its commit.
OneAtATime ==
    (\E p \in Procs : call[p] # Idle)
        => \E p \in Procs : call[p] # Idle /\ call'[p] = Idle

SerialNext == Next /\ OneAtATime
SerialSpec == Init /\ [][SerialNext]_vars

-----------------------------------------------------------------------------
(* What holds whatever runs concurrently (Spec) *)

\* An edit never overwrites work its author has not seen: while the token a
\* form remembers is still the row's, so are the text and the status the form
\* showed - every write, a status change included, renews the token.
TokenPinsForm == \A e \in Editors : LET f == form[e] IN
    f # NoForm /\ f.row \in live /\ ver[f.row].token = f.token
        => ver[f.row].text = f.text /\ ver[f.row].status = f.status

\* A requirement exists exactly as long as it has a version, whatever
\* deletions, restorations and edits overlap.
RequirementHasVersions == present <=> live # {}

\* Only a Draft's content ever changes: what is under review, published or
\* archived stays as it was, even when a save races a status change.
ContentFrozen ==
    [][\A r \in live \cap live' : ver'[r].text # ver[r].text
            => ver[r].status = Draft /\ ver'[r].status = Draft]_vars

-----------------------------------------------------------------------------
(* What holds when requests run one at a time (SerialSpec) *)

\* The dates of version-lifecycle-dates.md by status: a publication date on
\* what was published, an archiving mark on archiving review alone, an
\* archiving date on Archived versions alone.
LifecycleDates == \A r \in live : LET v == ver[r] IN
    /\ v.published_at <=> v.status \in {Published, Archived} \/ v.archive_initiated
    /\ v.archive_initiated => v.status = Review
    /\ v.archived_at <=> v.status = Archived

\* What is published is the text that was submitted for review.
PublishedWasReviewed ==
    \A r \in InStatus(Published) : reviewed[r] = ver[r].text

\* Links move with publication: no archived predecessor keeps its packages
\* beside a Published version (ADR 0031), and a selection answer links only to
\* a requirement in use: one with a Published version, or with one under
\* archiving review.
LinksFollowPublication ==
    /\ InStatus(Published) # {} => linked \cap InStatus(Archived) = {}
    /\ selected # {} => \E r \in live :
           ver[r].status = Published \/ ver[r].archive_initiated

\* is_archived is taken back only by a publication or a reactivation (which
\* adds a version), or goes with the requirement.
ArchivedFlagKept ==
    [][archived /\ ~archived' =>
          \/ \E r \in live : ver[r].status # Published /\ ver'[r].status = Published
          \/ ~ (live' \subseteq live)]_vars

\* The versions' states, as the workflow names them.
WorkflowState == [r \in Rows |->
    IF r \notin live THEN "None"
    ELSE IF ver[r].archive_initiated THEN "ArchivingReview" ELSE ver[r].status]

Workflow == INSTANCE PublicationWorkflow WITH Versions <- Rows, state <- WorkflowState

\* One request at a time, the lifecycle implements the published workflow.
ImplementsWorkflow == Workflow!Spec
=============================================================================
