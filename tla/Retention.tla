----------------------------- MODULE Retention -----------------------------
(***************************************************************************)
(* The retention run over obsolete requirements specifications (lib/       *)
(* archiving/retention.ts): a privacy officer previews what the policy     *)
(* would delete, exports an archive of it, and executes the run with the   *)
(* preview's token and the confirmation that came with the archive.        *)
(*                                                                         *)
(* Abstractions.  One policy, the one that asks for an archive.  A preview *)
(* token is what it is the digest of: the candidates, the cutoff (the day) *)
(* and the policy's updated_at (how many runs it has had).  Of the content *)
(* of a specification only what makes it a candidate is kept.  Reading one *)
(* specification into an archive is one step.                              *)
(***************************************************************************)
EXTENDS Integers, Sequences

CONSTANTS
  Specs,
  Officers,
  Servers,
  NoServer,
  MaxDays,     \* bound: days that pass
  MaxExports,  \* bound: archives asked for
  MaxRuns      \* bound: runs committed

ASSUME RetentionAssumption ==
  /\ NoServer \notin Servers
  /\ MaxDays \in Nat /\ MaxExports \in Nat /\ MaxRuns \in Nat

VARIABLES
  specs,    \* the rows of requirements_specifications
  held,     \* specifications with an active exception
  day,
  runs,     \* committed runs of the policy
  shown,    \* an officer: the preview last shown
  exports   \* archives: the preview they are of, how far they have been read,
            \* and the server that keeps their confirmation

retentionVars == <<specs, held, day, runs, shown, exports>>

PreviewOf == [candidates : SUBSET Specs, day : 0 .. MaxDays, runs : 0 .. MaxRuns]

Export ==
  [preview : PreviewOf, phase : {"reading", "failed", "handed"},
   keptBy : Servers \cup {NoServer}, read : SUBSET Specs]

RetentionTypeOK ==
  /\ specs \in [Specs -> [fate : {"kept", "removed", "retired"}, old : BOOLEAN,
                          inUse : BOOLEAN]]
  /\ held \in SUBSET Specs
  /\ day \in 0 .. MaxDays /\ runs \in 0 .. MaxRuns
  /\ shown \in [Officers -> PreviewOf]
  /\ exports \in Seq(Export) /\ Len(exports) <= MaxExports

\* Selected by the policy: in the table, not updated since the cutoff, neither
\* in Förvaltning nor under an agreement, and not excepted.
Candidate(s) ==
  specs[s].fate = "kept" /\ specs[s].old /\ ~specs[s].inUse /\ s \notin held

Candidates == {s \in Specs : Candidate(s)}

PreviewNow == [candidates |-> Candidates, day |-> day, runs |-> runs]

\* Mutant: the token is of the policy and the cutoff only.
CurrentForPolicy(preview) == preview.day = day /\ preview.runs = runs

\* The token of this preview is the one computed now.
StillCurrent(preview) == preview = PreviewNow

RetentionInit ==
  /\ specs \in [Specs -> [fate : {"kept"}, old : BOOLEAN, inUse : {FALSE}]]
  /\ held \in SUBSET Specs
  /\ day = 0 /\ runs = 0
  /\ shown = [o \in Officers |-> [candidates |-> {}, day |-> 0, runs |-> 0]]
  /\ exports = << >>

Preview(o) ==
  /\ shown' = [shown EXCEPT ![o] = PreviewNow]
  /\ UNCHANGED <<specs, held, day, runs, exports>>

\* The confirmation is minted before the first specification is read.
StartArchive(o, n) ==
  /\ StillCurrent(shown[o]) /\ Len(exports) < MaxExports
  /\ exports' = Append(exports,
       [preview |-> PreviewNow, phase |-> "reading", keptBy |-> n,
        read |-> {}])
  /\ UNCHANGED <<specs, held, day, runs, shown>>

Reading(e) == exports[e].phase = "reading"

\* Nobody has been told of the confirmation, so that it may as well be gone.
LostArchive == [preview |-> [candidates |-> {}, day |-> 0, runs |-> 0], phase |-> "failed",
                keptBy |-> NoServer, read |-> {}]

\* Outside any transaction; a specification that is gone fails the request.
ReadSpecification(e, s) ==
  /\ Reading(e) /\ s \in exports[e].preview.candidates \ exports[e].read
  /\ exports' = IF specs[s].fate = "kept" THEN [exports EXCEPT ![e].read = @ \cup {s}]
                ELSE [exports EXCEPT ![e] = LostArchive]
  /\ UNCHANGED <<specs, held, day, runs, shown>>

\* Limits, the deadline, a client that disconnects.
ArchiveFails(e) ==
  /\ Reading(e)
  /\ exports' = [exports EXCEPT ![e] = LostArchive]
  /\ UNCHANGED <<specs, held, day, runs, shown>>

HandOut(e) ==
  /\ Reading(e) /\ exports[e].read = exports[e].preview.candidates
  /\ exports' = [exports EXCEPT ![e].phase = "handed"]
  /\ UNCHANGED <<specs, held, day, runs, shown>>

\* Mutant: a confirmation counts for whatever its policy selects now.
ConfirmedForPolicy(e) == exports[e].keptBy \in Servers

Confirmed(e) ==
  /\ exports[e].keptBy \in Servers
  /\ StillCurrent(exports[e].preview) /\ exports[e].preview.candidates = Candidates

\* One SERIALIZABLE transaction.  The confirmation is spent in memory: when the
\* transaction is rolled back (a deadlock, a foreign key) it stays spent.
Execute(o, commits) ==
  LET retired == [s \in Specs |->
        IF s \in Candidates THEN [specs[s] EXCEPT !.fate = "retired"] ELSE specs[s]]
  IN
  /\ StillCurrent(shown[o]) /\ runs < MaxRuns
  /\ IF Candidates = {} THEN exports' = exports
     ELSE \E e \in DOMAIN exports :
            /\ exports[e].phase = "handed" /\ Confirmed(e)
            /\ exports' = [exports EXCEPT ![e].keptBy = NoServer]
  /\ IF commits THEN specs' = retired /\ runs' = runs + 1
     ELSE UNCHANGED <<specs, runs>>
  /\ UNCHANGED <<held, day, shown>>

\* Fifteen minutes pass.
ConfirmationExpires(e) ==
  /\ exports[e].phase = "handed" /\ exports[e].keptBy \in Servers
  /\ exports' = [exports EXCEPT ![e].keptBy = NoServer]
  /\ UNCHANGED <<specs, held, day, runs, shown>>

\* A server restarts: its map and the exports it is building are lost.
ServerRestarts(n) ==
  /\ \E e \in DOMAIN exports : exports[e].keptBy = n
  /\ exports' = [e \in DOMAIN exports |->
       IF exports[e].keptBy # n THEN exports[e]
       ELSE IF Reading(e) THEN LostArchive
       ELSE [exports[e] EXCEPT !.keptBy = NoServer]]
  /\ UNCHANGED <<specs, held, day, runs, shown>>

\* The content of a specification is changed, agreements included, without
\* touching its own row.
EditContent(s) ==
  /\ specs[s].fate = "kept"
  /\ \E inUse \in BOOLEAN : specs' = [specs EXCEPT ![s].inUse = inUse]
  /\ UNCHANGED <<held, day, runs, shown, exports>>

\* Its own fields, which set updated_at.
EditRecord(s) ==
  /\ specs[s].fate = "kept"
  /\ \E inUse \in BOOLEAN :
       specs' = [specs EXCEPT ![s].old = FALSE, ![s].inUse = inUse]
  /\ UNCHANGED <<held, day, runs, shown, exports>>

RemoveSpecification(s) ==
  /\ specs[s].fate = "kept"
  /\ specs' = [specs EXCEPT ![s].fate = "removed"]
  /\ UNCHANGED <<held, day, runs, shown, exports>>

Except(s) ==
  /\ held' = held \cup {s}
  /\ UNCHANGED <<specs, day, runs, shown, exports>>

\* The exception is deleted, or its expires_at passes.
ExceptionEnds(s) ==
  /\ held' = held \ {s}
  /\ UNCHANGED <<specs, day, runs, shown, exports>>

Midnight ==
  /\ day < MaxDays /\ day' = day + 1
  /\ \E aged \in SUBSET Specs : specs' = [s \in Specs |-> [specs[s] EXCEPT !.old = @ \/ s \in aged]]
  /\ UNCHANGED <<held, runs, shown, exports>>

RetentionNext ==
  \/ \E o \in Officers :
       \/ Preview(o)
       \/ \E n \in Servers : StartArchive(o, n)
       \/ \E commits \in BOOLEAN : Execute(o, commits)
  \/ \E e \in DOMAIN exports :
       ArchiveFails(e) \/ HandOut(e) \/ ConfirmationExpires(e)
         \/ \E s \in Specs : ReadSpecification(e, s)
  \/ \E n \in Servers : ServerRestarts(n)
  \/ \E s \in Specs :
       EditContent(s) \/ EditRecord(s) \/ RemoveSpecification(s) \/ Except(s) \/ ExceptionEnds(s)
  \/ Midnight

RetentionSpec == RetentionInit /\ [][RetentionNext]_retentionVars

-----------------------------------------------------------------------------
\* A specification that a run deleted was in an archive that had been handed
\* out, however previews, exports, exceptions, midnights and restarts overlap
\* (executeArchivingRetention).
ArchivedFirst ==
  \A s \in Specs : specs[s].fate = "retired" =>
    \E e \in DOMAIN exports : exports[e].phase = "handed" /\ s \in exports[e].read

\* A run deletes exactly what some officer has been shown, whatever was
\* excepted, edited or grown old between the preview and the run.
RetiresWhatWasShown ==
  [][LET retired == {s \in Specs : specs[s].fate # "retired" /\ specs'[s].fate = "retired"}
     IN retired # {} => \E o \in Officers : shown[o].candidates = retired]_retentionVars

=============================================================================
