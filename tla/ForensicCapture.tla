--------------------------- MODULE ForensicCapture ---------------------------
(***************************************************************************)
(* Capture windows for forensic evidence of blocked AI calls               *)
(* (lib/ai/forensic-capture.ts and forensic-evidence.ts): a person asks    *)
(* for a window, another one approves it, blocked calls leave evidence     *)
(* while it is active, and purging, approval of a later window, privacy    *)
(* erasure and the scheduled clean-up delete that evidence.                *)
(*                                                                         *)
(* Abstractions.  The clock is which deadlines have passed: a window's     *)
(* expires_at, and the 72 hours after its stop or expiry.  Evidence is a   *)
(* count.  The operation and direction of a window only choose which calls *)
(* it is about, and are left out.  A handler is one step, save the purge,  *)
(* whose two statements hold no lock between them on a window that had no  *)
(* evidence.                                                               *)
(***************************************************************************)
EXTENDS Integers, Sequences, FiniteSetsExt

CONSTANTS
  Persons,
  Nobody,         \* no person, or one whose identity was erased
  EvidenceLimit,  \* collection_item_limit
  MaxCaptures     \* bound: windows asked for

ASSUME ForensicAssumption ==
  /\ Nobody \notin Persons
  /\ EvidenceLimit \in Nat \ {0} /\ MaxCaptures \in Nat

VARIABLES
  captures,  \* the rows of ai_forensic_capture_windows
  purging,   \* a person: the window the first statement of their purge was
             \* about (0: none) and whether it deleted anything
  missed     \* history: windows that took evidence between the two statements
             \* of a purge

forensicVars == <<captures, purging, missed>>

Capture ==
  [requester : Persons \cup {Nobody}, actors : SUBSET Persons,
   approved : BOOLEAN, stopped : BOOLEAN, purged : BOOLEAN, open : BOOLEAN,
   expired : BOOLEAN, due : BOOLEAN, evidence : 0 .. EvidenceLimit]

NoPurge == [window |-> 0, deleted |-> FALSE]

ForensicTypeOK ==
  /\ captures \in Seq(Capture) /\ Len(captures) <= MaxCaptures
  /\ purging \in [Persons -> [window : 0 .. MaxCaptures, deleted : BOOLEAN]]
  /\ missed \in SUBSET (1 .. MaxCaptures)

ForensicInit ==
  /\ captures = << >>
  /\ purging = [p \in Persons |-> NoPurge]
  /\ missed = {}

Windows == DOMAIN captures

Pending(c) == c.open /\ ~c.approved /\ ~c.expired

\* What forensic-evidence.ts takes for an active window; is_open has no part
\* in it.
Active(c) == c.approved /\ ~c.stopped /\ ~c.purged /\ ~c.expired

\* Mutant: a request that waits for its approval does not count.
OpenSlotOfApproved(c) == c.open /\ c.approved /\ ~c.expired

\* What is left of is_open = 1 after the expired rows were reset.
OpenSlot(c) == c.open /\ ~c.expired

ExpiredReset == [w \in Windows |-> [captures[w] EXCEPT !.open = @ /\ ~captures[w].expired]]

RequestCapture(p) ==
  /\ Len(captures) < MaxCaptures
  /\ \A w \in Windows : ~OpenSlot(captures[w])
  /\ captures' = Append(ExpiredReset,
       [requester |-> p, actors |-> {p}, approved |-> FALSE, stopped |-> FALSE,
        purged |-> FALSE, open |-> TRUE, expired |-> FALSE, due |-> FALSE,
        evidence |-> 0])
  /\ UNCHANGED <<purging, missed>>

\* The slot is taken, or the expiry asked for is out of range: the expired rows
\* stay reset.
RefuseRequest == captures' = ExpiredReset /\ UNCHANGED <<purging, missed>>

\* A purge that has deleted rows holds their locks until it ends.
Locked(w) == \E p \in Persons : purging[p] = [window |-> w, deleted |-> TRUE]

\* Approval by somebody else; it also purges every other window that is over.
ApproveCapture(p, w) ==
  LET c == captures[w]
      over(v) == v # w /\ ~captures[v].purged /\ (captures[v].stopped \/ captures[v].expired)
  IN
  /\ c.open /\ ~c.approved /\ ~c.stopped /\ ~c.purged /\ ~c.expired
  /\ c.requester \in Persons \ {p}
  /\ \A v \in Windows : over(v) => ~Locked(v)
  /\ captures' = [v \in Windows |->
       IF v = w THEN [c EXCEPT !.approved = TRUE, !.actors = @ \cup {p}]
       ELSE IF over(v) THEN [captures[v] EXCEPT !.purged = TRUE, !.open = FALSE,
                               !.evidence = 0, !.actors = @ \cup {p}]
       ELSE captures[v]]
  /\ UNCHANGED <<purging, missed>>

StopCapture(p, w) ==
  LET c == captures[w] IN
  /\ c.open /\ c.approved /\ ~c.stopped /\ ~c.purged /\ ~c.expired
  /\ captures' = [captures EXCEPT ![w] = [c EXCEPT !.stopped = TRUE, !.open = FALSE,
                                                   !.actors = @ \cup {p}]]
  /\ UNCHANGED <<purging, missed>>

\* Purging, first statement: DELETE the evidence of the window, whatever its
\* state.
StartPurge(p, w) ==
  /\ purging[p] = NoPurge /\ ~Locked(w)
  /\ purging' = [purging EXCEPT
       ![p] = [window |-> w, deleted |-> captures[w].evidence > 0]]
  /\ captures' = [captures EXCEPT ![w].evidence = 0]
  /\ UNCHANGED missed

\* Second statement and the commit.  When the window was purged meanwhile no
\* row matches: the caller sees a conflict, after the commit.
EndPurge(p) ==
  LET w == purging[p].window
      c == captures[w]
  IN
  /\ w # 0
  /\ purging' = [purging EXCEPT ![p] = NoPurge]
  /\ captures' =
       IF c.purged THEN captures
       ELSE [captures EXCEPT ![w] = [c EXCEPT !.purged = TRUE, !.stopped = TRUE,
                                       !.open = FALSE, !.actors = @ \cup {p}]]
  /\ UNCHANGED missed

\* A blocked call: the guarded INSERT of persistAiForensicEvidence, under the
\* locks that its two sub-queries take.  The DELETE of a purge that found no row
\* has left no lock that stops it.
Persist(w) ==
  LET c == captures[w] IN
  /\ Active(c) /\ c.evidence < EvidenceLimit
  /\ ~Locked(w)
  /\ captures' = [captures EXCEPT ![w].evidence = @ + 1]
  /\ missed' = IF \E p \in Persons : purging[p].window = w THEN missed \cup {w} ELSE missed
  /\ UNCHANGED purging

\* expires_at passes.
Expire(w) ==
  /\ ~captures[w].expired
  /\ captures' = [captures EXCEPT ![w].expired = TRUE]
  /\ UNCHANGED <<purging, missed>>

\* 72 hours after the stop or the expiry; by then expires_at, at most an hour
\* after the request, has passed.
Age(w) ==
  /\ captures[w].expired /\ ~captures[w].due
  /\ captures' = [captures EXCEPT ![w].due = TRUE]
  /\ UNCHANGED <<purging, missed>>

\* The clean-up's first statement; expiry_audited_at, which it also sets, only
\* keeps it from taking a window twice.
MarkExpired(w) ==
  LET c == captures[w] IN
  /\ ~c.stopped /\ c.expired
  /\ captures' = [captures EXCEPT ![w].open = FALSE]
  /\ UNCHANGED <<purging, missed>>

\* Mutant: the 72 hours are counted from stopped_at only.
OverdueWhenStopped(c) == ~c.purged /\ c.stopped /\ c.due

Overdue72(c) == ~c.purged /\ c.due

\* Its second: it deletes what its batch has room for of the evidence that no
\* other statement has locked.
CleanEvidence(w) ==
  LET c == captures[w] IN
  /\ Overdue72(c) /\ c.evidence > 0 /\ ~Locked(w)
  /\ \E rest \in 0 .. c.evidence - 1 : captures' = [captures EXCEPT ![w].evidence = rest]
  /\ UNCHANGED <<purging, missed>>

\* Mutant: a window is completed whether or not the batch took all of it.
CompletedAfterBatch(w) == Overdue72(captures[w])

Completed(w) == Overdue72(captures[w]) /\ captures[w].evidence = 0

\* Its third.
CompleteWindow(w) ==
  /\ Completed(w) /\ ~Locked(w)
  /\ captures' = [captures EXCEPT ![w].purged = TRUE, ![w].open = FALSE]
  /\ UNCHANGED <<purging, missed>>

\* Privacy erasure of a person who asked for, approved, stopped or purged
\* windows, in one SERIALIZABLE transaction.
EraseActor(p) ==
  LET theirs == {w \in Windows : p \in captures[w].actors} IN
  /\ theirs # {} /\ \A w \in theirs : ~Locked(w)
  /\ captures' = [w \in Windows |->
       IF w \notin theirs THEN captures[w]
       ELSE [captures[w] EXCEPT !.evidence = 0, !.actors = @ \ {p},
               !.requester = IF @ = p THEN Nobody ELSE @,
               !.stopped = TRUE, !.purged = TRUE, !.open = FALSE]]
  /\ UNCHANGED <<purging, missed>>

\* Privacy erasure of a person whose blocked calls left evidence.
EraseEvidence(w) ==
  /\ captures[w].evidence > 0 /\ ~Locked(w)
  /\ captures' = [captures EXCEPT ![w].evidence = @ - 1]
  /\ UNCHANGED <<purging, missed>>

ForensicNext ==
  \/ RefuseRequest
  \/ \E p \in Persons : RequestCapture(p) \/ EndPurge(p) \/ EraseActor(p)
  \/ \E w \in Windows :
       \/ \E p \in Persons : ApproveCapture(p, w) \/ StopCapture(p, w) \/ StartPurge(p, w)
       \/ Persist(w) \/ Expire(w) \/ Age(w) \/ MarkExpired(w) \/ CleanEvidence(w)
       \/ CompleteWindow(w) \/ EraseEvidence(w)

\* Time passes, a purge ends, and the timer runs the clean-up.
ForensicFairness ==
  /\ \A p \in Persons : WF_forensicVars(EndPurge(p))
  /\ \A w \in 1 .. MaxCaptures : WF_forensicVars(w \in Windows /\
       (Expire(w) \/ Age(w) \/ CleanEvidence(w)))

ForensicSpec == ForensicInit /\ [][ForensicNext]_forensicVars /\ ForensicFairness

-----------------------------------------------------------------------------
\* At most one window is waiting for approval or active, however windows
\* expire, stop, are purged or erased (createAiForensicCaptureRequest; is_open
\* is not what decides whether evidence is taken).
OneWindow ==
  \A v, w \in Windows :
    (Pending(captures[v]) \/ Active(captures[v])) /\ (Pending(captures[w]) \/ Active(captures[w]))
      => v = w

\* A window that is active holds the slot of is_open: no second one can be
\* asked for while it takes evidence.
ActiveHoldsSlot == \A w \in Windows : Active(captures[w]) => captures[w].open

\* docs/reference/database-schema.md:2499: purged_at is the completion time of
\* the purge of a window's evidence; the clean-up never looks at it again, so
\* whatever is left stays for ever.
PurgedIsEmpty == \A w \in Windows : captures[w].purged => captures[w].evidence = 0

\* What does hold: evidence stays in a purged window only if a blocked call
\* stored some between the two statements of a purge; approvals, the clean-up's
\* batches, erasures and purges that meet leave nothing behind.
OnlyMissedStay ==
  \A w \in Windows : captures[w].purged /\ captures[w].evidence > 0 => w \in missed

\* docs/governance/admin-center.md:360: the evidence of a window is deleted, by
\* the clean-up where nobody else does; all that may stay is what a purge has
\* missed.
EvidenceLeaves ==
  \A w \in 1 .. MaxCaptures :
    (w \in Windows /\ captures[w].evidence > 0) ~>
      \/ w \in Windows /\ captures[w].evidence = 0
      \/ w \in missed /\ captures[w].purged
=============================================================================
