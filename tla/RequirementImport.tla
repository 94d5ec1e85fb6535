-------------------------- MODULE RequirementImport --------------------------
(***************************************************************************)
(* Importing requirements (lib/requirements/import-service.ts): MCP's      *)
(* validation sessions with their quotas, kept in SQL Server               *)
(* (lib/dal/requirement-import-validation-sessions.ts), and the capacity   *)
(* of the process that runs them (import-capacity.ts).                     *)
(*                                                                         *)
(* A call is one request.  It reads without locks, works on what it read,  *)
(* and writes in one serializable transaction; between the steps other     *)
(* calls, administrators, the clean-up and the clock go on, quotas are     *)
(* changed while sessions live, and a privacy erasure removes what a       *)
(* principal has in the tables.  A session's token is random, so a new     *)
(* session has a new token; its owner may use it again and again, whether  *)
(* or not an answer got lost.                                              *)
(*                                                                         *)
(* Abstractions.  Reference data and the import budget are the version     *)
(* their fingerprint names (two, so that a change may be undone); a file   *)
(* is the set of its rows that validation finds free of blocking errors    *)
(* and the bytes its session reserves.  Time is discrete and shared.       *)
(***************************************************************************)
EXTENDS Integers, FiniteSets, FiniteSetsExt, Functions

CONSTANTS
  Tokens,           \* validation tokens
  Principals,       \* creator_principal_fingerprint
  Dests,            \* areas and specifications that take imports
  Rows,             \* rows of a file
  Calls,            \* requests under way
  Quotas,           \* what an administrator may set the quotas to
  Sizes,            \* what a session may reserve
  NodeLimit,        \* REQUIREMENT_IMPORT_CONCURRENCY_PER_NODE
  Ttl,              \* mcpImportValidationTtlMinutes
  RateWindow, Grace,    \* a rate window, and how long its bucket outlives it
  MaxTime,          \* bound: the clock stops here
  MaxChanges,       \* bound: decisions of administrators
  NoSession, NoToken, NoDest, NoPrincipal

ASSUME ImportAssumption ==
  /\ IsFiniteSet(Tokens) /\ IsFiniteSet(Calls) /\ IsFiniteSet(Rows)
  /\ Quotas # {}
  /\ \A q \in Quotas :
       {q.perPrincipal, q.perDest, q.creations, q.bytes} \subseteq Nat \ {0}
  /\ {NodeLimit, Ttl, RateWindow} \cup Sizes \subseteq Nat \ {0}
  /\ {Grace, MaxTime, MaxChanges} \subseteq Nat
  /\ NoToken \notin Tokens /\ NoDest \notin Dests /\ NoPrincipal \notin Principals

Versions == {0, 1}
Windows == 0 .. MaxTime \div RateWindow

Session == [owner : Principals, dest : Dests, ref : Versions, budget : Versions,
            bytes : Sizes, eligible : SUBSET Rows, imported : SUBSET Rows,
            expires : Nat]
ASSUME NoSessionAssumption == NoSession \notin Session

VARIABLES
  now,       \* SYSUTCDATETIME()
  session,   \* requirement_import_validation_sessions, by token
  issued,    \* tokens that were ever given to a session
  bucket,    \* requirement_import_validation_rate_buckets: 0 is no row
  ref,       \* the fingerprint of the reference data
  budget,    \* the fingerprint of the effective import budget
  usable,    \* destinations that exist and take imports
  allowed,   \* principals authorized for the destinations
  quotas,    \* ai_settings: mcp_import_max_active_sessions_per_principal and
             \* _per_destination, _max_creations_per_window, _max_reserved_bytes
  changes,   \* decisions of administrators so far
  call,      \* where each request is and what it has read
  active,    \* activeRequirementImports
  created,   \* history: requirements created from a row of a session
  made,      \* history: sessions a principal created in a window, since the
             \* erasure of its buckets
  granted    \* history: the quotas that the latest session of a principal, of a
             \* destination and of all was admitted under

importVars == <<now, session, issued, bucket, ref, budget, usable, allowed, quotas,
                changes, call, active, created, made, granted>>

NoCall == [pc |-> "idle", by |-> NoPrincipal, dest |-> NoDest, token |-> NoToken,
           ref |-> 0, budget |-> 0, expires |-> 0]

\* Inside withRequirementImportCapacity.
Counted == {"previewed", "committing", "dialog"}
CallPhases == {"idle", "admitted", "executing"} \cup Counted

ImportTypeOK ==
  /\ now \in 0 .. MaxTime
  /\ session \in [Tokens -> Session \cup {NoSession}]
  /\ issued \in SUBSET Tokens
  /\ bucket \in [Principals -> [Windows -> Nat]]
  /\ ref \in Versions /\ budget \in Versions
  /\ usable \in SUBSET Dests /\ allowed \in SUBSET Principals
  /\ quotas \in Quotas
  /\ changes \in 0 .. MaxChanges
  /\ call \in [Calls -> [pc : CallPhases, by : Principals \cup {NoPrincipal},
                         dest : Dests \cup {NoDest}, token : Tokens \cup {NoToken},
                         ref : Versions, budget : Versions, expires : Nat]]
  /\ active \in Nat
  /\ created \in [Tokens -> [Rows -> Nat]]
  /\ made \in [Principals -> [Windows -> Nat]]
  /\ granted \in [owner : [Principals -> Quotas], dest : [Dests -> Quotas], last : Quotas]

ImportInit ==
  /\ now = 0
  /\ session = [t \in Tokens |-> NoSession]
  /\ issued = {}
  /\ bucket = [p \in Principals |-> [w \in Windows |-> 0]]
  /\ ref = 0 /\ budget = 0
  /\ usable = Dests /\ allowed = Principals /\ changes = 0
  /\ quotas \in Quotas
  /\ call = [c \in Calls |-> NoCall]
  /\ active = 0
  /\ created = [t \in Tokens |-> [r \in Rows |-> 0]]
  /\ made = [p \in Principals |-> [w \in Windows |-> 0]]
  /\ granted = [owner |-> [p \in Principals |-> quotas],
                dest |-> [d \in Dests |-> quotas], last |-> quotas]

tables == <<session, issued, bucket, created, made, granted>>
settings == <<ref, budget, usable, allowed, quotas, changes>>

-----------------------------------------------------------------------------
(***************************************************************************)
(* The quotas.                                                             *)
(***************************************************************************)
\* Sessions that are not expired, executed or not.
Live(at) == {t \in Tokens : session[t] # NoSession /\ session[t].expires > at}

OwnedBy(p, at) == {t \in Live(at) : session[t].owner = p}
Targeting(d, at) == {t \in Live(at) : session[t].dest = d}
Reserved(at) == SumFunctionOnSet([t \in Live(at) |-> session[t].bytes], Live(at))

CurrentWindow == now \div RateWindow

\* Of the quotas in force; a session that an earlier quota admitted counts.
WithinQuota(p, d, bytes) ==
  /\ Cardinality(OwnedBy(p, now)) < quotas.perPrincipal
  /\ bucket[p][CurrentWindow] < quotas.creations
  /\ Cardinality(Targeting(d, now)) < quotas.perDest
  /\ Reserved(now) + bytes <= quotas.bytes

-----------------------------------------------------------------------------
(***************************************************************************)
(* The process's capacity.                                                 *)
(***************************************************************************)
Ends(c) == call' = [call EXCEPT ![c] = NoCall]

Enter(c, phase) ==
  /\ active < NodeLimit
  /\ active' = active + 1
  /\ call' = [call EXCEPT ![c] = phase]

Busy(c) == active >= NodeLimit /\ Ends(c) /\ UNCHANGED active

LeaveCapacity(c) == active' = active - 1 /\ Ends(c)

-----------------------------------------------------------------------------
(***************************************************************************)
(* Expiry.                                                                 *)
(***************************************************************************)
Expired(t) == session[t] # NoSession /\ session[t].expires <= now

\* A batch of expired sessions, all or as many as its limit and the locks of
\* others leave it.
PurgeSessions ==
  \E batch \in SUBSET {t \in Tokens : Expired(t)} :
    session' = [t \in Tokens |-> IF t \in batch THEN NoSession ELSE session[t]]

BucketExpires(w) == (w + 1) * RateWindow + Grace

CleanSessions ==
  /\ \E t \in Tokens : Expired(t)
  /\ PurgeSessions
  /\ UNCHANGED <<now, issued, bucket, call, active, created, made, granted, settings>>

CleanBuckets ==
  \E p \in Principals, w \in Windows :
    /\ bucket[p][w] > 0 /\ BucketExpires(w) <= now
    /\ bucket' = [bucket EXCEPT ![p][w] = 0]
    /\ UNCHANGED <<now, session, issued, call, active, created, made, granted, settings>>

-----------------------------------------------------------------------------
(***************************************************************************)
(* MCP: validate.                                                          *)
(***************************************************************************)
\* The checks before any work: authorization, the advisory quota check, the
\* destination and the budget.
Validate(c, p, d) ==
  /\ call[c].pc = "idle"
  /\ p \in allowed
  /\ WithinQuota(p, d, Min(Sizes))
  /\ d \in usable
  /\ call' = [call EXCEPT ![c] = [NoCall EXCEPT !.pc = "admitted", !.by = p,
                                                !.dest = d, !.budget = budget]]
  /\ PurgeSessions
  /\ UNCHANGED <<now, issued, bucket, active, created, made, granted, settings>>

Preview(c) ==
  /\ call[c].pc = "admitted"
  /\ \/ Enter(c, [call[c] EXCEPT !.pc = "previewed", !.ref = ref,
                                 !.expires = now + Ttl])
     \/ Busy(c)
  /\ UNCHANGED <<now, tables, settings>>

\* Mutant: the transaction trusts the advisory check.
AdmitSessionUnchecked(c, bytes) == budget = call[c].budget /\ call[c].expires > now

\* Under the application lock: the budget, the quotas and the table's check
\* that a session does not expire before it is created.
AdmitSession(c, bytes) ==
  /\ budget = call[c].budget
  /\ WithinQuota(call[c].by, call[c].dest, bytes)
  /\ call[c].expires > now

CreateSession(c, t, bytes, eligible) ==
  LET p == call[c].by IN
  /\ call[c].pc = "previewed"
  /\ t \notin issued
  /\ AdmitSession(c, bytes)
  /\ session' = [session EXCEPT ![t] =
       [owner |-> p, dest |-> call[c].dest, ref |-> call[c].ref,
        budget |-> call[c].budget, bytes |-> bytes, eligible |-> eligible,
        imported |-> {}, expires |-> call[c].expires]]
  /\ issued' = issued \cup {t}
  /\ bucket' = [bucket EXCEPT ![p][CurrentWindow] = @ + 1]
  /\ made' = [made EXCEPT ![p][CurrentWindow] = @ + 1]
  /\ granted' = [owner |-> [granted.owner EXCEPT ![p] = quotas],
                 dest |-> [granted.dest EXCEPT ![call[c].dest] = quotas], last |-> quotas]
  /\ LeaveCapacity(c)
  /\ UNCHANGED <<now, created, settings>>

-----------------------------------------------------------------------------
(***************************************************************************)
(* MCP: execute.                                                           *)
(***************************************************************************)
\* Another principal's token, an unknown one and an expired one are not found.
Found(p, t) == session[t] # NoSession /\ session[t].owner = p /\ session[t].expires > now

\* The session is read once without a lock, to refuse early.
Execute(c, p, t) ==
  /\ call[c].pc = "idle"
  /\ Found(p, t)
  /\ call' = [call EXCEPT ![c] = [NoCall EXCEPT !.pc = "executing", !.by = p,
                                                !.token = t]]
  /\ PurgeSessions
  /\ UNCHANGED <<now, issued, bucket, active, created, made, granted, settings>>

StartExecution(c) ==
  /\ call[c].pc = "executing"
  /\ Enter(c, [call[c] EXCEPT !.pc = "committing"]) \/ Busy(c)
  /\ UNCHANGED <<now, tables, settings>>

\* Mutant: the reference data are not compared.
CurrentButForReference(c, t) ==
  /\ Found(call[c].by, t)
  /\ call[c].by \in allowed
  /\ session[t].budget = budget
  /\ session[t].dest \in usable

Current(c, t) ==
  /\ Found(call[c].by, t)
  /\ call[c].by \in allowed
  /\ session[t].budget = budget
  /\ session[t].ref = ref
  /\ session[t].dest \in usable

\* Mutant: every eligible row is imported, executed before or not.
RemainingRepeated(t) == session[t].eligible

Remaining(t) == session[t].eligible \ session[t].imported

\* The transaction reads the session again, under a lock, and writes the
\* requirements and the receipt together.
CommitExecution(c) ==
  LET t == call[c].token IN
  /\ call[c].pc = "committing"
  /\ Current(c, t)
  /\ created' = [created EXCEPT ![t] =
       [r \in Rows |-> IF r \in Remaining(t) THEN @[r] + 1 ELSE @[r]]]
  /\ session' = [session EXCEPT ![t].imported = @ \cup Remaining(t)]
  /\ LeaveCapacity(c)
  /\ UNCHANGED <<now, issued, bucket, made, granted, settings>>

-----------------------------------------------------------------------------
(***************************************************************************)
(* The dialog of the user interface previews and executes without a        *)
(* session, in the same capacity.                                          *)
(***************************************************************************)
\* A preview ends as every call does; it writes nothing.
Dialog(c) ==
  /\ call[c].pc = "idle"
  /\ Enter(c, [NoCall EXCEPT !.pc = "dialog", !.budget = budget])
  /\ UNCHANGED <<now, tables, settings>>

\* An execution creates its requirements (RequirementLifecycle's Create) while
\* the budget is still the one it read.
WriteDialog(c) ==
  /\ call[c].pc = "dialog"
  /\ budget = call[c].budget
  /\ LeaveCapacity(c)
  /\ UNCHANGED <<now, tables, settings>>

-----------------------------------------------------------------------------
\* A refusal, an error or a rolled-back transaction ends the call at any
\* point; the finally block gives the capacity back.
Fail(c) ==
  /\ call[c].pc # "idle"
  /\ IF call[c].pc \in Counted THEN LeaveCapacity(c) ELSE Ends(c) /\ UNCHANGED active
  /\ UNCHANGED <<now, tables, settings>>

\* The process dies with its calls; the database keeps what was committed.
ImportCrash ==
  /\ \E c \in Calls : call[c].pc # "idle"
  /\ call' = [c \in Calls |-> NoCall]
  /\ active' = 0
  /\ UNCHANGED <<now, tables, settings>>

Administrate ==
  /\ changes < MaxChanges
  /\ changes' = changes + 1
  /\ \/ ref' = 1 - ref /\ UNCHANGED <<budget, usable, allowed, quotas>>
     \/ budget' = 1 - budget /\ UNCHANGED <<ref, usable, allowed, quotas>>
     \/ \E d \in usable : usable' = usable \ {d} /\ UNCHANGED <<ref, budget, allowed, quotas>>
     \/ \E p \in allowed : allowed' = allowed \ {p} /\ UNCHANGED <<ref, budget, usable, quotas>>
     \/ quotas' \in Quotas \ {quotas} /\ UNCHANGED <<ref, budget, usable, allowed>>
  /\ UNCHANGED <<now, tables, call, active>>

\* Privacy erasure of a principal, in one transaction: of its sessions, live or
\* not, of its buckets, the current window's included, or of both, as the
\* administrator chooses for each group that has rows.
OwnedRows(p) == {t \in Tokens : session[t] # NoSession /\ session[t].owner = p}

EraseSessions(p) ==
  /\ OwnedRows(p) # {}
  /\ session' = [t \in Tokens |-> IF t \in OwnedRows(p) THEN NoSession ELSE session[t]]

EraseBuckets(p) ==
  /\ {w \in Windows : bucket[p][w] > 0} # {}
  /\ bucket' = [bucket EXCEPT ![p] = [w \in Windows |-> 0]]
  /\ made' = [made EXCEPT ![p] = [w \in Windows |-> 0]]

ErasePrincipal(p) ==
  /\ \/ EraseSessions(p) /\ EraseBuckets(p)
     \/ EraseSessions(p) /\ UNCHANGED <<bucket, made>>
     \/ EraseBuckets(p) /\ UNCHANGED session
  /\ UNCHANGED <<now, issued, call, active, created, granted, settings>>

ImportTick ==
  /\ now < MaxTime
  /\ now' = now + 1
  /\ UNCHANGED <<tables, settings, call, active>>

ImportNext ==
  \/ \E c \in Calls :
       \/ \E p \in Principals, d \in Dests : Validate(c, p, d)
       \/ Preview(c)
       \/ \E t \in Tokens, b \in Sizes, e \in SUBSET Rows : CreateSession(c, t, b, e)
       \/ \E p \in Principals, t \in Tokens : Execute(c, p, t)
       \/ StartExecution(c)
       \/ CommitExecution(c)
       \/ Dialog(c) \/ WriteDialog(c)
       \/ Fail(c)
  \/ \E p \in Principals : ErasePrincipal(p)
  \/ ImportCrash \/ CleanSessions \/ CleanBuckets \/ Administrate \/ ImportTick

ImportSpec == ImportInit /\ [][ImportNext]_importVars

-----------------------------------------------------------------------------
\* Lowering a quota deletes no session, so the sessions may be more than it
\* allows; but however validations race past the advisory check and the quotas
\* change under them, the live sessions of a principal and of a destination,
\* and the creations of a principal in the window, are never more than the
\* quota allowed that its latest one was admitted under
\* (createRequirementImportValidationSessionAtomically), although sessions
\* expire, are purged and erased; an erasure of the buckets restarts the count
\* of creations.  And the process counts exactly the calls that work, on every
\* error path.
ImportCountsHold ==
  /\ \A p \in Principals :
       /\ Cardinality(OwnedBy(p, now)) <= granted.owner[p].perPrincipal
       /\ made[p][CurrentWindow] <= granted.owner[p].creations
  /\ \A d \in Dests : Cardinality(Targeting(d, now)) <= granted.dest[d].perDest
  /\ active = Cardinality({c \in Calls : call[c].pc \in Counted})
  /\ active <= NodeLimit

\* Nor do the bytes that the live sessions reserve exceed theirs.
ImportLimitsHold == ImportCountsHold /\ Reserved(now) <= granted.last.bytes

\* No row becomes two requirements, however often and concurrently its token
\* is executed after lost answers, and the stored receipt tells exactly which
\* rows were imported (execute and inspect_validation).
ReceiptExact ==
  \A t \in Tokens, r \in Rows :
    /\ created[t][r] <= 1
    /\ session[t] # NoSession => (created[t][r] = 1 <=> r \in session[t].imported)

\* Rows are written only as they were validated: under the same budget and
\* reference data, to a destination that still takes them, for an owner who
\* is still authorized, before the session expires (execute).
WritesAreCurrent ==
  [][\A t \in Tokens : created'[t] # created[t] =>
       /\ session[t].budget = budget /\ session[t].ref = ref
       /\ session[t].dest \in usable /\ session[t].owner \in allowed
       /\ session[t].expires > now]_importVars
=============================================================================
