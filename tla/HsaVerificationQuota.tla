------------------------ MODULE HsaVerificationQuota ------------------------
(***************************************************************************)
(* The quota of HSA person verifications (lib/dal/hsa-verification-        *)
(* quota.ts): one serializable transaction consumes the buckets of the     *)
(* actor, of the actor and target, and of the target, each under an        *)
(* application lock it keeps until it ends, in the window its first        *)
(* statement read.  The clean-up removes the buckets of windows that are   *)
(* over, skipping rows under a lock; a privacy erasure removes every       *)
(* bucket about a person, those of the current window included.            *)
(*                                                                         *)
(* Abstractions.  Time counts windows; a bucket's counter is in the table  *)
(* as soon as it is consumed and taken back on a rollback, which nobody    *)
(* else sees because of the locks.                                         *)
(***************************************************************************)
EXTENDS Integers, FiniteSets

CONSTANTS
  HsaActors, HsaTargets,  \* fingerprints
  Checks,                 \* verification requests
  ActorLimit, PairLimit, TargetLimit,  \* HSA_VERIFICATION_QUOTA_LIMITS
  MaxWindow,              \* bound: the clock stops here
  Anyone                  \* a bucket that is not about an actor, or a target

ASSUME HsaAssumption ==
  /\ IsFiniteSet(Checks) /\ IsFiniteSet(HsaActors) /\ IsFiniteSet(HsaTargets)
  /\ {ActorLimit, PairLimit, TargetLimit} \subseteq Nat \ {0}
  /\ MaxWindow \in Nat
  /\ Anyone \notin HsaActors \cup HsaTargets

\* bucket_kind is told by the fingerprints a bucket has.
Buckets == ((HsaActors \cup {Anyone}) \X (HsaTargets \cup {Anyone})) \ {<<Anyone, Anyone>>}
HsaWindows == 0 .. MaxWindow

VARIABLES
  window,    \* the window of SYSUTCDATETIME()
  count,     \* request_count of hsa_verification_quota_buckets: 0 is no row
  check,     \* a request: its people, its window, how many buckets it consumed
  admitted,  \* history: requests of this window that were allowed, by bucket,
             \* since the bucket was erased
  denied     \* history: those that a later bucket denied, likewise

hsaVars == <<window, count, check, admitted, denied>>

NoCheck == [step |-> "idle", actor |-> Anyone, target |-> Anyone, window |-> 0,
            consumed |-> 0]

HsaTypeOK ==
  /\ window \in HsaWindows
  /\ count \in [Buckets -> [HsaWindows -> Nat]]
  /\ check \in [Checks -> [step : {"idle", "waiting", "holding"},
                           actor : HsaActors \cup {Anyone},
                           target : HsaTargets \cup {Anyone},
                           window : HsaWindows, consumed : 0 .. 3]]
  /\ admitted \in [Buckets -> Nat]
  /\ denied \in [Buckets -> Nat]

HsaInit ==
  /\ window = 0
  /\ count = [b \in Buckets |-> [w \in HsaWindows |-> 0]]
  /\ check = [c \in Checks |-> NoCheck]
  /\ admitted = [b \in Buckets |-> 0]
  /\ denied = [b \in Buckets |-> 0]

\* The three policies, in order.
Policy(c, i) ==
  CASE i = 1 -> <<check[c].actor, Anyone>>
    [] i = 2 -> <<check[c].actor, check[c].target>>
    [] i = 3 -> <<Anyone, check[c].target>>

Limit(b) ==
  CASE b[2] = Anyone -> ActorLimit
    [] b[1] = Anyone -> TargetLimit
    [] OTHER -> PairLimit

\* The application locks a transaction has: those of the buckets it consumed
\* and of the one it is at.
Locks(c) ==
  {Policy(c, i) : i \in 1 .. (check[c].consumed
                              + IF check[c].step = "holding" THEN 1 ELSE 0)}

Locked(b) == \E c \in Checks : check[c].step # "idle" /\ b \in Locks(c)

\* The buckets whose rows it has written and keeps locked until it ends.
Paid(c) == {Policy(c, i) : i \in 1 .. check[c].consumed}

Noted(history, paid) ==
  [b \in Buckets |-> IF b \in paid THEN history[b] + 1 ELSE history[b]]

-----------------------------------------------------------------------------
Begin(c, a, t) ==
  /\ check[c].step = "idle"
  /\ check' = [check EXCEPT ![c] = [step |-> "waiting", actor |-> a, target |-> t,
                                    window |-> window, consumed |-> 0]]
  /\ UNCHANGED <<window, count, admitted, denied>>

\* sp_getapplock.
Lock(c) ==
  /\ check[c].step = "waiting"
  /\ ~Locked(Policy(c, check[c].consumed + 1))
  /\ check' = [check EXCEPT ![c].step = "holding"]
  /\ UNCHANGED <<window, count, admitted, denied>>

Room(c, b) == count[b][check[c].window] < Limit(b)

\* Allowed by this bucket: go on with the next one, or commit.
Consume(c) ==
  LET b == Policy(c, check[c].consumed + 1)
      w == check[c].window IN
  /\ check[c].step = "holding"
  /\ Room(c, b)
  /\ count' = [count EXCEPT ![b][w] = @ + 1]
  /\ IF check[c].consumed < 2
     THEN /\ check' = [check EXCEPT ![c].step = "waiting", ![c].consumed = @ + 1]
          /\ UNCHANGED admitted
     ELSE /\ check' = [check EXCEPT ![c] = NoCheck]
          /\ admitted' = IF w = window THEN Noted(admitted, Paid(c) \cup {b}) ELSE admitted
  /\ UNCHANGED <<window, denied>>

\* Denied by this bucket: the transaction commits what it consumed before.
Deny(c) ==
  /\ check[c].step = "holding"
  /\ ~Room(c, Policy(c, check[c].consumed + 1))
  /\ check' = [check EXCEPT ![c] = NoCheck]
  /\ denied' = IF check[c].window = window THEN Noted(denied, Paid(c)) ELSE denied
  /\ UNCHANGED <<window, count, admitted>>

\* Mutant: the buckets are consumed in transactions of their own.
RollbackNothing(c) ==
  /\ check[c].step # "idle"
  /\ check' = [check EXCEPT ![c] = NoCheck]
  /\ UNCHANGED <<window, count, admitted, denied>>

\* A lock timeout, a failed statement or a crash takes everything back.
Rollback(c) ==
  /\ check[c].step # "idle"
  /\ count' = [b \in Buckets |->
       [count[b] EXCEPT ![check[c].window] = IF b \in Paid(c) THEN @ - 1 ELSE @]]
  /\ check' = [check EXCEPT ![c] = NoCheck]
  /\ UNCHANGED <<window, admitted, denied>>

\* expires_at is the end of the window.
Over(w) == w < window

\* READPAST: rows that a transaction has written are skipped.
PurgeBuckets ==
  \E b \in Buckets, w \in HsaWindows :
    /\ count[b][w] > 0 /\ Over(w)
    /\ \A c \in Checks : check[c].step # "idle" /\ check[c].window = w => b \notin Locks(c)
    /\ count' = [count EXCEPT ![b][w] = 0]
    /\ UNCHANGED <<window, check, admitted, denied>>

\* The buckets about a person, who may be an actor, a target or both: person
\* has the fingerprints, as a bucket does.
About(person) ==
  {b \in Buckets : \E i \in {1, 2} : b[i] = person[i] /\ b[i] # Anyone}

Forget(history, person) == [b \in Buckets |-> IF b \in About(person) THEN 0 ELSE history[b]]

\* Privacy erasure of a person, in one serializable transaction.  It waits for
\* the rows that a request has written, and those it deletes may be of the
\* current window: what was charged to them is forgotten.
EraseSubject(person) ==
  /\ {b \in About(person) : \E w \in HsaWindows : count[b][w] > 0} # {}
  /\ \A c \in Checks : Paid(c) \cap About(person) = {}
  /\ count' = [b \in Buckets |->
       IF b \in About(person) THEN [w \in HsaWindows |-> 0] ELSE count[b]]
  /\ admitted' = Forget(admitted, person)
  /\ denied' = Forget(denied, person)
  /\ UNCHANGED <<window, check>>

HsaTick ==
  /\ window < MaxWindow
  /\ window' = window + 1
  /\ admitted' = [b \in Buckets |-> 0]
  /\ denied' = [b \in Buckets |-> 0]
  /\ UNCHANGED <<count, check>>

HsaNext ==
  \/ \E c \in Checks :
       \/ \E a \in HsaActors, t \in HsaTargets : Begin(c, a, t)
       \/ Lock(c) \/ Consume(c) \/ Deny(c) \/ Rollback(c)
  \/ PurgeBuckets \/ HsaTick
  \/ \E person \in Buckets : EraseSubject(person)

HsaSpec == HsaInit /\ [][HsaNext]_hsaVars

-----------------------------------------------------------------------------
\* Requests of this window that have consumed b and have not ended.
UnderWay(b) == {c \in Checks : check[c].window = window /\ b \in Paid(c)}

\* While a window lasts, no actor, pair or target is allowed more
\* verifications in it than its limit, on all nodes together, counted from the
\* last erasure of its bucket; and every unit in a bucket of the current window
\* is explained by one request that came after it: allowed, denied by a later
\* bucket, or under way.  A rolled-back request leaves nothing, an allowed one
\* has paid in all three, and an erasure takes nothing back twice.
HsaQuotaExact ==
  \A b \in Buckets :
    /\ admitted[b] <= Limit(b)
    /\ count[b][window] = admitted[b] + denied[b] + Cardinality(UnderWay(b))
=============================================================================
