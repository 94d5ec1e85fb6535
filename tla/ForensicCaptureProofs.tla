----------------------- MODULE ForensicCaptureProofs -----------------------
(***************************************************************************)
(* Capture windows for any number of persons, windows and pieces of        *)
(* evidence: one window at a time, and evidence that stays in a purged one *)
(* was stored by a blocked call between the two statements of a purge.     *)
(***************************************************************************)
EXTENDS ForensicCapture, SequenceTheorems, TLAPS

\* No step gives a window the slot or, while it lasts, takes it from an active one.
Kept(old, new) ==
  /\ new \in Capture
  /\ OpenSlot(new) => OpenSlot(old)
  /\ Active(new) => new.open \/ (Active(old) /\ ~old.open)

\* Nothing is added to a window, and when it is purged nothing is left.
Emptied(old, new) ==
  /\ new.purged => old.purged \/ new.evidence = 0
  /\ old.evidence = 0 => new.evidence = 0

Follows(old, new) == Kept(old, new) /\ Emptied(old, new)

OneSlot == \A v, w \in Windows : OpenSlot(captures[v]) /\ OpenSlot(captures[w]) => v = w

SlotIInv == ForensicTypeOK /\ OneSlot /\ ActiveHoldsSlot

\* A window whose purge has begun has lost its evidence, save what came since.
PurgeBegun ==
  \A p \in Persons : LET w == purging[p].window IN
    w # 0 => w \in Windows /\ (captures[w].evidence = 0 \/ w \in missed)

PurgeIInv == ForensicTypeOK /\ OnlyMissedStay /\ PurgeBegun

-----------------------------------------------------------------------------
(***************************************************************************)
(* Sequences and types.                                                    *)
(***************************************************************************)
LEMMA AppendRow ==
  ASSUME NEW S, NEW s \in Seq(S), NEW e \in S
  PROVE  /\ Append(s, e) \in Seq(S) /\ Len(Append(s, e)) = Len(s) + 1
         /\ DOMAIN Append(s, e) = DOMAIN s \cup {Len(s) + 1}
         /\ Append(s, e)[Len(s) + 1] = e
         /\ \A i \in DOMAIN s : i # Len(s) + 1 /\ Append(s, e)[i] = s[i]
  OBVIOUS

LEMMA MappedSeq ==
  ASSUME NEW S, NEW s \in Seq(S), NEW T, NEW f \in [DOMAIN s -> T]
  PROVE  f \in Seq(T) /\ Len(f) = Len(s) /\ DOMAIN f = DOMAIN s
  OBVIOUS

LEMMA Rows ==
  ASSUME ForensicTypeOK
  PROVE  /\ Windows = 1 .. Len(captures) /\ Len(captures) \in Nat
         /\ \A w \in Windows : captures[w] \in Capture
         /\ \A w \in Windows : w \in 1 .. MaxCaptures
  BY ForensicAssumption DEF ForensicTypeOK, Windows

LEMMA Stays ==
  ASSUME NEW c \in Capture
  PROVE  Follows(c, c)
  BY DEF Follows, Kept, Emptied

\* As many rows.  A window to which neither a blocked call nor the end of a purge
\* does anything only loses evidence.
Grows(w) == Persist(w) \/ \E p \in Persons : EndPurge(p) /\ purging[p].window = w

SameRows ==
  /\ captures' \in Seq(Capture) /\ Len(captures') = Len(captures)
  /\ DOMAIN captures' = Windows
  /\ \A w \in Windows : Kept(captures[w], captures'[w])
  /\ \A w \in Windows : Emptied(captures[w], captures'[w]) \/ Grows(w)

LEMMA PurgedFollows ==
  ASSUME NEW old \in Capture, NEW new \in Capture, new.purged, ~new.open, new.evidence = 0
  PROVE  Follows(old, new)
  BY DEF Follows, Kept, Emptied, Capture, OpenSlot, Active

LEMMA AllFollow ==
  ASSUME ForensicTypeOK, captures' = [w \in Windows |-> captures'[w]],
         \A w \in Windows : Follows(captures[w], captures'[w])
  PROVE  SameRows
<1>1. captures' \in [DOMAIN captures -> Capture]
  BY DEF Follows, Kept, Windows
<1>. QED  BY <1>1, MappedSeq DEF SameRows, ForensicTypeOK, Windows, Follows

LEMMA OneFollows ==
  ASSUME ForensicTypeOK, NEW w \in Windows, NEW x, Kept(captures[w], x),
         Emptied(captures[w], x) \/ Grows(w),
         captures' = [captures EXCEPT ![w] = x]
  PROVE  SameRows
<1>1. \A v \in Windows : captures'[v] = IF v = w THEN x ELSE captures[v]
  BY DEF Windows
<1>2. \A v \in Windows : /\ Kept(captures[v], captures'[v])
                         /\ Emptied(captures[v], captures'[v]) \/ Grows(v)
  BY <1>1, Rows, Stays DEF Follows
<1>3. captures' \in [DOMAIN captures -> Capture]
  BY <1>2 DEF Kept, Windows
<1>. QED  BY <1>2, <1>3, MappedSeq DEF SameRows, ForensicTypeOK, Windows

-----------------------------------------------------------------------------
(***************************************************************************)
(* What the steps do to the rows.                                          *)
(***************************************************************************)
\* The rows after the expired ones were reset.
LEMMA ResetFollows ==
  ASSUME ForensicTypeOK
  PROVE  /\ ExpiredReset \in Seq(Capture) /\ Len(ExpiredReset) = Len(captures)
         /\ DOMAIN ExpiredReset = Windows
         /\ \A w \in Windows : Follows(captures[w], ExpiredReset[w])
         /\ \A w \in Windows : ExpiredReset[w].evidence = captures[w].evidence
<1>1. ASSUME NEW w \in Windows
      PROVE  /\ Follows(captures[w], ExpiredReset[w])
             /\ ExpiredReset[w].evidence = captures[w].evidence
  <2>0. captures[w] \in Capture
    BY Rows
  <2>1. ExpiredReset[w] = [captures[w] EXCEPT !.open = captures[w].open /\ ~captures[w].expired]
    BY DEF ExpiredReset
  <2>2. CASE captures[w].expired
    <3>1. \A c \in Capture : [c EXCEPT !.open = c.open /\ ~TRUE] = [c EXCEPT !.open = FALSE]
      OBVIOUS
    <3>2. ExpiredReset[w] = [captures[w] EXCEPT !.open = FALSE]
      BY <2>0, <2>1, <2>2, <3>1 DEF Capture
    <3>3. \A c \in Capture : c.expired => Follows(c, [c EXCEPT !.open = FALSE])
      BY DEF Follows, Kept, Emptied, Capture, OpenSlot, Active
    <3>. QED  BY <2>0, <2>2, <3>2, <3>3 DEF Capture
  <2>3. CASE ~captures[w].expired
    <3>1. \A c \in Capture : [c EXCEPT !.open = c.open /\ ~FALSE] = c
      BY DEF Capture
    <3>2. ExpiredReset[w] = captures[w]
      BY <2>0, <2>1, <2>3, <3>1 DEF Capture
    <3>. QED  BY <2>0, <3>2, Stays
  <2>. QED  BY <2>2, <2>3
<1>2. ExpiredReset \in [DOMAIN captures -> Capture]
  BY <1>1 DEF ExpiredReset, Windows, Follows, Kept
<1>. QED  BY <1>1, <1>2, MappedSeq DEF ForensicTypeOK, Windows

\* A step that adds no window.
LEMMA OldRows ==
  ASSUME ForensicTypeOK, [ForensicNext]_forensicVars,
         ~\E p \in Persons : RequestCapture(p)
  PROVE  SameRows
<1>1. CASE UNCHANGED captures
  BY <1>1, Rows, Stays DEF SameRows, ForensicTypeOK, Windows, Follows
<1>2. CASE RefuseRequest
  BY <1>2, ResetFollows DEF RefuseRequest, SameRows, Follows
<1>3. ASSUME NEW p \in Persons, NEW w \in Windows, ApproveCapture(p, w)
      PROVE  SameRows
  <2>. DEFINE over(v) == v # w /\ ~captures[v].purged
                         /\ (captures[v].stopped \/ captures[v].expired)
              x == [captures[w] EXCEPT !.approved = TRUE, !.actors = captures[w].actors \cup {p}]
              y(v) == [captures[v] EXCEPT !.purged = TRUE, !.open = FALSE, !.evidence = 0,
                                          !.actors = captures[v].actors \cup {p}]
  <2>1. captures' = [v \in Windows |-> IF v = w THEN x ELSE IF over(v) THEN y(v) ELSE captures[v]]
    BY <1>3 DEF ApproveCapture
  <2>2. \A c \in Capture :
          Follows(c, [c EXCEPT !.purged = TRUE, !.open = FALSE, !.evidence = 0,
                               !.actors = c.actors \cup {p}])
    <3>1. 0 \in 0 .. EvidenceLimit
      BY ForensicAssumption
    <3>2. \A c \in Capture : \A a \in SUBSET Persons :
            /\ [c EXCEPT !.purged = TRUE, !.open = FALSE, !.evidence = 0, !.actors = a] \in Capture
            /\ [c EXCEPT !.purged = TRUE, !.open = FALSE, !.evidence = 0, !.actors = a].purged
            /\ ~[c EXCEPT !.purged = TRUE, !.open = FALSE, !.evidence = 0, !.actors = a].open
            /\ [c EXCEPT !.purged = TRUE, !.open = FALSE, !.evidence = 0, !.actors = a].evidence = 0
      BY <3>1 DEF Capture
    <3>3. \A c \in Capture : c.actors \cup {p} \in SUBSET Persons
      BY DEF Capture
    <3>. QED  BY <3>2, <3>3, PurgedFollows
  <2>3. \A c \in Capture : c.open /\ ~c.purged =>
          Follows(c, [c EXCEPT !.approved = TRUE, !.actors = c.actors \cup {p}])
    BY DEF Follows, Kept, Emptied, Capture, OpenSlot, Active
  <2>4. Follows(captures[w], x) /\ \A v \in Windows : Follows(captures[v], y(v))
    BY <1>3, <2>2, <2>3, Rows DEF ApproveCapture
  <2>5. \A v \in Windows : Follows(captures[v], captures[v])
    BY Rows, Stays
  <2>. HIDE DEF over, x, y
  <2>6. \A v \in Windows : Follows(captures[v], captures'[v])
    BY <2>1, <2>4, <2>5
  <2>7. captures' = [v \in Windows |-> captures'[v]]
    BY <2>1
  <2>. QED  BY <2>6, <2>7, AllFollow
<1>4. ASSUME NEW p \in Persons, NEW w \in Windows, StopCapture(p, w)
      PROVE  SameRows
  <2>1. \A c \in Capture : Follows(c, [c EXCEPT !.stopped = TRUE, !.open = FALSE,
                                                !.actors = c.actors \cup {p}])
    BY DEF Follows, Kept, Emptied, Capture, OpenSlot, Active
  <2>. QED  BY <1>4, <2>1, Rows, OneFollows DEF StopCapture, Follows
<1>5. ASSUME NEW p \in Persons, NEW w \in Windows, StartPurge(p, w)
      PROVE  SameRows
  <2>1. \A c \in Capture : Follows(c, [c EXCEPT !.evidence = 0])
    BY ForensicAssumption DEF Follows, Kept, Emptied, Capture, OpenSlot, Active
  <2>. QED  BY <1>5, <2>1, Rows, OneFollows DEF StartPurge, Follows
<1>6. ASSUME NEW p \in Persons, EndPurge(p)
      PROVE  SameRows
  <2>. DEFINE w == purging[p].window
              x == [captures[w] EXCEPT !.purged = TRUE, !.stopped = TRUE, !.open = FALSE,
                                       !.actors = captures[w].actors \cup {p}]
  <2>1. \A c \in Capture :
          Kept(c, [c EXCEPT !.purged = TRUE, !.stopped = TRUE, !.open = FALSE,
                            !.actors = c.actors \cup {p}])
    BY DEF Kept, Capture, OpenSlot, Active
  <2>2. captures' = captures \/ captures' = [captures EXCEPT ![w] = x]
    BY <1>6 DEF EndPurge
  <2>3. CASE w \in Windows /\ captures' = [captures EXCEPT ![w] = x]
    <3>1. Kept(captures[w], x) /\ Grows(w)
      BY <1>6, <2>1, <2>3, Rows DEF Grows
    <3>. HIDE DEF x, w
    <3>. QED  BY <2>3, <3>1, OneFollows
  <2>4. w \notin Windows => [captures EXCEPT ![w] = x] = captures
    BY DEF ForensicTypeOK, Windows
  <2>. QED  BY <1>1, <2>2, <2>3, <2>4
<1>7. ASSUME NEW w \in Windows, Persist(w)
      PROVE  SameRows
  <2>1. \A c \in Capture : c.evidence < EvidenceLimit =>
          Kept(c, [c EXCEPT !.evidence = c.evidence + 1])
    BY ForensicAssumption DEF Kept, Capture, OpenSlot, Active
  <2>2. captures' = [captures EXCEPT ![w] = [captures[w] EXCEPT !.evidence = captures[w].evidence + 1]]
    BY <1>7 DEF Persist
  <2>. QED  BY <1>7, <2>1, <2>2, Rows, OneFollows DEF Persist, Grows
<1>8. ASSUME NEW w \in Windows, Expire(w)
      PROVE  SameRows
  <2>1. \A c \in Capture : Follows(c, [c EXCEPT !.expired = TRUE])
    BY DEF Follows, Kept, Emptied, Capture, OpenSlot, Active
  <2>. QED  BY <1>8, <2>1, Rows, OneFollows DEF Expire, Follows
<1>9. ASSUME NEW w \in Windows, Age(w)
      PROVE  SameRows
  <2>1. \A c \in Capture : Follows(c, [c EXCEPT !.due = TRUE])
    BY DEF Follows, Kept, Emptied, Capture, OpenSlot, Active
  <2>. QED  BY <1>9, <2>1, Rows, OneFollows DEF Age, Follows
<1>10. ASSUME NEW w \in Windows, MarkExpired(w)
       PROVE  SameRows
  <2>1. \A c \in Capture : c.expired => Follows(c, [c EXCEPT !.open = FALSE])
    BY DEF Follows, Kept, Emptied, Capture, OpenSlot, Active
  <2>2. captures' = [captures EXCEPT ![w] = [captures[w] EXCEPT !.open = FALSE]]
    BY <1>10 DEF MarkExpired
  <2>. QED  BY <1>10, <2>1, <2>2, Rows, OneFollows DEF MarkExpired, Follows
<1>11. ASSUME NEW w \in Windows, CleanEvidence(w)
       PROVE  SameRows
  <2>1. PICK rest \in 0 .. captures[w].evidence - 1 :
          captures' = [captures EXCEPT ![w] = [captures[w] EXCEPT !.evidence = rest]]
    BY <1>11 DEF CleanEvidence
  <2>2. captures[w] \in Capture /\ captures[w].evidence > 0 /\ ~captures[w].purged
    BY <1>11, Rows DEF CleanEvidence, Overdue72
  <2>3. Follows(captures[w], [captures[w] EXCEPT !.evidence = rest])
    BY <2>2, ForensicAssumption DEF Follows, Kept, Emptied, Capture, OpenSlot, Active
  <2>. QED  BY <2>1, <2>3, OneFollows DEF Follows
<1>12. ASSUME NEW w \in Windows, CompleteWindow(w)
       PROVE  SameRows
  <2>1. \A c \in Capture : c.evidence = 0 => Follows(c, [c EXCEPT !.purged = TRUE, !.open = FALSE])
    BY DEF Follows, Kept, Emptied, Capture, OpenSlot, Active
  <2>2. captures' = [captures EXCEPT ![w] = [captures[w] EXCEPT !.purged = TRUE, !.open = FALSE]]
    BY <1>12 DEF CompleteWindow
  <2>. QED  BY <1>12, <2>1, <2>2, Rows, OneFollows DEF CompleteWindow, Completed, Follows
<1>13. ASSUME NEW w \in Windows, EraseEvidence(w)
       PROVE  SameRows
  <2>1. captures' = [captures EXCEPT ![w] = [captures[w] EXCEPT !.evidence = captures[w].evidence - 1]]
    BY <1>13 DEF EraseEvidence
  <2>2. \A c \in Capture : c.evidence > 0 => Follows(c, [c EXCEPT !.evidence = c.evidence - 1])
    BY ForensicAssumption DEF Follows, Kept, Emptied, Capture, OpenSlot, Active
  <2>. QED  BY <1>13, <2>1, <2>2, Rows, OneFollows DEF EraseEvidence, Follows
<1>14. ASSUME NEW p \in Persons, EraseActor(p)
       PROVE  SameRows
  <2>. DEFINE theirs == {w \in Windows : p \in captures[w].actors}
              x(w) == [captures[w] EXCEPT !.evidence = 0, !.actors = captures[w].actors \ {p},
                          !.requester = IF captures[w].requester = p THEN Nobody
                                        ELSE captures[w].requester,
                          !.stopped = TRUE, !.purged = TRUE, !.open = FALSE]
  <2>1. captures' = [w \in Windows |-> IF w \notin theirs THEN captures[w] ELSE x(w)]
    BY <1>14 DEF EraseActor
  <2>2. \A c \in Capture : \A r \in Persons \cup {Nobody} :
          Follows(c, [c EXCEPT !.evidence = 0, !.actors = c.actors \ {p}, !.requester = r,
                               !.stopped = TRUE, !.purged = TRUE, !.open = FALSE])
    <3>. SUFFICES ASSUME NEW c \in Capture, NEW r \in Persons \cup {Nobody}
                  PROVE  Follows(c, [c EXCEPT !.evidence = 0, !.actors = c.actors \ {p},
                                      !.requester = r, !.stopped = TRUE, !.purged = TRUE,
                                      !.open = FALSE])
      OBVIOUS
    <3>. DEFINE e == [c EXCEPT !.evidence = 0, !.actors = c.actors \ {p}, !.requester = r,
                               !.stopped = TRUE, !.purged = TRUE, !.open = FALSE]
    <3>1. 0 \in 0 .. EvidenceLimit /\ c.actors \ {p} \in SUBSET Persons
      BY ForensicAssumption DEF Capture
    <3>2. e \in Capture
      BY <3>1 DEF Capture
    <3>3. e.purged /\ ~e.open /\ e.evidence = 0
      BY DEF Capture
    <3>. HIDE DEF e
    <3>4. Follows(c, e)
      BY <3>2, <3>3, PurgedFollows
    <3>. QED  BY <3>4 DEF e
  <2>3. ASSUME NEW w \in Windows
        PROVE  Follows(captures[w], x(w)) /\ Follows(captures[w], captures[w])
    <3>1. captures[w] \in Capture
      BY Rows
    <3>2. (IF captures[w].requester = p THEN Nobody ELSE captures[w].requester)
            \in Persons \cup {Nobody}
      BY <3>1 DEF Capture
    <3>. QED  BY <2>2, <3>1, <3>2, Stays
  <2>. HIDE DEF theirs, x
  <2>4. \A w \in Windows : Follows(captures[w], captures'[w])
    BY <2>1, <2>3
  <2>5. captures' = [w \in Windows |-> captures'[w]]
    BY <2>1
  <2>. QED  BY <2>4, <2>5, AllFollow
<1>. QED
  BY <1>1, <1>2, <1>3, <1>4, <1>5, <1>6, <1>7, <1>8, <1>9, <1>10, <1>11, <1>12, <1>13, <1>14
  DEF ForensicNext, forensicVars

\* A request adds a window, when no other one holds the slot.
LEMMA NewRow ==
  ASSUME ForensicTypeOK, NEW p \in Persons, RequestCapture(p)
  PROVE  /\ captures' \in Seq(Capture) /\ Len(captures') <= MaxCaptures
         /\ DOMAIN captures' = Windows \cup {Len(captures) + 1}
         /\ Len(captures) + 1 \notin Windows
         /\ \A w \in Windows : Follows(captures[w], captures'[w]) /\ ~OpenSlot(captures[w])
         /\ LET c == captures'[Len(captures) + 1] IN
              ~Active(c) /\ ~c.purged /\ c.evidence = 0
<1>. DEFINE x == [requester |-> p, actors |-> {p}, approved |-> FALSE, stopped |-> FALSE,
                  purged |-> FALSE, open |-> TRUE, expired |-> FALSE, due |-> FALSE,
                  evidence |-> 0]
<1>1. x \in Capture /\ ~Active(x) /\ ~x.purged /\ x.evidence = 0
  BY ForensicAssumption DEF Capture, Active
<1>2. captures' = Append(ExpiredReset, x)
  BY DEF RequestCapture
<1>3. \A w \in Windows : ~OpenSlot(captures[w])
  BY DEF RequestCapture
<1>. HIDE DEF x
<1>4. /\ captures' \in Seq(Capture) /\ Len(captures') = Len(captures) + 1
      /\ DOMAIN captures' = Windows \cup {Len(captures) + 1}
      /\ captures'[Len(captures) + 1] = x
      /\ \A w \in Windows : w # Len(captures) + 1 /\ captures'[w] = ExpiredReset[w]
  BY <1>1, <1>2, ResetFollows, AppendRow
<1>5. Len(captures) < MaxCaptures /\ Len(captures) \in Nat /\ MaxCaptures \in Nat
  BY Rows, ForensicAssumption DEF RequestCapture
<1>. QED  BY <1>1, <1>3, <1>4, <1>5, ResetFollows

-----------------------------------------------------------------------------
(***************************************************************************)
(* Types.                                                                  *)
(***************************************************************************)
\* Who has a purge under way changes when one starts or ends.
LEMMA PurgingStep ==
  ASSUME ForensicTypeOK, [ForensicNext]_forensicVars
  PROVE  /\ purging' \in [Persons -> [window : 0 .. MaxCaptures, deleted : BOOLEAN]]
         /\ \A p \in Persons : \/ purging'[p] = purging[p]
                               \/ purging'[p].window = 0
                               \/ /\ purging'[p].window \in Windows
                                  /\ StartPurge(p, purging'[p].window)
<1>1. CASE UNCHANGED purging
  BY <1>1 DEF ForensicTypeOK
<1>2. ASSUME NEW p \in Persons, EndPurge(p)
      PROVE  /\ purging' \in [Persons -> [window : 0 .. MaxCaptures, deleted : BOOLEAN]]
             /\ \A q \in Persons : purging'[q] = purging[q] \/ purging'[q].window = 0
  BY <1>2, ForensicAssumption DEF EndPurge, NoPurge, ForensicTypeOK
<1>3. ASSUME NEW p \in Persons, NEW w \in Windows, StartPurge(p, w)
      PROVE  /\ purging' \in [Persons -> [window : 0 .. MaxCaptures, deleted : BOOLEAN]]
             /\ \A q \in Persons : purging'[q] = purging[q] \/ (q = p /\ purging'[q].window = w)
  <2>1. captures[w] \in Capture /\ w \in 0 .. MaxCaptures
    BY Rows
  <2>2. [window |-> w, deleted |-> captures[w].evidence > 0]
          \in [window : 0 .. MaxCaptures, deleted : BOOLEAN]
    BY <2>1
  <2>3. purging' = [purging EXCEPT ![p] = [window |-> w, deleted |-> captures[w].evidence > 0]]
    BY <1>3 DEF StartPurge
  <2>. QED  BY <2>2, <2>3 DEF ForensicTypeOK
<1>4. \A p \in Persons : RequestCapture(p) \/ EraseActor(p) => UNCHANGED purging
  BY DEF RequestCapture, EraseActor
<1>5. \A p \in Persons : \A w \in Windows :
        ApproveCapture(p, w) \/ StopCapture(p, w) => UNCHANGED purging
  BY DEF ApproveCapture, StopCapture
<1>6. \A w \in Windows :
        \/ Persist(w) \/ Expire(w) \/ Age(w) \/ MarkExpired(w)
        \/ CleanEvidence(w) \/ CompleteWindow(w) \/ EraseEvidence(w)
        => UNCHANGED purging
  BY DEF Persist, Expire, Age, MarkExpired, CleanEvidence, CompleteWindow, EraseEvidence
<1>7. RefuseRequest \/ UNCHANGED forensicVars => UNCHANGED purging
  BY DEF RefuseRequest, forensicVars
<1>8. \/ UNCHANGED purging \/ \E p \in Persons : EndPurge(p)
      \/ \E p \in Persons : \E w \in Windows : StartPurge(p, w)
  BY <1>4, <1>5, <1>6, <1>7 DEF ForensicNext
<1>. QED  BY <1>1, <1>2, <1>3, <1>8

\* The history only grows, by the windows that take evidence while a purge of them
\* is under way.
LEMMA MissedStep ==
  ASSUME ForensicTypeOK, [ForensicNext]_forensicVars
  PROVE  /\ missed \subseteq missed' /\ missed' \in SUBSET (1 .. MaxCaptures)
         /\ \A w \in Windows : \A p \in Persons :
              Persist(w) /\ purging[p].window = w => w \in missed'
<1>1. \A p \in Persons : RequestCapture(p) \/ EraseActor(p) \/ EndPurge(p) => UNCHANGED missed
  BY DEF RequestCapture, EraseActor, EndPurge
<1>2. \A p \in Persons : \A w \in Windows :
        ApproveCapture(p, w) \/ StopCapture(p, w) \/ StartPurge(p, w) => UNCHANGED missed
  BY DEF ApproveCapture, StopCapture, StartPurge
<1>3. \A w \in Windows :
        \/ Expire(w) \/ Age(w) \/ MarkExpired(w)
        \/ CleanEvidence(w) \/ CompleteWindow(w) \/ EraseEvidence(w)
        => UNCHANGED missed
  BY DEF Expire, Age, MarkExpired, CleanEvidence, CompleteWindow, EraseEvidence
<1>4. RefuseRequest \/ UNCHANGED forensicVars => UNCHANGED missed
  BY DEF RefuseRequest, forensicVars
<1>5. missed \in SUBSET (1 .. MaxCaptures)
  BY DEF ForensicTypeOK
<1>6. ASSUME NEW w \in Windows, Persist(w)
      PROVE  /\ missed \subseteq missed' /\ missed' \in SUBSET (1 .. MaxCaptures)
             /\ \A p \in Persons : purging[p].window = w => w \in missed'
  BY <1>5, <1>6, Rows DEF Persist
<1>7. UNCHANGED missed \/ \E w \in Windows : Persist(w)
  BY <1>1, <1>2, <1>3, <1>4 DEF ForensicNext
<1>. QED  BY <1>5, <1>6, <1>7

LEMMA NextTypes == ForensicTypeOK /\ [ForensicNext]_forensicVars => ForensicTypeOK'
<1>. SUFFICES ASSUME ForensicTypeOK, [ForensicNext]_forensicVars PROVE ForensicTypeOK'
  OBVIOUS
<1>1. CASE \E p \in Persons : RequestCapture(p)
  BY <1>1, NewRow, PurgingStep, MissedStep DEF ForensicTypeOK
<1>2. CASE ~\E p \in Persons : RequestCapture(p)
  BY <1>2, OldRows, PurgingStep, MissedStep DEF ForensicTypeOK, SameRows
<1>. QED  BY <1>1, <1>2

LEMMA InitTypes ==
  ASSUME ForensicInit
  PROVE  ForensicTypeOK /\ Windows = {} /\ \A p \in Persons : purging[p].window = 0
<1>1. captures \in Seq(Capture) /\ Len(captures) = 0 /\ DOMAIN captures = {}
  BY DEF ForensicInit
<1>2. 0 <= MaxCaptures /\ 0 \in 0 .. MaxCaptures
  BY ForensicAssumption
<1>. QED  BY <1>1, <1>2 DEF ForensicInit, ForensicTypeOK, Windows, NoPurge

-----------------------------------------------------------------------------
(***************************************************************************)
(* The theorems.                                                           *)
(***************************************************************************)
LEMMA SlotStep == SlotIInv /\ [ForensicNext]_forensicVars => SlotIInv'
<1>. SUFFICES ASSUME SlotIInv, [ForensicNext]_forensicVars PROVE SlotIInv'
  OBVIOUS
<1>0. ForensicTypeOK /\ OneSlot /\ ActiveHoldsSlot
  BY DEF SlotIInv
<1>1. ASSUME NEW w \in Windows, Kept(captures[w], captures'[w])
      PROVE  /\ OpenSlot(captures'[w]) => OpenSlot(captures[w])
             /\ Active(captures'[w]) => captures'[w].open
  BY <1>0, <1>1 DEF Kept, ActiveHoldsSlot
<1>2. CASE ~\E p \in Persons : RequestCapture(p)
  <2>1. DOMAIN captures' = Windows /\ \A w \in Windows : Kept(captures[w], captures'[w])
    BY <1>0, <1>2, OldRows DEF SameRows
  <2>2. \A v, w \in DOMAIN captures' : OpenSlot(captures'[v]) /\ OpenSlot(captures'[w]) => v = w
    BY <1>0, <1>1, <2>1 DEF OneSlot
  <2>3. \A w \in DOMAIN captures' : Active(captures'[w]) => captures'[w].open
    BY <1>1, <2>1
  <2>. QED
    BY <1>0, <2>2, <2>3, NextTypes
    DEF SlotIInv, OneSlot, ActiveHoldsSlot, Windows, OpenSlot, Active
<1>3. ASSUME NEW p \in Persons, RequestCapture(p)
      PROVE  SlotIInv'
  <2>. DEFINE n == Len(captures) + 1
  <2>1. /\ DOMAIN captures' = Windows \cup {n}
        /\ \A w \in Windows : Kept(captures[w], captures'[w]) /\ ~OpenSlot(captures[w])
        /\ ~Active(captures'[n])
    BY <1>0, <1>3, NewRow DEF Follows
  <2>. HIDE DEF n
  <2>2. \A v, w \in DOMAIN captures' : OpenSlot(captures'[v]) /\ OpenSlot(captures'[w]) => v = w
    BY <1>1, <2>1
  <2>3. \A w \in DOMAIN captures' : Active(captures'[w]) => captures'[w].open
    BY <1>1, <2>1
  <2>. QED
    BY <1>0, <2>2, <2>3, NextTypes
    DEF SlotIInv, OneSlot, ActiveHoldsSlot, Windows, OpenSlot, Active
<1>. QED  BY <1>2, <1>3

LEMMA SlotInvariance == ForensicSpec => []SlotIInv
<1>1. ForensicInit => SlotIInv
  BY InitTypes DEF SlotIInv, OneSlot, ActiveHoldsSlot
<1>. QED  BY <1>1, SlotStep, PTL DEF ForensicSpec

\* Every reachable state is well typed; no window has more evidence than its limit
\* (collection_item_limit).
THEOREM ForensicTypeCorrect == ForensicSpec => []ForensicTypeOK
<1>1. SlotIInv => ForensicTypeOK
  BY DEF SlotIInv
<1>. QED  BY <1>1, SlotInvariance, PTL

\* One window at a time waits for approval or takes evidence, whether or not the
\* clean-up has reset is_open: a window holds the slot for as long as it is active
\* (createAiForensicCaptureRequest).
THEOREM OneWindowAtATime == ForensicSpec => [](OneWindow /\ ActiveHoldsSlot)
<1>1. SlotIInv => OneWindow /\ ActiveHoldsSlot
  BY DEF SlotIInv, OneSlot, OneWindow, ActiveHoldsSlot, Pending, Active, OpenSlot
<1>. QED  BY <1>1, SlotInvariance, PTL

LEMMA PurgeStep == PurgeIInv /\ [ForensicNext]_forensicVars => PurgeIInv'
<1>. SUFFICES ASSUME PurgeIInv, [ForensicNext]_forensicVars PROVE PurgeIInv'
  OBVIOUS
<1>0. ForensicTypeOK /\ OnlyMissedStay /\ PurgeBegun
  BY DEF PurgeIInv
<1>1. ASSUME NEW w \in Windows, Persist(w)
      PROVE  ~captures'[w].purged
  <2>1. captures[w] \in Capture
    BY <1>0, Rows
  <2>. QED  BY <1>0, <1>1, <2>1 DEF Persist, Active, Capture, Windows, ForensicTypeOK
<1>2. ASSUME NEW w \in Windows, NEW p \in Persons, EndPurge(p), purging[p].window = w
      PROVE  /\ captures[w].evidence = 0 \/ w \in missed
             /\ captures'[w].evidence = captures[w].evidence
  <2>1. captures[w].evidence = 0 \/ w \in missed
    BY <1>0, <1>2 DEF EndPurge, PurgeBegun
  <2>2. captures[w] \in Capture
    BY <1>0, Rows
  <2>. QED  BY <1>0, <1>2, <2>1, <2>2 DEF EndPurge, Capture, Windows, ForensicTypeOK
<1>3. /\ Windows \subseteq DOMAIN captures'
      /\ \A w \in Windows : Emptied(captures[w], captures'[w]) \/ Grows(w)
      /\ \A w \in DOMAIN captures' \ Windows : ~captures'[w].purged
  BY <1>0, OldRows, NewRow DEF SameRows, Follows
<1>4. missed \subseteq missed'
  BY <1>0, MissedStep
<1>5. ASSUME NEW w \in DOMAIN captures', captures'[w].purged, captures'[w].evidence > 0
      PROVE  w \in missed'
  <2>1. w \in Windows /\ captures'[w].evidence # 0
    BY <1>3, <1>5
  <2>2. CASE Emptied(captures[w], captures'[w])
    <3>1. captures[w].purged /\ captures[w].evidence # 0 /\ captures[w] \in Capture
      BY <1>0, <1>5, <2>1, <2>2, Rows DEF Emptied
    <3>2. captures[w].evidence > 0
      BY <3>1, ForensicAssumption DEF Capture
    <3>. QED  BY <1>0, <1>4, <2>1, <3>1, <3>2 DEF OnlyMissedStay
  <2>3. CASE Grows(w)
    BY <1>1, <1>2, <1>4, <1>5, <2>1, <2>3 DEF Grows
  <2>. QED  BY <1>3, <2>1, <2>2, <2>3
<1>6. ASSUME NEW p \in Persons, purging'[p].window # 0
      PROVE  /\ purging'[p].window \in DOMAIN captures'
             /\ captures'[purging'[p].window].evidence = 0 \/ purging'[p].window \in missed'
  <2>. DEFINE w == purging'[p].window
  <2>1. CASE purging'[p] = purging[p]
    <3>1. /\ w \in Windows /\ purging[p].window = w
          /\ captures[w].evidence = 0 \/ w \in missed
      BY <1>0, <1>6, <2>1 DEF PurgeBegun
    <3>2. captures'[w].evidence = 0 \/ w \in missed'
      <4>1. CASE Persist(w)
        BY <1>0, <3>1, <4>1, MissedStep
      <4>2. CASE Emptied(captures[w], captures'[w])
        BY <1>4, <3>1, <4>2 DEF Emptied
      <4>3. CASE \E q \in Persons : EndPurge(q) /\ purging[q].window = w
        BY <1>2, <1>4, <3>1, <4>3
      <4>. QED  BY <1>3, <3>1, <4>1, <4>2, <4>3 DEF Grows
    <3>. QED  BY <1>3, <3>1, <3>2
  <2>2. CASE w \in Windows /\ StartPurge(p, w)
    <3>1. captures'[w].evidence = 0
      BY <1>0, <2>2, Rows DEF StartPurge, Capture, Windows, ForensicTypeOK
    <3>. QED  BY <1>3, <2>2, <3>1
  <2>. QED  BY <1>0, <1>6, <2>1, <2>2, PurgingStep
<1>. QED  BY <1>0, <1>5, <1>6, NextTypes DEF PurgeIInv, OnlyMissedStay, PurgeBegun, Windows

\* Whatever overlaps - purges, approvals, batches of the clean-up, erasures - a
\* purged window keeps no evidence but what a blocked call stored between the two
\* statements of a purge (transitionAiForensicCapture).
THEOREM PurgeMissesOnlyOverlaps == ForensicSpec => []OnlyMissedStay
<1>1. ForensicInit => PurgeIInv
  BY InitTypes DEF PurgeIInv, OnlyMissedStay, PurgeBegun
<1>2. PurgeIInv => OnlyMissedStay
  BY DEF PurgeIInv
<1>. QED  BY <1>1, <1>2, PurgeStep, PTL DEF ForensicSpec
=============================================================================
