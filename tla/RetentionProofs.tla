-------------------------- MODULE RetentionProofs --------------------------
(***************************************************************************)
(* What a retention run may delete, for every number of specifications,    *)
(* officers, servers, days, archives and runs: only what was in an archive *)
(* that had been handed out, and only what an officer had been shown.      *)
(***************************************************************************)
EXTENDS Retention, SequenceTheorems, TLAPS

\* An archive that was handed out holds everything it was asked to hold.
Complete(e) == exports[e].phase = "handed" => exports[e].read = exports[e].preview.candidates

RetentionIInv == RetentionTypeOK /\ (\A e \in DOMAIN exports : Complete(e)) /\ ArchivedFirst

-----------------------------------------------------------------------------
(***************************************************************************)
(* Sequences and types.                                                    *)
(***************************************************************************)
\* One more archive leaves the others as they are.
LEMMA AppendRow ==
  ASSUME NEW S, NEW s \in Seq(S), NEW e \in S
  PROVE  /\ Append(s, e) \in Seq(S) /\ Len(Append(s, e)) = Len(s) + 1
         /\ DOMAIN Append(s, e) = DOMAIN s \cup {Len(s) + 1}
         /\ Append(s, e)[Len(s) + 1] = e
         /\ \A i \in DOMAIN s : i # Len(s) + 1 /\ Append(s, e)[i] = s[i]
  OBVIOUS

\* Archives changed one by one are as many archives.
LEMMA MappedSeq ==
  ASSUME NEW S, NEW s \in Seq(S), NEW T, NEW f \in [DOMAIN s -> T]
  PROVE  f \in Seq(T) /\ Len(f) = Len(s) /\ DOMAIN f = DOMAIN s
  OBVIOUS

LEMMA Facts ==
  ASSUME RetentionTypeOK
  PROVE  /\ day \in Nat /\ runs \in Nat /\ Len(exports) \in Nat
         /\ PreviewNow \in PreviewOf /\ LostArchive \in Export
         /\ \A e \in DOMAIN exports : exports[e] \in Export
<1>1. Candidates \in SUBSET Specs
  BY DEF Candidates
<1>2. PreviewNow \in PreviewOf
  BY <1>1 DEF PreviewNow, PreviewOf, RetentionTypeOK
<1>3. LostArchive \in Export
  BY RetentionAssumption DEF LostArchive, Export, PreviewOf
<1>. QED  BY <1>2, <1>3, RetentionAssumption DEF RetentionTypeOK

\* What a step makes of the archives: it adds one that is being read, or
\* replaces some.  Once handed out, an archive keeps what it holds.
Follows(old, new) ==
  /\ new \in Export
  /\ old.phase = "handed" => /\ new.phase = "handed" /\ new.read = old.read
                             /\ new.preview = old.preview
  /\ new.phase = "handed" => old.phase = "handed" \/ new.read = new.preview.candidates

ExportsFollow ==
  /\ exports' \in Seq(Export) /\ Len(exports') <= MaxExports
  /\ DOMAIN exports \subseteq DOMAIN exports'
  /\ \A e \in DOMAIN exports : Follows(exports[e], exports'[e])
  /\ \A e \in DOMAIN exports' \ DOMAIN exports : exports'[e].phase = "reading"

LEMMA OneFollows ==
  ASSUME RetentionTypeOK, NEW e \in DOMAIN exports, NEW x, Follows(exports[e], x),
         exports' = [exports EXCEPT ![e] = x]
  PROVE  ExportsFollow
<1>1. \A f \in DOMAIN exports : exports'[f] = IF f = e THEN x ELSE exports[f]
  OBVIOUS
<1>2. \A f \in DOMAIN exports : Follows(exports[f], exports'[f])
  BY <1>1, Facts DEF Follows
<1>3. exports' \in [DOMAIN exports -> Export]
  BY <1>2 DEF Follows
<1>4. exports' \in Seq(Export) /\ Len(exports') = Len(exports) /\ DOMAIN exports' = DOMAIN exports
  BY <1>3, MappedSeq DEF RetentionTypeOK
<1>. QED  BY <1>2, <1>4 DEF ExportsFollow, RetentionTypeOK

LEMMA ExportsStep ==
  ASSUME RetentionTypeOK, [RetentionNext]_retentionVars
  PROVE  ExportsFollow
<1>1. CASE UNCHANGED exports
  BY <1>1, Facts DEF ExportsFollow, Follows, RetentionTypeOK
<1>2. ASSUME NEW o \in Officers, NEW n \in Servers, StartArchive(o, n)
      PROVE  ExportsFollow
  <2>. DEFINE x == [preview |-> PreviewNow, phase |-> "reading", keptBy |-> n, read |-> {}]
  <2>1. x \in Export /\ x.phase = "reading"
    BY Facts DEF Export
  <2>2. exports' = Append(exports, x) /\ Len(exports) < MaxExports
    BY <1>2 DEF StartArchive
  <2>. HIDE DEF x
  <2>3. /\ exports' \in Seq(Export) /\ Len(exports') = Len(exports) + 1
        /\ DOMAIN exports' = DOMAIN exports \cup {Len(exports) + 1}
        /\ exports'[Len(exports) + 1] = x
        /\ \A e \in DOMAIN exports : exports'[e] = exports[e]
    BY <2>1, <2>2, AppendRow DEF RetentionTypeOK
  <2>. QED  BY <2>1, <2>2, <2>3, Facts, RetentionAssumption DEF ExportsFollow, Follows
<1>3. ASSUME NEW e \in DOMAIN exports, ArchiveFails(e)
      PROVE  ExportsFollow
  <2>1. Follows(exports[e], LostArchive)
    BY <1>3, Facts DEF ArchiveFails, Reading, Follows, LostArchive
  <2>. QED  BY <1>3, <2>1, OneFollows DEF ArchiveFails
<1>4. ASSUME NEW e \in DOMAIN exports, HandOut(e)
      PROVE  ExportsFollow
  <2>1. Follows(exports[e], [exports[e] EXCEPT !.phase = "handed"])
    BY <1>4, Facts DEF HandOut, Reading, Follows, Export
  <2>. QED  BY <1>4, <2>1, OneFollows DEF HandOut
<1>5. ASSUME NEW e \in DOMAIN exports
      PROVE  Follows(exports[e], [exports[e] EXCEPT !.keptBy = NoServer]) \/ Reading(e)
  BY Facts DEF Reading, Follows, Export
<1>6. ASSUME NEW e \in DOMAIN exports, ConfirmationExpires(e)
      PROVE  ExportsFollow
  BY <1>5, <1>6, OneFollows DEF ConfirmationExpires, Reading
<1>7. ASSUME NEW e \in DOMAIN exports, NEW s \in Specs, ReadSpecification(e, s)
      PROVE  ExportsFollow
  <2>1. Follows(exports[e], LostArchive)
    BY <1>7, Facts DEF ReadSpecification, Reading, Follows, LostArchive
  <2>2. Follows(exports[e], [exports[e] EXCEPT !.read = exports[e].read \cup {s}])
    BY <1>7, Facts DEF ReadSpecification, Reading, Follows, Export
  <2>3. CASE specs[s].fate = "kept"
    <3>1. exports' = [exports EXCEPT ![e] = [exports[e] EXCEPT !.read = exports[e].read \cup {s}]]
      BY <1>7, <2>3 DEF ReadSpecification
    <3>. QED  BY <2>2, <3>1, OneFollows
  <2>4. CASE specs[s].fate # "kept"
    <3>1. exports' = [exports EXCEPT ![e] = LostArchive]
      BY <1>7, <2>4 DEF ReadSpecification
    <3>. QED  BY <2>1, <3>1, OneFollows
  <2>. QED  BY <2>3, <2>4
<1>8. ASSUME NEW o \in Officers, NEW commits \in BOOLEAN, Execute(o, commits)
      PROVE  ExportsFollow
  BY <1>1, <1>5, <1>8, OneFollows DEF Execute, Reading
<1>9. ASSUME NEW n \in Servers, ServerRestarts(n)
      PROVE  ExportsFollow
  <2>1. \A e \in DOMAIN exports : Follows(exports[e], exports'[e])
    <3>. SUFFICES ASSUME NEW e \in DOMAIN exports PROVE Follows(exports[e], exports'[e])
      OBVIOUS
    <3>1. Reading(e) => Follows(exports[e], LostArchive)
      BY Facts DEF Reading, Follows, LostArchive
    <3>2. Follows(exports[e], exports[e])
      BY Facts DEF Follows
    <3>. QED  BY <1>5, <1>9, <3>1, <3>2 DEF ServerRestarts
  <2>2. exports' \in [DOMAIN exports -> Export]
    BY <1>9, <2>1 DEF ServerRestarts, Follows
  <2>3. exports' \in Seq(Export) /\ Len(exports') = Len(exports) /\ DOMAIN exports' = DOMAIN exports
    BY <2>2, MappedSeq DEF RetentionTypeOK
  <2>. QED  BY <2>1, <2>3 DEF ExportsFollow, RetentionTypeOK
<1>. QED
  BY <1>1, <1>2, <1>3, <1>4, <1>6, <1>7, <1>8, <1>9
  DEF RetentionNext, retentionVars, Preview, EditContent, EditRecord, RemoveSpecification,
      Except, ExceptionEnds, Midnight

\* The actions that change a specification, a preview or the number of runs.
LEMMA WhoChanges ==
  ASSUME [RetentionNext]_retentionVars
  PROVE  \/ UNCHANGED <<specs, runs, shown>>
         \/ Midnight /\ UNCHANGED <<runs, shown>>
         \/ \E o \in Officers : Preview(o)
         \/ \E o \in Officers : Execute(o, TRUE)
         \/ \E s \in Specs : /\ EditContent(s) \/ EditRecord(s) \/ RemoveSpecification(s)
                             /\ UNCHANGED <<runs, shown>>
<1>1. CASE UNCHANGED retentionVars
  BY <1>1 DEF retentionVars
<1>2. ASSUME NEW o \in Officers, NEW commits \in BOOLEAN, Execute(o, commits)
      PROVE  UNCHANGED <<specs, runs, shown>> \/ Execute(o, TRUE)
  <2>1. CASE commits = TRUE
    BY <1>2, <2>1
  <2>2. CASE commits = FALSE
    BY <1>2, <2>2 DEF Execute
  <2>. QED  BY <2>1, <2>2
<1>3. ASSUME NEW o \in Officers, NEW n \in Servers, StartArchive(o, n)
      PROVE  UNCHANGED <<specs, runs, shown>>
  BY <1>3 DEF StartArchive
<1>4. ASSUME NEW e \in DOMAIN exports, NEW s \in Specs,
             ArchiveFails(e) \/ HandOut(e) \/ ConfirmationExpires(e) \/ ReadSpecification(e, s)
      PROVE  UNCHANGED <<specs, runs, shown>>
  BY <1>4 DEF ArchiveFails, HandOut, ConfirmationExpires, ReadSpecification
<1>6. ASSUME NEW e \in DOMAIN exports, ArchiveFails(e) \/ HandOut(e) \/ ConfirmationExpires(e)
      PROVE  UNCHANGED <<specs, runs, shown>>
  BY <1>6 DEF ArchiveFails, HandOut, ConfirmationExpires
<1>7. ASSUME NEW n \in Servers, ServerRestarts(n)
      PROVE  UNCHANGED <<specs, runs, shown>>
  BY <1>7 DEF ServerRestarts
<1>8. ASSUME NEW s \in Specs, Except(s) \/ ExceptionEnds(s)
      PROVE  UNCHANGED <<specs, runs, shown>>
  BY <1>8 DEF Except, ExceptionEnds
<1>9. \A s \in Specs : EditContent(s) \/ EditRecord(s) \/ RemoveSpecification(s)
                         => UNCHANGED <<runs, shown>>
  BY DEF EditContent, EditRecord, RemoveSpecification
<1>10. Midnight => UNCHANGED <<runs, shown>>
  BY DEF Midnight
<1>. QED
  BY <1>1, <1>2, <1>3, <1>4, <1>6, <1>7, <1>8, <1>9, <1>10 DEF RetentionNext

\* The rest of the types, and what a step may do to a specification.
LEMMA SpecsStep ==
  ASSUME RetentionTypeOK, [RetentionNext]_retentionVars
  PROVE  /\ specs' \in [Specs -> [fate : {"kept", "removed", "retired"}, old : BOOLEAN,
                                  inUse : BOOLEAN]]
         /\ \/ \E o \in Officers : Execute(o, TRUE)
            \/ \A s \in Specs : specs'[s].fate = "retired" <=> specs[s].fate = "retired"
<1>. DEFINE Row == [fate : {"kept", "removed", "retired"}, old : BOOLEAN, inUse : BOOLEAN]
<1>0. specs \in [Specs -> Row]
  BY DEF RetentionTypeOK
<1>1. CASE UNCHANGED specs
  BY <1>0, <1>1
<1>2. ASSUME NEW o \in Officers, Execute(o, TRUE)
      PROVE  specs' \in [Specs -> Row]
  BY <1>0, <1>2 DEF Execute
<1>3. ASSUME NEW s \in Specs, EditContent(s) \/ EditRecord(s) \/ RemoveSpecification(s)
      PROVE  /\ specs' \in [Specs -> Row]
             /\ \A t \in Specs : specs'[t].fate = "retired" <=> specs[t].fate = "retired"
  <2>1. \E row \in Row : /\ specs' = [specs EXCEPT ![s] = row]
                         /\ row.fate = "retired" <=> specs[s].fate = "retired"
    <3>1. CASE EditContent(s)
      <4>1. PICK b \in BOOLEAN : specs' = [specs EXCEPT ![s] = [specs[s] EXCEPT !.inUse = b]]
        BY <3>1 DEF EditContent
      <4>2. \A row \in Row : [row EXCEPT !.inUse = b] \in Row /\ [row EXCEPT !.inUse = b].fate = row.fate
        OBVIOUS
      <4>3. specs[s] \in Row
        BY <1>0
      <4>. QED  BY <4>1, <4>2, <4>3
    <3>2. CASE EditRecord(s)
      <4>1. PICK b \in BOOLEAN :
              specs' = [specs EXCEPT ![s] = [specs[s] EXCEPT !.old = FALSE, !.inUse = b]]
        BY <1>0, <3>2 DEF EditRecord
      <4>2. \A row \in Row : /\ [row EXCEPT !.old = FALSE, !.inUse = b] \in Row
                             /\ [row EXCEPT !.old = FALSE, !.inUse = b].fate = row.fate
        OBVIOUS
      <4>3. specs[s] \in Row
        BY <1>0
      <4>. QED  BY <4>1, <4>2, <4>3
    <3>3. CASE RemoveSpecification(s)
      <4>1. /\ specs' = [specs EXCEPT ![s] = [specs[s] EXCEPT !.fate = "removed"]]
            /\ specs[s].fate = "kept"
        BY <3>3 DEF RemoveSpecification
      <4>2. \A row \in Row : /\ [row EXCEPT !.fate = "removed"] \in Row
                             /\ [row EXCEPT !.fate = "removed"].fate = "removed"
        OBVIOUS
      <4>3. specs[s] \in Row
        BY <1>0
      <4>. QED  BY <4>1, <4>2, <4>3
    <3>. QED  BY <1>3, <3>1, <3>2, <3>3
  <2>. QED  BY <1>0, <2>1
<1>4. CASE Midnight
  <2>1. PICK aged \in SUBSET Specs :
          specs' = [s \in Specs |-> [specs[s] EXCEPT !.old = specs[s].old \/ s \in aged]]
    BY <1>4 DEF Midnight
  <2>2. ASSUME NEW s \in Specs
        PROVE  [specs[s] EXCEPT !.old = specs[s].old \/ s \in aged] \in Row
    <3>1. \A row \in Row : [row EXCEPT !.old = TRUE] \in Row
      OBVIOUS
    <3>2. CASE s \in aged
      BY <1>0, <3>1, <3>2
    <3>3. CASE s \notin aged
      <4>1. \A row \in Row : [row EXCEPT !.old = row.old \/ FALSE] = row
        OBVIOUS
      <4>. QED  BY <1>0, <3>3, <4>1
    <3>. QED  BY <3>2, <3>3
  <2>. QED  BY <1>0, <2>1, <2>2
<1>5. (\E o \in Officers : Preview(o)) => UNCHANGED specs
  BY DEF Preview
<1>6. Midnight => \A s \in Specs : specs'[s].fate = "retired" <=> specs[s].fate = "retired"
  BY <1>0 DEF Midnight
<1>. QED  BY <1>1, <1>2, <1>3, <1>4, <1>5, <1>6, WhoChanges

LEMMA HeldAndDay ==
  ASSUME RetentionTypeOK, [RetentionNext]_retentionVars
  PROVE  held' \in SUBSET Specs /\ day' \in 0 .. MaxDays
<1>. DEFINE Kept == UNCHANGED <<held, day>>
<1>1. UNCHANGED retentionVars => Kept
  BY DEF retentionVars
<1>2. \A o \in Officers : \A n \in Servers : Preview(o) \/ StartArchive(o, n) => Kept
  BY DEF Preview, StartArchive
<1>3. \A o \in Officers : \A commits \in BOOLEAN : Execute(o, commits) => Kept
  BY DEF Execute
<1>4. \A o \in Officers : Preview(o) => Kept
  BY DEF Preview
<1>5. \A e \in DOMAIN exports : ArchiveFails(e) \/ HandOut(e) \/ ConfirmationExpires(e) => Kept
  BY DEF ArchiveFails, HandOut, ConfirmationExpires
<1>6. \A e \in DOMAIN exports : \A s \in Specs : ReadSpecification(e, s) => Kept
  BY DEF ReadSpecification
<1>7. \A n \in Servers : ServerRestarts(n) => Kept
  BY DEF ServerRestarts
<1>8. \A s \in Specs : EditContent(s) \/ EditRecord(s) \/ RemoveSpecification(s) => Kept
  BY DEF EditContent, EditRecord, RemoveSpecification
<1>9. Kept \/ Midnight \/ \E s \in Specs : Except(s) \/ ExceptionEnds(s)
  BY <1>1, <1>2, <1>3, <1>4, <1>5, <1>6, <1>7, <1>8 DEF RetentionNext
<1>10. Midnight => held' = held /\ day' \in 0 .. MaxDays
  BY RetentionAssumption DEF Midnight, RetentionTypeOK
<1>11. \A s \in Specs : Except(s) \/ ExceptionEnds(s) => day' = day /\ held' \in SUBSET Specs
  BY DEF Except, ExceptionEnds, RetentionTypeOK
<1>. QED  BY <1>9, <1>10, <1>11 DEF RetentionTypeOK

LEMMA NextTypes == RetentionTypeOK /\ [RetentionNext]_retentionVars => RetentionTypeOK'
<1>. SUFFICES ASSUME RetentionTypeOK, [RetentionNext]_retentionVars PROVE RetentionTypeOK'
  OBVIOUS
<1>1. held' \in SUBSET Specs /\ day' \in 0 .. MaxDays
  BY HeldAndDay
<1>2. ASSUME NEW o \in Officers, NEW commits \in BOOLEAN, Execute(o, commits)
      PROVE  runs' \in 0 .. MaxRuns /\ UNCHANGED shown
  <2>1. runs' = runs \/ runs' = runs + 1
    BY <1>2 DEF Execute
  <2>2. runs < MaxRuns /\ UNCHANGED shown
    BY <1>2 DEF Execute
  <2>. QED  BY <2>1, <2>2, RetentionAssumption DEF RetentionTypeOK
<1>3. ASSUME NEW o \in Officers, Preview(o)
      PROVE  UNCHANGED runs /\ shown' \in [Officers -> PreviewOf]
  BY <1>3, Facts DEF Preview, RetentionTypeOK
<1>4. runs' \in 0 .. MaxRuns /\ shown' \in [Officers -> PreviewOf]
  BY <1>2, <1>3, WhoChanges DEF RetentionTypeOK
<1>. QED  BY <1>1, <1>4, ExportsStep, SpecsStep DEF ExportsFollow, RetentionTypeOK

-----------------------------------------------------------------------------
(***************************************************************************)
(* The theorems.                                                           *)
(***************************************************************************)
LEMMA InitIInv == RetentionInit => RetentionIInv
<1>. SUFFICES ASSUME RetentionInit PROVE RetentionIInv
  OBVIOUS
<1>1. 0 \in 0 .. MaxDays /\ 0 \in 0 .. MaxRuns /\ 0 <= MaxExports
  BY RetentionAssumption
<1>2. [candidates |-> {}, day |-> 0, runs |-> 0] \in PreviewOf
  BY <1>1 DEF PreviewOf
<1>3. specs \in [Specs -> [fate : {"kept", "removed", "retired"}, old : BOOLEAN, inUse : BOOLEAN]]
      /\ \A s \in Specs : specs[s].fate = "kept"
  BY DEF RetentionInit
<1>4. exports \in Seq(Export) /\ Len(exports) = 0 /\ DOMAIN exports = {}
  BY DEF RetentionInit
<1>5. shown \in [Officers -> PreviewOf] /\ held \in SUBSET Specs /\ day = 0 /\ runs = 0
  BY <1>2 DEF RetentionInit
<1>6. RetentionTypeOK
  BY <1>1, <1>3, <1>4, <1>5 DEF RetentionTypeOK
<1>. QED  BY <1>3, <1>4, <1>6 DEF RetentionInit, RetentionIInv, ArchivedFirst

\* A run that commits retires what the archive it was confirmed with holds.
LEMMA RunRetires ==
  ASSUME RetentionIInv, NEW o \in Officers, Execute(o, TRUE)
  PROVE  /\ shown[o].candidates = Candidates
         /\ \A s \in Specs : specs'[s].fate = "retired" /\ specs[s].fate # "retired"
                               <=> s \in Candidates
         /\ \A s \in Candidates :
              \E e \in DOMAIN exports : exports[e].phase = "handed" /\ s \in exports[e].read
<1>1. shown[o].candidates = Candidates
  BY DEF Execute, StillCurrent, PreviewNow
<1>2. \A s \in Specs : specs'[s].fate = "retired" /\ specs[s].fate # "retired"
                         <=> s \in Candidates
  BY DEF Execute, Candidates, Candidate, RetentionIInv, RetentionTypeOK
<1>3. ASSUME NEW s \in Candidates
      PROVE  \E e \in DOMAIN exports : exports[e].phase = "handed" /\ s \in exports[e].read
  <2>1. PICK e \in DOMAIN exports : exports[e].phase = "handed" /\ Confirmed(e)
    BY <1>3 DEF Execute
  <2>2. exports[e].read = Candidates
    BY <2>1 DEF Confirmed, Complete, RetentionIInv
  <2>. QED  BY <2>1, <2>2
<1>. QED  BY <1>1, <1>2, <1>3

LEMMA NextIInv == RetentionIInv /\ [RetentionNext]_retentionVars => RetentionIInv'
<1>. SUFFICES ASSUME RetentionIInv, [RetentionNext]_retentionVars PROVE RetentionIInv'
  OBVIOUS
<1>0. RetentionTypeOK /\ (\A e \in DOMAIN exports : Complete(e)) /\ ArchivedFirst
  BY DEF RetentionIInv
<1>1. ExportsFollow
  BY <1>0, ExportsStep
<1>2. ASSUME NEW e \in DOMAIN exports'
      PROVE  exports'[e].phase = "handed" => exports'[e].read = exports'[e].preview.candidates
  BY <1>0, <1>1 DEF ExportsFollow, Follows, Complete
<1>3. ASSUME NEW s \in Specs, specs'[s].fate = "retired"
      PROVE  \E e \in DOMAIN exports' : exports'[e].phase = "handed" /\ s \in exports'[e].read
  <2>1. \E e \in DOMAIN exports : exports[e].phase = "handed" /\ s \in exports[e].read
    BY <1>0, <1>3, SpecsStep, RunRetires DEF ArchivedFirst
  <2>. QED  BY <1>1, <2>1 DEF ExportsFollow, Follows
<1>. QED  BY <1>0, <1>2, <1>3, NextTypes DEF RetentionIInv, Complete, ArchivedFirst

LEMMA Invariance == RetentionSpec => []RetentionIInv
  BY InitIInv, NextIInv, PTL DEF RetentionSpec

\* Every reachable state is well typed (executeArchivingRetention and the archive
\* exports of retention.ts).
THEOREM RetentionTypeCorrect == RetentionSpec => []RetentionTypeOK
<1>1. RetentionIInv => RetentionTypeOK
  BY DEF RetentionIInv
<1>. QED  BY <1>1, Invariance, PTL

\* What a run deletes was in an archive that had been handed out: the
\* confirmation that executeArchivingRetention asks for is of the candidates it
\* finds, and an archive is handed out only when all of them have been read.
THEOREM NothingLostUnarchived == RetentionSpec => []ArchivedFirst
<1>1. RetentionIInv => ArchivedFirst
  BY DEF RetentionIInv
<1>. QED  BY <1>1, Invariance, PTL

\* A run deletes exactly what an officer was shown: its token is that of a
\* preview of the candidates there are now.
THEOREM RunIsWhatWasShown == RetentionSpec => RetiresWhatWasShown
<1>. DEFINE retired == {s \in Specs : specs[s].fate # "retired" /\ specs'[s].fate = "retired"}
            Shown == retired # {} => \E o \in Officers : shown[o].candidates = retired
<1>1. ASSUME RetentionIInv, [RetentionNext]_retentionVars
      PROVE  Shown
  <2>1. ASSUME NEW o \in Officers, Execute(o, TRUE)
        PROVE  Shown
    <3>1. shown[o].candidates = Candidates /\ Candidates \subseteq Specs
          /\ retired = Candidates
      BY <1>1, <2>1, RunRetires DEF Candidates
    <3>. QED  BY <3>1
  <2>2. CASE \A s \in Specs : specs'[s].fate = "retired" <=> specs[s].fate = "retired"
    BY <2>2
  <2>. QED  BY <1>1, <2>1, <2>2, SpecsStep DEF RetentionIInv
<1>2. RetentionIInv /\ [RetentionNext]_retentionVars => [Shown]_retentionVars
  BY <1>1
<1>. QED  BY <1>2, Invariance, PTL DEF RetentionSpec, RetiresWhatWasShown
=============================================================================
