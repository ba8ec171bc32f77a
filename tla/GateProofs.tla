----------------------------- MODULE GateProofs -----------------------------
(***************************************************************************)
(* What the commands check before they act is enough: no command stages a  *)
(* generation that the workbench's own verifier refuses, and a close       *)
(* publishes the whole draft.                                              *)
(*                                                                         *)
(* The verifier reads a journal record by record, and looks up by the last *)
(* position of a kind, so the proof needs to know what is where in the     *)
(* journal that a close stages: the old records, the opening, the sources  *)
(* by path, and two slots per other action, the evidence before the        *)
(* statement (StagedLayout, StagedPositions).  Each new record is then     *)
(* good because of what the draft validator, which every publication       *)
(* runs, said of its action.  The one circular case is a revision: what it *)
(* revises may be a revision of the same draft, so the proof takes the     *)
(* least position that is not good.                                        *)
(*                                                                         *)
(* That identifiers do not collide needs more than the validator checks:   *)
(* an id of the draft must differ from the draft's own, from the closing   *)
(* record's, and from what revisions cite.  The invariant Drawn says that  *)
(* every identifier is drawn with the prefix of what it names; then only   *)
(* ids of one kind can meet, and those the commands do compare.            *)
(***************************************************************************)
EXTENDS WorkbenchProofs

-----------------------------------------------------------------------------
(***************************************************************************)
(* Journals and their extensions.                                          *)
(***************************************************************************)
Extends(all, r) ==
  /\ IsSequence(all)
  /\ IsSequence(r)
  /\ Len(r) <= Len(all)
  /\ \A i \in 1 .. Len(r) : all[i] = r[i]

\* The records that bound a horizon.
Boundaries == { "HorizonOpened", "HorizonClosed" }

\* A journal extends itself.
LEMMA ExtendsItself ==
  ASSUME NEW r, IsSequence(r)
  PROVE  Extends(r, r)
  <1>1. Len(r) \in Nat
    BY SequenceFacts
  <1>2. QED
    BY <1>1 DEF Extends

\* A journal holds the records of those it extends, in their places.
LEMMA ExtendsFacts ==
  ASSUME NEW all, NEW r, Extends(all, r)
  PROVE  /\ Len(r) \in Nat /\ Len(all) \in Nat
         /\ DOMAIN r = 1 .. Len(r) /\ DOMAIN all = 1 .. Len(all)
         /\ Len(r) <= Len(all)
         /\ \A i \in 1 .. Len(r) : i \in 1 .. Len(all) /\ all[i] = r[i]
  <1>1. /\ Len(r) \in Nat /\ Len(all) \in Nat
        /\ DOMAIN r = 1 .. Len(r) /\ DOMAIN all = 1 .. Len(all)
    BY SequenceFacts DEF Extends
  <1>2. QED
    BY <1>1 DEF Extends

\* Up to a journal's end, its extensions have the same positions of a kind.
LEMMA EarlierPositions ==
  ASSUME NEW all, NEW r, Extends(all, r), NEW kind, NEW i \in 1 .. Len(r) + 1
  PROVE  /\ { j \in Positions(all, kind) : j < i }
              = { j \in Positions(r, kind) : j < i }
         /\ { j \in Positions(r, kind) : j < i } \in SUBSET (1 .. i - 1)
         /\ i - 1 \in Nat
  <1>1. /\ Len(r) \in Nat /\ Len(all) \in Nat
        /\ DOMAIN r = 1 .. Len(r) /\ DOMAIN all = 1 .. Len(all)
        /\ \A j \in 1 .. Len(r) : j \in 1 .. Len(all) /\ all[j] = r[j]
    BY ExtendsFacts
  <1>2. ASSUME NEW j \in Positions(all, kind), j < i
        PROVE  j \in Positions(r, kind)
    <2>1. j \in 1 .. Len(all) /\ all[j].kind = kind
      BY <1>1 DEF Positions
    <2>2. j \in 1 .. Len(r)
      BY <1>1, <1>2, <2>1
    <2>3. QED
      BY <1>1, <2>1, <2>2 DEF Positions
  <1>3. ASSUME NEW j \in Positions(r, kind)
        PROVE  j \in Positions(all, kind) /\ j \in 1 .. Len(r)
    BY <1>1 DEF Positions
  <1>4. ASSUME NEW j \in Positions(r, kind), j < i
        PROVE  j \in 1 .. i - 1
    BY <1>1, <1>3, <1>4
  <1>5. i - 1 \in Nat
    BY <1>1
  <1>6. QED
    BY <1>2, <1>3, <1>4, <1>5

\* So the horizon that is open there is the same.
LEMMA SameOpening ==
  ASSUME NEW all, NEW r, Extends(all, r), NEW i \in 1 .. Len(r) + 1
  PROVE  OpeningAt(all, i) = OpeningAt(r, i)
  <1>1. ASSUME NEW kind
        PROVE  LastBefore(all, kind, i) = LastBefore(r, kind, i)
    <2>1. { j \in Positions(all, kind) : j < i } = { j \in Positions(r, kind) : j < i }
      BY EarlierPositions
    <2>2. QED
      BY <2>1 DEF LastBefore
  <1>2. QED
    BY <1>1 DEF OpeningAt

\* What is open at record i was opened by the last boundary before it.
LEMMA OpeningIsLast ==
  ASSUME NEW r, IsSequence(r), NEW i \in 1 .. Len(r) + 1
  PROVE  LET o == OpeningAt(r, i)
         IN  /\ o \in 0 .. i - 1
             /\ o # 0 => /\ o \in 1 .. Len(r)
                         /\ r[o].kind = "HorizonOpened"
                         /\ \A j \in (o + 1) .. (i - 1) : r[j].kind \notin Boundaries
             /\ o = 0 => \A j \in 1 .. i - 1 : r[j].kind = "HorizonOpened" =>
                            \E c \in (j + 1) .. (i - 1) : r[c].kind = "HorizonClosed"
  <1> DEFINE A == { j \in Positions(r, "HorizonOpened") : j < i }
             B == { j \in Positions(r, "HorizonClosed") : j < i }
             a == LastOf(A)
             b == LastOf(B)
             o == OpeningAt(r, i)
  <1>1. Len(r) \in Nat /\ DOMAIN r = 1 .. Len(r) /\ i - 1 \in Nat
    BY SequenceFacts
  <1>2. A \in SUBSET (1 .. i - 1) /\ B \in SUBSET (1 .. i - 1)
    BY ExtendsItself, EarlierPositions
  <1>3. o = IF b > a THEN 0 ELSE a
    BY DEF OpeningAt, LastBefore
  <1>4. \A j \in 1 .. i - 1 :
           /\ j \in 1 .. Len(r)
           /\ r[j].kind = "HorizonOpened" <=> j \in A
           /\ r[j].kind = "HorizonClosed" <=> j \in B
    BY <1>1 DEF Positions
  <1> HIDE DEF A, B, o
  <1>5. /\ a \in 0 .. i - 1
        /\ A = {} => a = 0
        /\ A # {} => a \in A /\ a # 0
        /\ \A x \in A : x <= a
    BY <1>1, <1>2, LastOfPositions
  <1>6. /\ b \in 0 .. i - 1
        /\ B = {} => b = 0
        /\ B # {} => b \in B /\ b # 0
        /\ \A x \in B : x <= b
    BY <1>1, <1>2, LastOfPositions
  <1> HIDE DEF a, b
  <1>7. a # b \/ a = 0
    <2>1. ASSUME a = b, a # 0 PROVE FALSE
      <3>1. a \in A /\ a \in B /\ a \in 1 .. i - 1
        BY <1>2, <1>5, <1>6, <2>1
      <3>2. QED
        BY <1>4, <3>1
    <2>2. QED
      BY <2>1
  <1>8. o \in 0 .. i - 1
    BY <1>1, <1>3, <1>5
  <1>9. ASSUME o # 0
        PROVE  /\ o \in 1 .. Len(r)
               /\ r[o].kind = "HorizonOpened"
               /\ \A j \in (o + 1) .. (i - 1) : r[j].kind \notin Boundaries
    <2>1. o = a /\ a # 0 /\ ~ (b > a)
      BY <1>3, <1>9
    <2>2. a \in A /\ a \in 1 .. i - 1
      BY <1>2, <1>5, <2>1
    <2>3. ASSUME NEW j \in (o + 1) .. (i - 1)
          PROVE  r[j].kind \notin Boundaries
      <3>1. j \in 1 .. i - 1 /\ a < j /\ b < j
        BY <1>1, <1>5, <1>6, <2>1, <2>2
      <3>2. j \notin A /\ j \notin B
        BY <1>1, <1>5, <1>6, <3>1
      <3>3. QED
        BY <1>4, <3>1, <3>2 DEF Boundaries
    <2>4. QED
      BY <1>4, <2>1, <2>2, <2>3
  <1>10. ASSUME o = 0, NEW j \in 1 .. i - 1, r[j].kind = "HorizonOpened"
         PROVE  \E c \in (j + 1) .. (i - 1) : r[c].kind = "HorizonClosed"
    <2>1. j \in A /\ j <= a
      BY <1>4, <1>5, <1>10
    <2>2. b > a
      BY <1>1, <1>3, <1>5, <1>10, <2>1
    <2>3. b \in B /\ b \in 1 .. i - 1
      BY <1>2, <1>5, <1>6, <2>2
    <2>4. b \in (j + 1) .. (i - 1)
      BY <1>1, <1>5, <2>1, <2>2, <2>3
    <2>5. QED
      BY <1>4, <2>3, <2>4
  <1>11. QED
    BY <1>8, <1>9, <1>10 DEF o

\* Where nothing is open, whatever was opened before was closed again.
LEMMA NothingOpenIsClosed ==
  ASSUME NEW r, IsSequence(r), NEW i \in 1 .. Len(r) + 1, OpeningAt(r, i) = 0,
         NEW j \in 1 .. i - 1, r[j].kind = "HorizonOpened"
  PROVE  \E c \in (j + 1) .. (i - 1) : r[c].kind = "HorizonClosed"
  BY OpeningIsLast

\* The opening of a record is the last boundary before it, when that is one.
LEMMA OpeningIs ==
  ASSUME NEW r, IsSequence(r), NEW i \in 1 .. Len(r) + 1, NEW o \in 1 .. i - 1,
         r[o].kind = "HorizonOpened",
         \A j \in (o + 1) .. (i - 1) : r[j].kind \notin Boundaries
  PROVE  OpeningAt(r, i) = o
  <1> DEFINE p == OpeningAt(r, i)
  <1>1. Len(r) \in Nat
    BY SequenceFacts
  <1>2. /\ p \in 0 .. i - 1
        /\ p # 0 => /\ r[p].kind = "HorizonOpened"
                    /\ \A j \in (p + 1) .. (i - 1) : r[j].kind \notin Boundaries
        /\ p = 0 => \A j \in 1 .. i - 1 : r[j].kind = "HorizonOpened" =>
                      \E c \in (j + 1) .. (i - 1) : r[c].kind = "HorizonClosed"
    BY OpeningIsLast
  <1> HIDE DEF p
  <1>3. p # 0
    <2>1. ASSUME p = 0 PROVE FALSE
      <3>1. PICK c \in (o + 1) .. (i - 1) : r[c].kind = "HorizonClosed"
        BY <1>2, <2>1
      <3>2. QED
        BY <3>1 DEF Boundaries
    <2>2. QED
      BY <2>1
  <1>4. ~ (p < o)
    <2>1. ASSUME p < o PROVE FALSE
      <3>1. o \in (p + 1) .. (i - 1)
        BY <1>1, <1>2, <2>1
      <3>2. QED
        BY <1>2, <1>3, <3>1 DEF Boundaries
    <2>2. QED
      BY <2>1
  <1>5. ~ (o < p)
    <2>1. ASSUME o < p PROVE FALSE
      <3>1. p \in (o + 1) .. (i - 1)
        BY <1>1, <1>2, <2>1
      <3>2. QED
        BY <1>2, <1>3, <3>1 DEF Boundaries
    <2>2. QED
      BY <2>1
  <1>6. p = o
    BY <1>1, <1>2, <1>4, <1>5
  <1>7. QED
    BY <1>6 DEF p

\* The identifiers of an initial segment.
LEMMA IdsOfSegment ==
  ASSUME NEW r, IsSequence(r), NEW n \in 0 .. Len(r), NEW x
  PROVE  x \in JournalIds(SubSeq(r, 1, n)) <=>
           \E j \in 1 .. n : \/ x = r[j].id
                             \/ r[j].kind = "AssertionRevision" /\ x = r[j].assertion
  <1> DEFINE s == SubSeq(r, 1, n)
             T == Range(r)
  <1>1. Len(r) \in Nat /\ DOMAIN r = 1 .. Len(r) /\ r \in Seq(T)
    BY SequenceFacts DEF IsSequence
  <1> HIDE DEF T
  <1>2. \A i \in 1 .. n : r[i] \in T
    BY <1>1, ElementOfSeq
  <1>3. /\ s \in Seq(T)
        /\ Len(s) = n
        /\ \A i \in 1 .. n : s[i] = r[i]
    BY <1>1, <1>2, SubSeqProperties
  <1>4. DOMAIN s = 1 .. n
    BY <1>1, <1>3, LenProperties
  <1> HIDE DEF s
  <1>5. JournalIds(s) = { s[j].id : j \in 1 .. n }
           \cup { s[j].assertion : j \in { k \in 1 .. n : s[k].kind = "AssertionRevision" } }
    BY <1>4 DEF JournalIds, Positions
  <1>6. x \in JournalIds(s) <=>
           \E j \in 1 .. n : \/ x = s[j].id
                             \/ s[j].kind = "AssertionRevision" /\ x = s[j].assertion
    BY <1>5
  <1>7. QED
    BY <1>3, <1>6 DEF s

\* An extension has the identifiers of what it extends.
LEMMA IdsOfJournal ==
  ASSUME NEW r, IsSequence(r), NEW x
  PROVE  x \in JournalIds(r) <=>
           \E j \in 1 .. Len(r) : \/ x = r[j].id
                                  \/ r[j].kind = "AssertionRevision" /\ x = r[j].assertion
  <1>1. DOMAIN r = 1 .. Len(r)
    BY SequenceFacts
  <1>2. JournalIds(r) = { r[j].id : j \in 1 .. Len(r) }
           \cup { r[j].assertion : j \in { k \in 1 .. Len(r) : r[k].kind = "AssertionRevision" } }
    BY <1>1 DEF JournalIds, Positions
  <1>3. QED
    BY <1>2

\* Whether a record is good depends on the journal up to it only.
LEMMA GoodRecordExtends ==
  ASSUME NEW all, NEW r, Extends(all, r), NEW i \in 1 .. Len(r), GoodRecord(r, i)
  PROVE  GoodRecord(all, i)
  <1> DEFINE o == OpeningAt(r, i)
             kind == r[i].kind
  <1>1. /\ Len(r) \in Nat /\ Len(all) \in Nat
        /\ DOMAIN r = 1 .. Len(r) /\ DOMAIN all = 1 .. Len(all)
        /\ Len(r) <= Len(all)
        /\ \A j \in 1 .. Len(r) : j \in 1 .. Len(all) /\ all[j] = r[j]
    BY ExtendsFacts
  <1>2. all[i] = r[i] /\ i \in 1 .. Len(r) + 1 /\ i \in Int
    BY <1>1
  <1>3. OpeningAt(all, i) = o
    BY <1>2, SameOpening
  <1>4. o \in 0 .. i - 1 /\ (o # 0 => o \in 1 .. Len(r) /\ all[o] = r[o])
    BY <1>1, <1>2, OpeningIsLast DEF Extends
  <1>5. ASSUME NEW k
        PROVE  \A j : j \in Positions(all, k) /\ j < i <=> j \in Positions(r, k) /\ j < i
    BY <1>2, EarlierPositions
  <1>6. ASSUME NEW k, NEW j \in Positions(r, k)
        PROVE  j \in 1 .. Len(r) /\ all[j] = r[j]
    BY <1>1 DEF Positions
  <1>7. InOpenHorizon(all, i) <=> InOpenHorizon(r, i)
    BY <1>2, <1>3, <1>4 DEF InOpenHorizon
  <1>8. FollowsItsEvidence(all, i) <=> FollowsItsEvidence(r, i)
    <2>1. i > 1 => i - 1 \in 1 .. Len(r)
      BY <1>1
    <2>2. i > 1 => all[i - 1] = r[i - 1]
      BY <1>1, <2>1
    <2>3. QED
      BY <1>2, <2>2 DEF FollowsItsEvidence
  <1>9. GoodOpening(r, i) => GoodOpening(all, i)
    BY <1>2, <1>3, <1>5, <1>6 DEF GoodOpening
  <1>10. GoodSource(r, i) => GoodSource(all, i)
    <2> HIDE DEF o
    <2>1. \A j \in (o + 1) .. (i - 1) : all[j] = r[j]
      <3>1. \A j \in (o + 1) .. (i - 1) : j \in 1 .. Len(r)
        BY <1>1, <1>4
      <3>2. QED
        BY <1>1, <3>1
    <2>2. QED
      BY <1>2, <1>3, <1>5, <1>6, <1>7, <2>1 DEF GoodSource, o
  <1>11. GoodEvidence(r, i) => GoodEvidence(all, i)
    <2>1. SUFFICES ASSUME GoodEvidence(r, i) PROVE GoodEvidence(all, i)
      OBVIOUS
    <2> HIDE DEF o
    <2>2. PICK j \in Positions(r, "SourceSnapshot") :
             /\ o # 0
             /\ j < i
             /\ r[j].id = r[i].source
             /\ r[j].horizon = r[o].id
      BY <2>1 DEF GoodEvidence, o
    <2>3. j \in Positions(all, "SourceSnapshot") /\ all[j] = r[j]
      BY <1>5, <1>6, <2>2
    <2>4. QED
      BY <1>2, <1>3, <1>4, <2>2, <2>3 DEF GoodEvidence
  <1>12. GoodRevision(r, i) => GoodRevision(all, i)
    <2>1. SUFFICES ASSUME GoodRevision(r, i) PROVE GoodRevision(all, i)
      OBVIOUS
    <2>2. EarlierRevisions(all, i) = EarlierRevisions(r, i)
      BY <1>2, <1>5, <1>6 DEF EarlierRevisions
    <2> DEFINE c == LastOf(EarlierRevisions(r, i))
    <2>3. /\ c \in 0 .. Len(r)
          /\ c # 0 => all[c] = r[c]
      <3>1. EarlierRevisions(r, i) \in SUBSET (1 .. Len(r))
        BY <1>1 DEF EarlierRevisions, Positions
      <3>2. c \in 0 .. Len(r)
        BY <1>1, <3>1, LastOfPositions
      <3> HIDE DEF c
      <3>3. c # 0 => c \in 1 .. Len(r)
        BY <1>1, <3>2
      <3>4. QED
        BY <1>1, <3>2, <3>3
    <2>4. \A j \in 1 .. i : all[j] = r[j]
      BY <1>1
    <2>5. c = 0 => \A j \in Positions(all, "AssertionRevision") :
                     j < i => all[j].alias # all[i].alias
      BY <1>2, <1>5, <1>6, <2>1 DEF GoodRevision
    <2>6. c = 0 => /\ all[i].predecessor = None
                   /\ \A j \in 1 .. i : all[j].id # all[i].assertion
      BY <1>2, <2>1, <2>4 DEF GoodRevision
    <2>7. c # 0 => /\ all[i].predecessor = all[c].id
                   /\ all[i].alias = all[c].alias
      BY <1>2, <2>1, <2>3 DEF GoodRevision
    <2>8. InOpenHorizon(all, i) /\ FollowsItsEvidence(all, i)
      BY <1>7, <1>8, <2>1 DEF GoodRevision
    <2>9. c = LastOf(EarlierRevisions(all, i))
      BY <2>2
    <2> HIDE DEF c
    <2>10. QED
      BY <2>5, <2>6, <2>7, <2>8, <2>9 DEF GoodRevision
  <1>13. GoodQuestion(r, i) => GoodQuestion(all, i)
    BY <1>2, <1>5, <1>6, <1>7, <1>8 DEF GoodQuestion
  <1>14. GoodClosing(r, i) => GoodClosing(all, i)
    <2>1. SUFFICES ASSUME GoodClosing(r, i) PROVE GoodClosing(all, i)
      OBVIOUS
    <2>2. o # 0
      BY <2>1 DEF GoodClosing, InOpenHorizon
    <2> HIDE DEF o
    <2>3. PICK j \in Positions(r, "SourceSnapshot") : o < j /\ j < i
      BY <2>1 DEF GoodClosing, o
    <2>4. j \in Positions(all, "SourceSnapshot")
      BY <1>5, <2>3
    <2>5. all[i].name = all[o].name
      BY <1>2, <1>4, <2>1, <2>2 DEF GoodClosing, o
    <2>6. QED
      BY <1>3, <1>7, <2>1, <2>3, <2>4, <2>5 DEF GoodClosing
  <1>15. JournalIds(SubSeq(all, 1, i - 1)) = JournalIds(SubSeq(r, 1, i - 1))
    <2>1. i - 1 \in 0 .. Len(r) /\ Len(r) <= Len(all)
      BY <1>1
    <2>2. SubSeq(r, 1, i - 1) = SubSeq(all, 1, i - 1)
      BY <2>1, SubSeqOfExtension DEF Extends
    <2>3. QED
      BY <2>2
  <1> HIDE DEF o
  <1>16. QED
    BY <1>2, <1>9, <1>10, <1>11, <1>12, <1>13, <1>14, <1>15 DEF GoodRecord

\* Among revisions that are good, one alias is one assertion.
LEMMA AliasesNameAssertions ==
  ASSUME NEW r, IsSequence(r), NEW p \in 1 .. Len(r) + 1,
         \A i \in Positions(r, "AssertionRevision") : i < p => GoodRevision(r, i),
         NEW i \in Positions(r, "AssertionRevision"),
         NEW j \in Positions(r, "AssertionRevision"), i < p, j < p
  PROVE  r[i].alias = r[j].alias <=> r[i].assertion = r[j].assertion
  <1> DEFINE R == { k \in Positions(r, "AssertionRevision") : k < p }
             Same(k, l) == r[k].alias = r[l].alias <=> r[k].assertion = r[l].assertion
             Bad == { l \in R : \E k \in R : k < l /\ ~ Same(k, l) }
  <1>1. Len(r) \in Nat /\ DOMAIN r = 1 .. Len(r)
    BY SequenceFacts
  <1>2. R \in SUBSET (1 .. Len(r)) /\ \A k \in R : k \in Nat
    BY <1>1 DEF Positions
  <1>3. Bad = {}
    <2>1. SUFFICES ASSUME Bad # {} PROVE FALSE
      OBVIOUS
    <2>2. Bad \in SUBSET Nat
      BY <1>2
    <2>3. PICK l \in Bad : \A m \in Bad : l <= m
      <3> HIDE DEF Bad
      <3>1. QED
        BY <2>1, <2>2, LeastNumber
    <2>4. PICK k \in R : k < l /\ ~ Same(k, l)
      OBVIOUS
    <2> DEFINE E == EarlierRevisions(r, l)
               c == LastOf(E)
    <2>5. l \in R /\ GoodRevision(r, l) /\ l \in Nat /\ k \in Nat
      BY <1>2
    <2>6. E = { m \in R : m < l /\ r[m].assertion = r[l].assertion }
      <3>1. \A m \in Positions(r, "AssertionRevision") : m < l => m \in R
        BY <1>1, <2>5 DEF Positions
      <3>2. QED
        BY <3>1 DEF EarlierRevisions
    <2>7. E \in SUBSET (1 .. Len(r))
      BY <1>2, <2>6
    <2>8. /\ c \in 0 .. Len(r)
          /\ E = {} => c = 0
          /\ E # {} => c \in E /\ c # 0
          /\ \A x \in E : x <= c
      BY <1>1, <2>7, LastOfPositions
    <2>9. CASE c = 0
      <3>1. E = {}
        BY <2>8, <2>9
      <3>2. r[k].assertion # r[l].assertion
        BY <2>4, <2>6, <3>1
      <3>3. r[k].alias # r[l].alias
        BY <2>4, <2>5, <2>9 DEF GoodRevision
      <3>4. QED
        BY <2>4, <3>2, <3>3
    <2>10. CASE c # 0
      <3>1. c \in E
        BY <2>8, <2>10
      <3>2. r[l].alias = r[c].alias
        BY <2>5, <2>10 DEF GoodRevision
      <3>3. c \in R /\ c < l /\ r[c].assertion = r[l].assertion
        BY <2>6, <3>1
      <3> HIDE DEF c, E
      <3>4. Same(k, c)
        <4>1. CASE k = c
          BY <4>1
        <4>2. CASE k < c
          <5>1. ~ Same(k, c) => c \in Bad
            BY <3>3, <4>2
          <5>2. c \in Nat /\ ~ (l <= c)
            BY <1>2, <2>5, <3>3
          <5>3. QED
            BY <2>3, <5>1, <5>2
        <4>3. CASE c < k
          <5>1. ~ Same(c, k) => k \in Bad
            BY <3>3, <4>3
          <5>2. ~ (l <= k)
            BY <2>4, <2>5
          <5>3. Same(c, k)
            BY <2>3, <5>1, <5>2
          <5>4. QED
            BY <5>3
        <4>4. QED
          BY <1>2, <2>5, <3>3, <4>1, <4>2, <4>3
      <3>5. QED
        BY <2>4, <3>2, <3>3, <3>4
    <2>11. QED
      BY <2>9, <2>10
  <1>4. i \in R /\ j \in R
    OBVIOUS
  <1>5. i \in Nat /\ j \in Nat
    BY <1>2, <1>4
  <1> HIDE DEF R
  <1>6. CASE i < j
    <2>1. j \notin Bad
      BY <1>3
    <2>2. QED
      BY <1>4, <1>6, <2>1
  <1>7. CASE j < i
    <2>1. i \notin Bad
      BY <1>3
    <2>2. Same(j, i)
      BY <1>4, <1>7, <2>1
    <2>3. QED
      BY <2>2
  <1>8. CASE i = j
    BY <1>8
  <1>9. QED
    BY <1>5, <1>6, <1>7, <1>8

\* In a verified journal every opened horizon is closed, under its name.
LEMMA OpenedNamesAreClosed ==
  ASSUME NEW g, Sound(g), Verified(g), NEW j \in Positions(g.records, "HorizonOpened")
  PROVE  g.records[j].name \in ClosedNames(g.horizons)
  <1> DEFINE r == g.records
             N == Len(r)
             C == { c \in Positions(r, "HorizonClosed") : j < c }
  <1>1. IsSequence(r) /\ N \in Nat /\ DOMAIN r = 1 .. N
    BY SequenceFacts DEF Sound
  <1>2. /\ \A i \in DOMAIN r : GoodRecord(r, i)
        /\ OpeningAt(r, N + 1) = 0
        /\ \A i \in Positions(r, "HorizonClosed") :
              \E k \in DOMAIN g.horizons : g.horizons[k].end = i
        /\ \A k \in DOMAIN g.horizons :
              g.horizons[k] = HorizonItem(r, g.horizons[k].end)
    BY DEF Verified, VerifyCanonical, VerifiedRecords, HorizonsAgree
  <1>3. j \in 1 .. N /\ r[j].kind = "HorizonOpened" /\ g.records[j] = r[j]
    BY <1>1 DEF Positions
  <1> HIDE DEF r
  <1>4. C \in SUBSET Nat
    BY <1>1 DEF Positions
  <1>5. C # {}
    <2>1. N + 1 \in 1 .. N + 1 /\ (N + 1) - 1 = N
      BY <1>1
    <2>2. j \in 1 .. (N + 1) - 1
      BY <1>3, <2>1
    <2>3. \E c \in (j + 1) .. (N + 1) - 1 : r[c].kind = "HorizonClosed"
      BY <1>1, <1>2, <1>3, <2>1, <2>2, OpeningIsLast
    <2>4. PICK c \in (j + 1) .. N : r[c].kind = "HorizonClosed"
      BY <2>1, <2>3
    <2>5. c \in DOMAIN r /\ j < c
      BY <1>1, <1>3, <2>4
    <2>6. QED
      BY <2>4, <2>5 DEF Positions
  <1>6. PICK c \in C : \A d \in C : c <= d
    <2> HIDE DEF C
    <2>1. QED
      BY <1>4, <1>5, LeastNumber
  <1>7. c \in 1 .. N /\ r[c].kind = "HorizonClosed" /\ j < c /\ c \in Nat
    BY <1>1 DEF Positions
  <1> DEFINE o == OpeningAt(r, c)
  <1>8. o # 0 /\ r[c].name = r[o].name
    BY <1>1, <1>2, <1>7 DEF GoodRecord, GoodClosing, InOpenHorizon
  <1>9. /\ o \in 0 .. c - 1
        /\ o \in 1 .. N
        /\ r[o].kind = "HorizonOpened"
        /\ \A i \in (o + 1) .. (c - 1) : r[i].kind \notin Boundaries
    BY <1>1, <1>7, <1>8, OpeningIsLast
  <1> HIDE DEF o
  <1>10. ~ (o < j)
    <2>1. o < j => j \in (o + 1) .. (c - 1)
      BY <1>3, <1>7, <1>9
    <2>2. QED
      BY <1>3, <1>9, <2>1 DEF Boundaries
  <1>11. ~ (j < o)
    <2>1. SUFFICES ASSUME j < o PROVE FALSE
      OBVIOUS
    <2>2. OpeningAt(r, o) = 0
      BY <1>1, <1>2, <1>9 DEF GoodRecord, GoodOpening
    <2>3. j \in 1 .. o - 1 /\ o \in 1 .. N + 1
      BY <1>3, <1>9, <2>1
    <2>4. r[j].kind = "HorizonOpened"
      BY <1>3
    <2>5. PICK d \in (j + 1) .. (o - 1) : r[d].kind = "HorizonClosed"
      BY <1>1, <2>2, <2>3, <2>4, NothingOpenIsClosed
    <2>6. d \in DOMAIN r /\ j < d /\ d < c /\ d \in Nat
      BY <1>1, <1>3, <1>7, <1>9, <2>5
    <2>7. d \in C
      BY <2>5, <2>6 DEF Positions
    <2>8. QED
      BY <1>6, <1>7, <2>6, <2>7
  <1>12. o = j
    BY <1>3, <1>9, <1>10, <1>11
  <1>13. PICK k \in DOMAIN g.horizons : g.horizons[k].end = c
    BY <1>2
  <1>14. g.horizons[k].name = r[j].name
    <2>1. g.horizons[k] = HorizonItem(r, c)
      BY <1>2, <1>13
    <2>2. HorizonItem(r, c).name = r[c].name
      BY DEF HorizonItem
    <2>3. QED
      BY <1>8, <1>12, <2>1, <2>2
  <1>15. QED
    BY <1>3, <1>14 DEF ClosedNames

-----------------------------------------------------------------------------
(***************************************************************************)
(* Every identifier has the prefix of what it names, and the draft's own   *)
(* is not in the journal.                                                  *)
(***************************************************************************)
PrefixOf ==
  [ WorkspaceInitialized |-> "wrk", HorizonOpened |-> "hor",
    SourceSnapshot |-> "src", EvidenceSpan |-> "evd",
    AssertionRevision |-> "rev", QuestionOpened |-> "qst",
    HorizonClosed |-> "cls" ]

IdsWith(prefix) == { <<prefix, n>> : n \in Serials }

DrawnRecord(r) ==
  /\ r.kind \in DOMAIN PrefixOf
  /\ r.kind # "WorkspaceInitialized" => r.id \in IdsWith(PrefixOf[r.kind])
  /\ r.kind = "AssertionRevision" => r.assertion \in IdsWith("ast")

DrawnAction(a) ==
  \/ a.kind = "source" /\ a.id \in IdsWith("src")
  \/ /\ a.kind \in { "assertion-add", "assertion-revise" }
     /\ a.id \in IdsWith("rev")
     /\ a.span \in IdsWith("evd")
     /\ a.assertion \in IdsWith("ast")
     /\ a.kind = "assertion-revise" => a.predecessor \in IdsWith("rev")
  \/ /\ a.kind = "question"
     /\ a.id \in IdsWith("qst")
     /\ a.span \in IdsWith("evd") \cup { None }

Drawn(g) ==
  /\ \A i \in DOMAIN g.records : DrawnRecord(g.records[i])
  /\ g.draft # NoDraft =>
       /\ g.draft.id \in IdsWith("hor") \ JournalIds(g.records)
       /\ \A i \in DOMAIN g.draft.actions : DrawnAction(g.draft.actions[i])

\* Drawn identifiers are identifiers, and not null.
LEMMA IdsAreIds ==
  ASSUME NEW prefix \in Prefixes3, NEW x \in IdsWith(prefix)
  PROVE  x \in Ids /\ x # None
  <1>1. x \in Ids
    BY DEF IdsWith, Ids
  <1>2. QED
    BY <1>1, NoneAssumption

\* Identifiers of different kinds differ.
LEMMA PrefixesDiffer ==
  ASSUME NEW p, NEW q, p # q, NEW x \in IdsWith(p), NEW y \in IdsWith(q)
  PROVE  x # y
  BY DEF IdsWith

-----------------------------------------------------------------------------
(***************************************************************************)
(* What the validity of a draft's actions says about pairs of them.        *)
(***************************************************************************)
Ready(g) == Sound(g) /\ Verified(g) /\ g.draft # NoDraft

\* The journal and the draft of such a generation, by position.
LEMMA ReadyFacts ==
  ASSUME NEW g, Ready(g)
  PROVE  /\ IsSequence(g.records)
         /\ DOMAIN g.records = 1 .. Len(g.records)
         /\ Len(g.records) \in Nat
         /\ IsSequence(g.draft.actions)
         /\ DOMAIN g.draft.actions = 1 .. Len(g.draft.actions)
         /\ Len(g.draft.actions) \in Nat
         /\ \A i \in 1 .. Len(g.draft.actions) :
               /\ ValidAction(g.records, g.draft.actions, i)
               /\ SoundAction(g.draft.actions[i])
         /\ \A i \in 1 .. Len(g.records) : GoodRecord(g.records, i)
  <1>1. IsSequence(g.records) /\ IsSequence(g.draft.actions)
    BY DEF Ready, Sound, SoundDraft
  <1>2. /\ DOMAIN g.records = 1 .. Len(g.records)
        /\ Len(g.records) \in Nat
        /\ DOMAIN g.draft.actions = 1 .. Len(g.draft.actions)
        /\ Len(g.draft.actions) \in Nat
    BY <1>1, SequenceFacts
  <1>3. \A i \in DOMAIN g.draft.actions : ValidAction(g.records, g.draft.actions, i)
    BY DEF Ready, Verified, ValidDraft
  <1>4. \A i \in DOMAIN g.records : GoodRecord(g.records, i)
    BY DEF Ready, Verified, VerifyCanonical, VerifiedRecords
  <1>5. \A i \in DOMAIN g.draft.actions : SoundAction(g.draft.actions[i])
    BY DEF Ready, Sound, SoundDraft
  <1>6. QED
    BY <1>1, <1>2, <1>3, <1>4, <1>5

\* The same of its identifiers.
LEMMA DrawnFacts ==
  ASSUME NEW g, Ready(g), Drawn(g)
  PROVE  /\ \A i \in 1 .. Len(g.draft.actions) : DrawnAction(g.draft.actions[i])
         /\ \A i \in 1 .. Len(g.records) : DrawnRecord(g.records[i])
         /\ g.draft.id \in IdsWith("hor") \ JournalIds(g.records)
  <1>1. /\ DOMAIN g.records = 1 .. Len(g.records)
        /\ DOMAIN g.draft.actions = 1 .. Len(g.draft.actions)
    BY ReadyFacts
  <1>2. QED
    BY <1>1 DEF Ready, Drawn

\* The actions before the j-th, as a sequence and as a set.
LEMMA ActionsBefore ==
  ASSUME NEW a, IsSequence(a), NEW j \in 1 .. Len(a)
  PROVE  /\ ToSet(SubSeq(a, 1, j - 1)) = { a[i] : i \in 1 .. j - 1 }
         /\ DOMAIN SubSeq(a, 1, j - 1) = 1 .. j - 1
         /\ \A i \in 1 .. j - 1 : SubSeq(a, 1, j - 1)[i] = a[i] /\ i \in 1 .. Len(a)
         /\ j - 1 \in Nat
  <1> DEFINE T == Range(a)
             n == j - 1
             s == SubSeq(a, 1, n)
  <1>1. Len(a) \in Nat /\ a \in Seq(T)
    BY SequenceFacts DEF IsSequence
  <1>2. n \in Nat /\ \A i \in 1 .. n : i \in 1 .. Len(a)
    BY <1>1
  <1> HIDE DEF T, n
  <1>3. \A i \in 1 .. n : a[i] \in T
    BY <1>1, <1>2, ElementOfSeq
  <1>4. /\ s \in Seq(T)
        /\ Len(s) = n
        /\ \A i \in 1 .. n : s[i] = a[i]
    BY <1>1, <1>2, <1>3, SubSeqProperties
  <1>5. DOMAIN s = 1 .. n
    BY <1>4, LenProperties
  <1> HIDE DEF s
  <1>6. ToSet(s) = { a[i] : i \in 1 .. n }
    BY <1>4, <1>5 DEF ToSet
  <1>7. QED
    BY <1>2, <1>4, <1>5, <1>6 DEF s, n

\* What the draft validator says of the j-th action, spelled out.
LEMMA ActionIsValid ==
  ASSUME NEW g, Ready(g), NEW j \in 1 .. Len(g.draft.actions)
  PROVE  LET A == g.draft.actions
             a == A[j]
         IN  /\ a.kind \in { "source", "assertion-add", "assertion-revise", "question" }
             /\ ActionIds(a) \cap JournalIds(g.records) = {}
             /\ \A i \in 1 .. j - 1 : ActionIds(a) \cap ActionIds(A[i]) = {}
             /\ a.kind = "source" =>
                  /\ a.alias \notin JournalAliases(g.records, "SourceSnapshot")
                  /\ \A i \in 1 .. j - 1 : A[i].kind = "source" =>
                       /\ A[i].alias # a.alias
                       /\ A[i].path # a.path
                       /\ A[i].content # a.content
                       /\ A[i].identity # a.identity
             /\ a.kind = "assertion-add" =>
                  AssertionState(g.records, SubSeq(A, 1, j - 1), a.alias) = None
             /\ a.kind = "assertion-revise" =>
                  AssertionState(g.records, SubSeq(A, 1, j - 1), a.alias) =
                    [ assertion |-> a.assertion, revision |-> a.predecessor ]
             /\ a.kind = "question" =>
                  /\ a.alias \notin JournalAliases(g.records, "QuestionOpened")
                  /\ \A i \in 1 .. j - 1 : A[i].kind = "question" => A[i].alias # a.alias
             /\ a.kind # "source" /\ a.span # None =>
                  \E i \in 1 .. j - 1 : A[i].kind = "source" /\ A[i].alias = a.source
  <1> DEFINE A == g.draft.actions
             a == A[j]
             before == ToSet(SubSeq(A, 1, j - 1))
             taken == JournalIds(g.records) \cup UNION { ActionIds(b) : b \in before }
  <1>1. ValidAction(g.records, A, j) /\ SoundAction(a) /\ IsSequence(A)
    BY ReadyFacts
  <1>2. before = { A[i] : i \in 1 .. j - 1 }
    BY <1>1, ActionsBefore
  <1>3. \A i \in 1 .. j - 1 : A[i] \in before
    BY <1>2
  <1>4. a.kind \in { "source", "assertion-add", "assertion-revise", "question" }
    BY <1>1 DEF SoundAction
  <1>5. /\ a.kind = "source" => a.id \notin taken
        /\ a.kind # "source" => ActionIds(a) \cap taken = {}
    BY <1>1, <1>4 DEF ValidAction
  <1>6. a.kind = "source" => ActionIds(a) = { a.id }
    BY DEF ActionIds
  <1>7. ActionIds(a) \cap taken = {}
    BY <1>5, <1>6
  <1>8. \A i \in 1 .. j - 1 : ActionIds(A[i]) \subseteq taken
    BY <1>3
  <1>9. a.kind = "source" =>
          /\ a.alias \notin JournalAliases(g.records, "SourceSnapshot")
          /\ \A b \in before : b.kind = "source" =>
               /\ b.alias # a.alias
               /\ b.path # a.path
               /\ b.content # a.content
               /\ b.identity # a.identity
    BY <1>1 DEF ValidAction
  <1>10. a.kind = "question" =>
           /\ a.alias \notin JournalAliases(g.records, "QuestionOpened")
           /\ \A b \in before : b.kind = "question" => b.alias # a.alias
           /\ a.source = None => a.span = None
    BY <1>1 DEF ValidAction
  <1>11. /\ a.kind = "assertion-add" =>
              AssertionState(g.records, SubSeq(A, 1, j - 1), a.alias) = None
         /\ a.kind = "assertion-revise" =>
              AssertionState(g.records, SubSeq(A, 1, j - 1), a.alias) =
                [ assertion |-> a.assertion, revision |-> a.predecessor ]
    BY <1>1 DEF ValidAction
  <1>12. ASSUME a.kind # "source", a.span # None
         PROVE  \E i \in 1 .. j - 1 : A[i].kind = "source" /\ A[i].alias = a.source
    <2>1. a.source # None
      BY <1>1, <1>10, <1>12 DEF SoundAction
    <2>2. \E b \in before : b.kind = "source" /\ b.alias = a.source
      BY <1>1, <1>12, <2>1 DEF ValidAction
    <2> HIDE DEF A, a, before
    <2>3. QED
      BY <1>2, <2>2
  <1> HIDE DEF before, taken, A
  <1>13. QED
    BY <1>3, <1>4, <1>7, <1>8, <1>9, <1>10, <1>11, <1>12 DEF A, taken

\* No identifier belongs to two actions.
LEMMA ActionsAreApart ==
  ASSUME NEW g, Ready(g),
         NEW i \in 1 .. Len(g.draft.actions), NEW j \in 1 .. Len(g.draft.actions),
         NEW x \in ActionIds(g.draft.actions[i]), x \in ActionIds(g.draft.actions[j])
  PROVE  i = j
  <1>1. Len(g.draft.actions) \in Nat
    BY ReadyFacts
  <1>2. CASE i < j
    <2>1. i \in 1 .. j - 1
      BY <1>1, <1>2
    <2>2. ActionIds(g.draft.actions[j]) \cap ActionIds(g.draft.actions[i]) = {}
      BY <2>1, ActionIsValid
    <2>3. QED
      BY <2>2
  <1>3. CASE j < i
    <2>1. j \in 1 .. i - 1
      BY <1>1, <1>3
    <2>2. ActionIds(g.draft.actions[i]) \cap ActionIds(g.draft.actions[j]) = {}
      BY <2>1, ActionIsValid
    <2>3. QED
      BY <2>2
  <1>4. QED
    BY <1>2, <1>3

\* Two sources of a draft differ in alias, path, bytes and identity.
LEMMA SourcesAreApart ==
  ASSUME NEW g, Ready(g), NEW a \in SourceSet(g.draft), NEW b \in SourceSet(g.draft),
         \/ a.alias = b.alias
         \/ a.path = b.path
         \/ a.content = b.content
         \/ a.identity = b.identity
  PROVE  a = b
  <1> DEFINE A == g.draft.actions
  <1>1. Len(A) \in Nat /\ DOMAIN A = 1 .. Len(A)
    BY ReadyFacts
  <1>2. /\ a.kind = "source" /\ b.kind = "source"
        /\ \E i \in 1 .. Len(A) : a = A[i]
        /\ \E i \in 1 .. Len(A) : b = A[i]
    BY <1>1 DEF SourceSet, ToSet
  <1>3. PICK i \in 1 .. Len(A), j \in 1 .. Len(A) : a = A[i] /\ b = A[j]
    BY <1>2
  <1>4. ASSUME NEW k \in 1 .. Len(A), NEW l \in 1 .. k - 1,
               A[k].kind = "source", A[l].kind = "source"
        PROVE  /\ A[l].alias # A[k].alias
               /\ A[l].path # A[k].path
               /\ A[l].content # A[k].content
               /\ A[l].identity # A[k].identity
    <2>1. A[k].kind = "source" =>
            \A m \in 1 .. k - 1 : A[m].kind = "source" =>
              /\ A[m].alias # A[k].alias
              /\ A[m].path # A[k].path
              /\ A[m].content # A[k].content
              /\ A[m].identity # A[k].identity
      BY ActionIsValid
    <2>2. QED
      BY <1>4, <2>1
  <1> HIDE DEF A
  <1>5. i < j => i \in 1 .. j - 1
    BY <1>1
  <1>6. j < i => j \in 1 .. i - 1
    BY <1>1
  <1>7. ~ (i < j)
    BY <1>2, <1>3, <1>4, <1>5
  <1>8. ~ (j < i)
    BY <1>2, <1>3, <1>4, <1>6
  <1>9. i = j
    BY <1>1, <1>7, <1>8
  <1>10. QED
    BY <1>3, <1>9

\* No two questions of a draft have one alias.
LEMMA QuestionsAreApart ==
  ASSUME NEW g, Ready(g),
         NEW i \in 1 .. Len(g.draft.actions), NEW j \in 1 .. Len(g.draft.actions),
         g.draft.actions[i].kind = "question", g.draft.actions[j].kind = "question",
         g.draft.actions[i].alias = g.draft.actions[j].alias
  PROVE  i = j
  <1> DEFINE A == g.draft.actions
  <1>1. Len(A) \in Nat
    BY ReadyFacts
  <1>2. ASSUME NEW k \in 1 .. Len(A), NEW l \in 1 .. k - 1,
               A[k].kind = "question", A[l].kind = "question"
        PROVE  A[l].alias # A[k].alias
    <2>1. A[k].kind = "question" =>
            \A m \in 1 .. k - 1 : A[m].kind = "question" => A[m].alias # A[k].alias
      BY ActionIsValid
    <2>2. QED
      BY <1>2, <2>1
  <1>3. /\ i \in 1 .. Len(A) /\ j \in 1 .. Len(A)
        /\ A[i].kind = "question" /\ A[j].kind = "question" /\ A[i].alias = A[j].alias
    OBVIOUS
  <1> HIDE DEF A
  <1>4. i < j => i \in 1 .. j - 1
    BY <1>1
  <1>5. j < i => j \in 1 .. i - 1
    BY <1>1
  <1>6. ~ (i < j)
    BY <1>2, <1>3, <1>4
  <1>7. ~ (j < i)
    BY <1>2, <1>3, <1>5
  <1>8. QED
    BY <1>1, <1>6, <1>7

\* What a draft's actions before the j-th, or else the journal, say of an
\* alias: the last revision of it.
LEMMA StateOfAlias ==
  ASSUME NEW g, Ready(g), Drawn(g), NEW j \in 1 .. Len(g.draft.actions), NEW alias
  PROVE  LET A == g.draft.actions
             r == g.records
             state == AssertionState(r, SubSeq(A, 1, j - 1), alias)
         IN  \/ /\ state = None
                /\ \A i \in 1 .. j - 1 : ~ Revises(A[i], alias)
                /\ \A i \in Positions(r, "AssertionRevision") : r[i].alias # alias
             \/ /\ state # None
                /\ \E c \in 1 .. j - 1 :
                      /\ state = [ assertion |-> A[c].assertion, revision |-> A[c].id ]
                      /\ Revises(A[c], alias)
                      /\ \A i \in 1 .. j - 1 : Revises(A[i], alias) => i <= c
             \/ /\ state # None
                /\ \A i \in 1 .. j - 1 : ~ Revises(A[i], alias)
                /\ \E c \in Positions(r, "AssertionRevision") :
                      /\ state = [ assertion |-> r[c].assertion, revision |-> r[c].id ]
                      /\ r[c].alias = alias
                      /\ \A i \in Positions(r, "AssertionRevision") :
                            r[i].alias = alias => i <= c
  <1> DEFINE A == g.draft.actions
             r == g.records
             s == SubSeq(A, 1, j - 1)
             D == { i \in DOMAIN s : Revises(s[i], alias) }
             J == { i \in Positions(r, "AssertionRevision") : r[i].alias = alias }
             d == LastOf(D)
             c == LastOf(J)
             state == AssertionState(r, s, alias)
  <1>1. /\ DOMAIN s = 1 .. j - 1
        /\ \A i \in 1 .. j - 1 : s[i] = A[i] /\ i \in 1 .. Len(A)
        /\ j - 1 \in Nat
    BY ReadyFacts, ActionsBefore
  <1>2. /\ \A i \in 1 .. Len(A) : DrawnAction(A[i])
        /\ \A i \in 1 .. Len(r) : DrawnRecord(r[i])
        /\ Len(r) \in Nat /\ DOMAIN r = 1 .. Len(r)
    BY ReadyFacts, DrawnFacts
  <1>3. state = IF d # 0
                THEN [ assertion |-> s[d].assertion, revision |-> s[d].id ]
                ELSE IF c # 0
                THEN [ assertion |-> r[c].assertion, revision |-> r[c].id ]
                ELSE None
    BY DEF AssertionState
  <1>4. \A i \in 1 .. j - 1 : i \in D <=> Revises(A[i], alias)
    BY <1>1
  <1>5. D \in SUBSET (1 .. j - 1) /\ J \in SUBSET (1 .. Len(r))
    BY <1>1, <1>2 DEF Positions
  <1>6. \A i \in Positions(r, "AssertionRevision") : r[i].alias = alias <=> i \in J
    OBVIOUS
  <1>7. \A i \in J : i \in Positions(r, "AssertionRevision") /\ r[i].alias = alias
    OBVIOUS
  <1> HIDE DEF s, D, J, state
  <1>8. /\ D = {} => d = 0
        /\ D # {} => d \in D /\ d # 0
        /\ \A x \in D : x <= d
    BY <1>1, <1>5, LastOfPositions
  <1>9. /\ J = {} => c = 0
        /\ J # {} => c \in J /\ c # 0
        /\ \A x \in J : x <= c
    BY <1>2, <1>5, LastOfPositions
  <1> HIDE DEF d, c
  <1>10. CASE d # 0
    <2>1. d \in D /\ d \in 1 .. j - 1 /\ Revises(A[d], alias) /\ d \in 1 .. Len(A)
      BY <1>1, <1>4, <1>5, <1>8, <1>10
    <2>2. state = [ assertion |-> A[d].assertion, revision |-> A[d].id ]
      BY <1>1, <1>3, <1>10, <2>1
    <2>3. A[d].assertion \in Ids /\ A[d].id \in Ids
      <3>1. A[d].assertion \in IdsWith("ast") /\ A[d].id \in IdsWith("rev")
        BY <1>2, <2>1 DEF DrawnAction, Revises
      <3>2. QED
        BY <3>1, IdsAreIds DEF Prefixes3
    <2>4. state \in [ assertion : Ids, revision : Ids ]
      BY <2>2, <2>3
    <2>5. state # None
      BY <2>4, NoneAssumption
    <2>6. \A i \in 1 .. j - 1 : Revises(A[i], alias) => i <= d
      BY <1>4, <1>8
    <2>7. QED
      BY <2>1, <2>2, <2>5, <2>6 DEF s, state
  <1>11. CASE d = 0 /\ c # 0
    <2>1. D = {}
      BY <1>8, <1>11
    <2>2. \A i \in 1 .. j - 1 : ~ Revises(A[i], alias)
      BY <1>4, <2>1
    <2>3. c \in J /\ c \in 1 .. Len(r) /\ r[c].alias = alias
          /\ c \in Positions(r, "AssertionRevision")
      BY <1>5, <1>7, <1>9, <1>11
    <2>4. state = [ assertion |-> r[c].assertion, revision |-> r[c].id ]
      BY <1>3, <1>11
    <2>5. r[c].assertion \in Ids /\ r[c].id \in Ids
      <3>1. r[c].kind = "AssertionRevision"
        BY <2>3 DEF Positions
      <3>2. r[c].assertion \in IdsWith("ast") /\ r[c].id \in IdsWith("rev")
        BY <1>2, <2>3, <3>1 DEF DrawnRecord, PrefixOf
      <3>3. QED
        BY <3>2, IdsAreIds DEF Prefixes3
    <2>6. state \in [ assertion : Ids, revision : Ids ]
      BY <2>4, <2>5
    <2>7. state # None
      BY <2>6, NoneAssumption
    <2>8. \A i \in Positions(r, "AssertionRevision") : r[i].alias = alias => i <= c
      BY <1>6, <1>9
    <2>9. QED
      BY <2>2, <2>3, <2>4, <2>7, <2>8 DEF s, state
  <1>12. CASE d = 0 /\ c = 0
    <2>1. D = {} /\ J = {}
      BY <1>8, <1>9, <1>12
    <2>2. state = None
      BY <1>3, <1>12
    <2>3. /\ \A i \in 1 .. j - 1 : ~ Revises(A[i], alias)
          /\ \A i \in Positions(r, "AssertionRevision") : r[i].alias # alias
      BY <1>4, <1>6, <2>1
    <2>4. QED
      BY <2>2, <2>3 DEF s, state
  <1>13. QED
    BY <1>10, <1>11, <1>12

-----------------------------------------------------------------------------
(***************************************************************************)
(* The journal that a close stages, segment by segment.                    *)
(***************************************************************************)
CloseId(g) == GeneratedId("cls", AllTakenIds(g))

MayClose(g) ==
  /\ Ready(g)
  /\ Drawn(g)
  /\ SourceSet(g.draft) # {}
  /\ CloseId(g) \in IdsWith("cls") \ AllTakenIds(g)

Staged(g) == g.records \o HorizonRecords(g)

Slots(g) == Ascending(SemanticSlots(g.draft))

\* The position of the opening record; the k-th source follows it after k
\* places, and the k-th slot follows the last source.
OpensAt(g) == Len(g.records) + 1
SourcesEnd(g) == OpensAt(g) + Len(SortedSources(g.draft))
SlotsEnd(g) == SourcesEnd(g) + Len(Slots(g))

\* The journal as it was, the opening, the sources, the slots, the end.
LEMMA StagedLayout ==
  ASSUME NEW g, Ready(g)
  PROVE  /\ Extends(Staged(g), g.records)
         /\ Len(SortedSources(g.draft)) \in Nat
         /\ Len(Slots(g)) \in Nat
         /\ OpensAt(g) \in Nat \ { 0 }
         /\ SourcesEnd(g) \in Nat
         /\ SlotsEnd(g) \in Nat
         /\ Len(Staged(g)) = SlotsEnd(g) + 1
         /\ Staged(g)[OpensAt(g)] =
              BoundaryRecord("HorizonOpened", g.draft.id, g.draft)
         /\ \A k \in 1 .. Len(SortedSources(g.draft)) :
              Staged(g)[OpensAt(g) + k] =
                SourceRecord(g.draft, SortedSources(g.draft)[k])
         /\ \A k \in 1 .. Len(Slots(g)) :
              Staged(g)[SourcesEnd(g) + k] = RecordIn(g.draft, Slots(g)[k])
         /\ Staged(g)[SlotsEnd(g) + 1] =
              BoundaryRecord("HorizonClosed", CloseId(g), g.draft)
  <1> DEFINE draft == g.draft
             sorted == SortedSources(draft)
             slots == Slots(g)
             M == Len(sorted)
             L == Len(slots)
             first == BoundaryRecord("HorizonOpened", draft.id, draft)
             opened == << first >>
             sources == [ n \in DOMAIN sorted |-> SourceRecord(draft, sorted[n]) ]
             semantic == [ n \in DOMAIN slots |-> RecordIn(draft, slots[n]) ]
             end == BoundaryRecord("HorizonClosed", CloseId(g), draft)
             closed == << end >>
             r == g.records
             N == Len(r)
  <1>1. IsSequence(r) /\ IsSequence(draft.actions) /\ N \in Nat /\ Len(r) = N
    BY ReadyFacts
  <1>2. IsSequence(sorted) /\ IsSequence(slots)
    BY <1>1, SortedSourcesIsSequence, SemanticSlotsAreFinite, AscendingIsSequence
       DEF Slots
  <1>3. /\ M \in Nat /\ DOMAIN sorted = 1 .. M
        /\ L \in Nat /\ DOMAIN slots = 1 .. L
    <2> HIDE DEF sorted, slots
    <2>1. QED
      BY <1>2, SequenceFacts
  <1>4. HorizonRecords(g) = opened \o sources \o semantic \o closed
    BY DEF HorizonRecords, Slots, CloseId
  <1>5. /\ IsSequence(opened) /\ Len(opened) = 1 /\ opened[1] = first
        /\ IsSequence(closed) /\ Len(closed) = 1 /\ closed[1] = end
    BY SingletonIsSequence
  <1>6. /\ IsSequence(sources) /\ Len(sources) = M
        /\ \A k \in 1 .. M : sources[k] = SourceRecord(draft, sorted[k])
    <2> HIDE DEF sorted, M
    <2>1. /\ sources = [ n \in 1 .. M |-> sources[n] ]
          /\ \A k \in 1 .. M : sources[k] = SourceRecord(draft, sorted[k])
      BY <1>3
    <2> HIDE DEF sources
    <2>2. IsSequence(sources) /\ Len(sources) = M
      BY <1>3, <2>1, FunctionIsSequence
    <2>3. QED
      BY <2>1, <2>2
  <1>7. /\ IsSequence(semantic) /\ Len(semantic) = L
        /\ \A k \in 1 .. L : semantic[k] = RecordIn(draft, slots[k])
    <2> HIDE DEF slots, L
    <2>1. /\ semantic = [ n \in 1 .. L |-> semantic[n] ]
          /\ \A k \in 1 .. L : semantic[k] = RecordIn(draft, slots[k])
      BY <1>3
    <2> HIDE DEF semantic
    <2>2. IsSequence(semantic) /\ Len(semantic) = L
      BY <1>3, <2>1, FunctionIsSequence
    <2>3. QED
      BY <2>1, <2>2
  <1> DEFINE all == Staged(g)
  <1>8. all = r \o (opened \o sources \o semantic \o closed)
    BY <1>4 DEF Staged
  <1>9. /\ OpensAt(g) = N + 1
        /\ SourcesEnd(g) = N + 1 + M
        /\ SlotsEnd(g) = N + 1 + M + L
    BY DEF OpensAt, SourcesEnd, SlotsEnd
  <1> HIDE DEF sorted, slots, M, L, first, opened, sources, semantic, end, closed, r, N, all
  <1> DEFINE t2 == opened \o sources
             t3 == t2 \o semantic
             t4 == t3 \o closed
  <1>10. /\ IsSequence(t2) /\ Len(t2) = 1 + M
         /\ t2[1] = opened[1]
         /\ \A k \in 1 .. M : t2[1 + k] = sources[k]
    <2>1. /\ IsSequence(t2) /\ Len(t2) = Len(opened) + Len(sources)
          /\ \A i \in 1 .. Len(opened) : t2[i] = opened[i]
          /\ \A k \in 1 .. Len(sources) : t2[Len(opened) + k] = sources[k]
      <3>1. IsSequence(opened) /\ IsSequence(sources)
        BY <1>5, <1>6
      <3>2. QED
        BY <3>1, ConcatIsSequence
    <2> HIDE DEF t2
    <2>2. QED
      BY <1>5, <1>6, <2>1
  <1> HIDE DEF t2
  <1>11. /\ IsSequence(t3) /\ Len(t3) = 1 + M + L
         /\ \A i \in 1 .. 1 + M : t3[i] = t2[i]
         /\ \A k \in 1 .. L : t3[(1 + M) + k] = semantic[k]
    BY <1>7, <1>10, ConcatIsSequence
  <1> HIDE DEF t3
  <1>12. /\ IsSequence(t4) /\ Len(t4) = 1 + M + L + 1
         /\ \A i \in 1 .. 1 + M + L : t4[i] = t3[i]
         /\ t4[(1 + M + L) + 1] = closed[1]
    <2>1. /\ IsSequence(t4) /\ Len(t4) = Len(t3) + Len(closed)
          /\ \A i \in 1 .. Len(t3) : t4[i] = t3[i]
          /\ \A k \in 1 .. Len(closed) : t4[Len(t3) + k] = closed[k]
      <3>1. IsSequence(t3) /\ IsSequence(closed)
        BY <1>5, <1>11
      <3>2. QED
        BY <3>1, ConcatIsSequence
    <2> HIDE DEF t4
    <2>2. QED
      BY <1>5, <1>11, <2>1
  <1>13. all = r \o t4
    BY <1>8 DEF t2, t3, t4
  <1> HIDE DEF t4
  <1>14. /\ IsSequence(all) /\ Len(all) = N + (1 + M + L + 1)
         /\ \A i \in 1 .. N : all[i] = r[i]
         /\ \A k \in 1 .. 1 + M + L + 1 : all[N + k] = t4[k]
    <2>1. /\ IsSequence(all) /\ Len(all) = Len(r) + Len(t4)
          /\ \A i \in 1 .. Len(r) : all[i] = r[i]
          /\ \A k \in 1 .. Len(t4) : all[Len(r) + k] = t4[k]
      BY <1>1, <1>12, <1>13, ConcatIsSequence
    <2>2. QED
      BY <1>1, <1>12, <2>1
  <1>15. all[N + 1] = first
    <2>1. 1 \in 1 .. 1 + M + L + 1 /\ 1 \in 1 .. 1 + M + L /\ 1 \in 1 .. 1 + M
      BY <1>3
    <2>2. all[N + 1] = t4[1] /\ t4[1] = t3[1] /\ t3[1] = t2[1]
      BY <1>11, <1>12, <1>14, <2>1
    <2>3. QED
      BY <1>5, <1>10, <2>2
  <1>16. ASSUME NEW k \in 1 .. M
         PROVE  all[(N + 1) + k] = SourceRecord(draft, sorted[k])
    <2>1. /\ 1 + k \in 1 .. 1 + M + L + 1 /\ 1 + k \in 1 .. 1 + M + L
          /\ 1 + k \in 1 .. 1 + M /\ N + (1 + k) = (N + 1) + k
      BY <1>1, <1>3
    <2>2. all[(N + 1) + k] = t4[1 + k] /\ t4[1 + k] = t3[1 + k] /\ t3[1 + k] = t2[1 + k]
      BY <1>11, <1>12, <1>14, <2>1
    <2>3. QED
      BY <1>6, <1>10, <2>2
  <1>17. ASSUME NEW k \in 1 .. L
         PROVE  all[(N + 1 + M) + k] = RecordIn(draft, slots[k])
    <2>1. /\ (1 + M) + k \in 1 .. 1 + M + L + 1 /\ (1 + M) + k \in 1 .. 1 + M + L
          /\ N + ((1 + M) + k) = (N + 1 + M) + k
      BY <1>1, <1>3
    <2>2. all[(N + 1 + M) + k] = t4[(1 + M) + k] /\ t4[(1 + M) + k] = t3[(1 + M) + k]
      BY <1>12, <1>14, <2>1
    <2>3. QED
      BY <1>7, <1>11, <2>2
  <1>18. all[(N + 1 + M + L) + 1] = end
    <2>1. /\ 1 + M + L + 1 \in 1 .. 1 + M + L + 1
          /\ N + (1 + M + L + 1) = (N + 1 + M + L) + 1
      BY <1>1, <1>3
    <2>2. all[(N + 1 + M + L) + 1] = t4[1 + M + L + 1] /\ t4[(1 + M + L) + 1] = closed[1]
      BY <1>12, <1>14, <2>1
    <2>3. QED
      BY <1>5, <2>2
  <1>19. Extends(all, r) /\ N \in Nat /\ N <= Len(all)
         /\ Len(all) = (N + 1 + M + L) + 1
    <2>1. N \in Nat
      BY <1>1 DEF r, N
    <2>2. N <= Len(all) /\ Len(all) = (N + 1 + M + L) + 1
      BY <1>3, <1>14, <2>1
    <2>3. QED
      BY <1>1, <1>14, <2>1, <2>2 DEF Extends, r, N
  <1>20. /\ N + 1 \in Nat \ { 0 }
         /\ N + 1 + M \in Nat
         /\ N + 1 + M + L \in Nat
    BY <1>3, <1>19
  <1>21. QED
    BY <1>3, <1>9, <1>15, <1>16, <1>17, <1>18, <1>19, <1>20
       DEF all, r, first, end, M, L, sorted, slots

\* The sorted sources are the captured ones, each once, by path.
LEMMA SortedSourcesAreSorted ==
  ASSUME NEW g, Ready(g)
  PROVE  LET sorted == SortedSources(g.draft)
             M == Len(sorted)
         IN  /\ \A k \in 1 .. M : sorted[k] \in SourceSet(g.draft)
             /\ \A k, l \in 1 .. M : k < l => sorted[k].path < sorted[l].path
             /\ \A a \in SourceSet(g.draft) : \E k \in 1 .. M : sorted[k] = a
             /\ \A a \in SourceSet(g.draft) : a.path \in Nat
  <1> DEFINE sorted == SortedSources(g.draft)
             M == Len(sorted)
             A == g.draft.actions
             S == { i \in DOMAIN A : A[i].kind = "source" }
             T == { a.path : a \in SourceSet(g.draft) }
             f == [ i \in S |-> A[i].path ]
             n == Cardinality(T)
  <1>1. IsSequence(A) /\ DOMAIN A = 1 .. Len(A)
    BY ReadyFacts
  <1>2. IsFiniteSet(S)
    BY <1>1, PositionsAreFinite
  <1>3. f \in Surjection(S, T)
    BY DEF Surjection, SourceSet, ToSet
  <1>4. IsFiniteSet(T)
    <2> HIDE DEF S, T, f
    <2>1. QED
      BY <1>2, <1>3, FS_Surjection
  <1>5. \A a \in SourceSet(g.draft) : a.path \in Nat
    <2>1. SUFFICES ASSUME NEW a \in SourceSet(g.draft) PROVE a.path \in Nat
      OBVIOUS
    <2>2. PICK i \in DOMAIN A : a = A[i] /\ A[i].kind = "source"
      BY DEF SourceSet, ToSet
    <2>3. A[i].path \in Paths
      BY <2>2 DEF Ready, Sound, SoundDraft, SoundAction
    <2>4. QED
      BY <2>2, <2>3, PathsAssumption
  <1>6. T \in SUBSET Int
    BY <1>5
  <1>7. n \in Nat /\ DOMAIN Ascending(T) = 1 .. n
    BY <1>4, FS_CardinalityType DEF Ascending
  <1>8. \A k \in 1 .. n : sorted[k] = CHOOSE a \in SourceSet(g.draft) :
                                         a.path = Ascending(T)[k]
    BY <1>7 DEF SortedSources
  <1>9. M = n
    <2>1. IsSequence(sorted)
      BY <1>1, SortedSourcesIsSequence
    <2>2. DOMAIN sorted = 1 .. n
      BY <1>7 DEF SortedSources
    <2>3. DOMAIN sorted = 1 .. M /\ M \in Nat
      BY <2>1, SequenceFacts
    <2> HIDE DEF sorted, M, n
    <2>4. QED
      BY <1>7, <2>2, <2>3
  <1>10. \A k \in 1 .. n : \E a \in SourceSet(g.draft) : a.path = Ascending(T)[k]
    <2>1. SUFFICES ASSUME NEW k \in 1 .. n
                   PROVE  \E a \in SourceSet(g.draft) : a.path = Ascending(T)[k]
      OBVIOUS
    <2>2. Ascending(T)[k] \in T
      <3> HIDE DEF T
      <3>1. QED
        BY <1>4, <1>6, <2>1, AscendingRank
    <2>3. QED
      BY <2>2
  <1>11. \A k \in 1 .. n : sorted[k] \in SourceSet(g.draft)
                           /\ sorted[k].path = Ascending(T)[k]
    BY <1>8, <1>10
  <1>12. ASSUME NEW k \in 1 .. n, NEW l \in 1 .. n, k < l
         PROVE  sorted[k].path < sorted[l].path
    <2> HIDE DEF T, sorted
    <2>1. Ascending(T)[k] < Ascending(T)[l]
      BY <1>4, <1>6, <1>12, AscendingIncreases
    <2>2. QED
      BY <1>11, <2>1
  <1>13. ASSUME NEW a \in SourceSet(g.draft)
         PROVE  \E k \in 1 .. n : sorted[k] = a
    <2>1. a.path \in T
      OBVIOUS
    <2> HIDE DEF T, sorted
    <2>2. PICK k \in 1 .. n : Ascending(T)[k] = a.path
      BY <1>4, <1>6, <2>1, AscendingIsOnto
    <2>3. sorted[k] \in SourceSet(g.draft) /\ sorted[k].path = a.path
      BY <1>11, <2>2
    <2>4. sorted[k] = a
      BY <2>3, SourcesAreApart
    <2>5. QED
      BY <2>4
  <1> HIDE DEF sorted, M, n
  <1>14. QED
    BY <1>5, <1>9, <1>11, <1>12, <1>13 DEF sorted, M

\* The slots are taken in increasing order, neighbours next to each other.
LEMMA SlotsAreSorted ==
  ASSUME NEW g, Ready(g)
  PROVE  LET slots == Slots(g)
             L == Len(slots)
         IN  /\ \A k \in 1 .. L : slots[k] \in SemanticSlots(g.draft)
             /\ \A k, l \in 1 .. L : k < l => slots[k] < slots[l]
             /\ \A s \in SemanticSlots(g.draft) : \E k \in 1 .. L : slots[k] = s
             /\ \A k \in 1 .. L : slots[k] - 1 \in SemanticSlots(g.draft) =>
                  k - 1 \in 1 .. L /\ slots[k - 1] = slots[k] - 1
             /\ SemanticSlots(g.draft) \in SUBSET Nat
  <1> DEFINE S == SemanticSlots(g.draft)
  <1>1. /\ IsSequence(g.draft.actions)
        /\ DOMAIN g.draft.actions = 1 .. Len(g.draft.actions)
        /\ Len(g.draft.actions) \in Nat
    BY ReadyFacts
  <1>2. IsFiniteSet(S)
    BY <1>1, SemanticSlotsAreFinite
  <1>3. S \in SUBSET Nat
    BY <1>1 DEF SemanticSlots, Slot
  <1>4. S \in SUBSET Int
    BY <1>3
  <1> HIDE DEF S
  <1>5. Len(Ascending(S)) = Cardinality(S)
    BY <1>2, AscendingIsSequence
  <1>6. Slots(g) = Ascending(S)
    BY DEF Slots, S
  <1>7. /\ \A k \in 1 .. Cardinality(S) : Ascending(S)[k] \in S
        /\ \A s \in S : \E k \in 1 .. Cardinality(S) : Ascending(S)[k] = s
        /\ \A k \in 1 .. Cardinality(S) : Ascending(S)[k] - 1 \in S =>
             /\ k - 1 \in 1 .. Cardinality(S)
             /\ Ascending(S)[k - 1] = Ascending(S)[k] - 1
    BY <1>2, <1>4, AscendingRank, AscendingIsOnto, AscendingNeighbours
  <1>8. \A k, l \in 1 .. Cardinality(S) : k < l => Ascending(S)[k] < Ascending(S)[l]
    BY <1>2, <1>4, AscendingIncreases
  <1>9. QED
    BY <1>3, <1>5, <1>6, <1>7, <1>8 DEF S

\* Which actions have slots, and what is recorded in them.
Recorded(draft, n) ==
  /\ n \in 1 .. Len(draft.actions)
  /\ draft.actions[n].kind # "source"

Statement(draft, a) ==
  IF a.kind = "question" THEN QuestionRecord(draft, a) ELSE RevisionRecord(draft, a)

\* The slots are those of the recorded actions and of their evidence.
LEMMA SlotsOfActions ==
  ASSUME NEW g, Ready(g)
  PROVE  /\ \A n \in 1 .. Len(g.draft.actions) : Recorded(g.draft, n) =>
              /\ Slot(n) \in SemanticSlots(g.draft)
              /\ RecordIn(g.draft, Slot(n)) = Statement(g.draft, g.draft.actions[n])
              /\ g.draft.actions[n].span # None =>
                   /\ Slot(n) - 1 \in SemanticSlots(g.draft)
                   /\ RecordIn(g.draft, Slot(n) - 1) =
                        EvidenceRecord(g.draft, g.draft.actions[n])
         /\ \A s \in SemanticSlots(g.draft) :
              \E n \in 1 .. Len(g.draft.actions) :
                 /\ Recorded(g.draft, n)
                 /\ s = Slot(n) \/ (s = Slot(n) - 1 /\ g.draft.actions[n].span # None)
  <1> DEFINE A == g.draft.actions
  <1>1. DOMAIN A = 1 .. Len(A) /\ Len(A) \in Nat
    BY ReadyFacts
  <1>2. ASSUME NEW n \in 1 .. Len(A)
        PROVE  /\ n \in Nat
               /\ (Slot(n) + 1) \div 2 = n
               /\ Slot(n) % 2 = 0
               /\ ((Slot(n) - 1) + 1) \div 2 = n
               /\ (Slot(n) - 1) % 2 = 1
    <2>1. n \in Nat /\ n # 0
      BY <1>1
    <2> HIDE DEF A
    <2>2. /\ (2 * n + 1) \div 2 = n
          /\ (2 * n) % 2 = 0
          /\ ((2 * n - 1) + 1) \div 2 = n
          /\ (2 * n - 1) % 2 = 1
      BY <2>1
    <2>3. QED
      BY <2>1, <2>2 DEF Slot
  <1>3. ASSUME NEW n \in 1 .. Len(A), Recorded(g.draft, n)
        PROVE  /\ Slot(n) \in SemanticSlots(g.draft)
               /\ RecordIn(g.draft, Slot(n)) = Statement(g.draft, A[n])
               /\ A[n].span # None =>
                    /\ Slot(n) - 1 \in SemanticSlots(g.draft)
                    /\ RecordIn(g.draft, Slot(n) - 1) = EvidenceRecord(g.draft, A[n])
    <2>1. /\ Slot(n) \in SemanticSlots(g.draft)
          /\ A[n].span # None => Slot(n) - 1 \in SemanticSlots(g.draft)
      BY <1>1, <1>3 DEF SemanticSlots, Recorded
    <2>2. RecordIn(g.draft, Slot(n)) = Statement(g.draft, A[n])
      BY <1>2 DEF RecordIn, Statement
    <2>3. RecordIn(g.draft, Slot(n) - 1) = EvidenceRecord(g.draft, A[n])
      BY <1>2 DEF RecordIn
    <2>4. QED
      BY <2>1, <2>2, <2>3
  <1>4. ASSUME NEW s \in SemanticSlots(g.draft)
        PROVE  \E n \in 1 .. Len(A) :
                 /\ Recorded(g.draft, n)
                 /\ s = Slot(n) \/ (s = Slot(n) - 1 /\ A[n].span # None)
    BY <1>1 DEF SemanticSlots, Recorded
  <1>5. QED
    BY <1>3, <1>4

\* Position p of the staged journal holds the source a, the evidence of action
\* n, or the revision or question of action n.
SourceAt(g, p, a) ==
  /\ p \in (OpensAt(g) + 1) .. SourcesEnd(g)
  /\ a \in SourceSet(g.draft)
  /\ Staged(g)[p] = SourceRecord(g.draft, a)

EvidenceAt(g, p, n) ==
  /\ p \in (SourcesEnd(g) + 1) .. SlotsEnd(g)
  /\ Recorded(g.draft, n)
  /\ g.draft.actions[n].span # None
  /\ Slots(g)[p - SourcesEnd(g)] = Slot(n) - 1
  /\ Staged(g)[p] = EvidenceRecord(g.draft, g.draft.actions[n])

StatementAt(g, p, n) ==
  /\ p \in (SourcesEnd(g) + 1) .. SlotsEnd(g)
  /\ Recorded(g.draft, n)
  /\ Slots(g)[p - SourcesEnd(g)] = Slot(n)
  /\ Staged(g)[p] = Statement(g.draft, g.draft.actions[n])

EndsAt(g) == SlotsEnd(g) + 1

\* The segments follow each other.
LEMMA Bounds ==
  ASSUME NEW g, Ready(g)
  PROVE  /\ OpensAt(g) \in Nat /\ SourcesEnd(g) \in Nat /\ SlotsEnd(g) \in Nat
         /\ EndsAt(g) \in Nat
         /\ 1 <= OpensAt(g) /\ OpensAt(g) <= SourcesEnd(g)
         /\ SourcesEnd(g) <= SlotsEnd(g) /\ EndsAt(g) = SlotsEnd(g) + 1
         /\ Len(g.records) \in Nat
         /\ Len(g.records) + 1 = OpensAt(g)
         /\ Len(Staged(g)) = EndsAt(g)
  <1>1. /\ Len(SortedSources(g.draft)) \in Nat
        /\ Len(Slots(g)) \in Nat
        /\ OpensAt(g) \in Nat \ { 0 }
        /\ Len(Staged(g)) = SlotsEnd(g) + 1
    BY StagedLayout
  <1>2. Len(g.records) \in Nat
    BY ReadyFacts
  <1>3. SourcesEnd(g) = OpensAt(g) + Len(SortedSources(g.draft))
    BY DEF SourcesEnd
  <1>4. SlotsEnd(g) = SourcesEnd(g) + Len(Slots(g)) /\ EndsAt(g) = SlotsEnd(g) + 1
    BY DEF SlotsEnd, EndsAt
  <1>5. Len(g.records) + 1 = OpensAt(g)
    BY DEF OpensAt
  <1>6. QED
    BY <1>1, <1>2, <1>3, <1>4, <1>5

\* Every position of the staged journal belongs to one segment.
LEMMA StagedPositions ==
  ASSUME NEW g, Ready(g), NEW p \in 1 .. Len(Staged(g))
  PROVE  \/ p \in 1 .. Len(g.records)
         \/ p = OpensAt(g)
         \/ \E a \in SourceSet(g.draft) : SourceAt(g, p, a)
         \/ \E n \in 1 .. Len(g.draft.actions) : EvidenceAt(g, p, n)
         \/ \E n \in 1 .. Len(g.draft.actions) : StatementAt(g, p, n)
         \/ p = EndsAt(g)
  <1> DEFINE o == OpensAt(g)
             e == SourcesEnd(g)
             f == SlotsEnd(g)
             M == Len(SortedSources(g.draft))
             L == Len(Slots(g))
  <1>1. /\ o \in Nat /\ M \in Nat /\ L \in Nat /\ e \in Nat /\ f \in Nat
        /\ e = o + M /\ f = e + L
        /\ Len(Staged(g)) = f + 1 /\ EndsAt(g) = f + 1
        /\ Len(g.records) \in Nat /\ Len(g.records) + 1 = o
    BY Bounds, StagedLayout DEF SourcesEnd, SlotsEnd
  <1>2. \A k \in 1 .. M : Staged(g)[o + k] = SourceRecord(g.draft, SortedSources(g.draft)[k])
    BY StagedLayout
  <1>3. \A k \in 1 .. L : Staged(g)[e + k] = RecordIn(g.draft, Slots(g)[k])
    BY StagedLayout
  <1>4. p \in 1 .. f + 1
    BY <1>1
  <1> HIDE DEF o, e, f, M, L
  <1>5. CASE p \in (o + 1) .. e
    <2>1. p - o \in 1 .. M /\ o + (p - o) = p
      BY <1>1, <1>5
    <2> DEFINE a == SortedSources(g.draft)[p - o]
    <2>2. Staged(g)[p] = SourceRecord(g.draft, a)
      BY <1>2, <2>1
    <2>3. a \in SourceSet(g.draft)
      BY <2>1, SortedSourcesAreSorted DEF M
    <2> HIDE DEF a
    <2>4. SourceAt(g, p, a)
      BY <1>5, <2>2, <2>3 DEF SourceAt, o, e
    <2>5. QED
      BY <2>3, <2>4
  <1>6. CASE p \in (e + 1) .. f
    <2>1. p - e \in 1 .. L /\ e + (p - e) = p
      BY <1>1, <1>6
    <2> DEFINE s == Slots(g)[p - e]
    <2>2. Staged(g)[p] = RecordIn(g.draft, s)
      BY <1>3, <2>1
    <2>3. s \in SemanticSlots(g.draft)
      BY <2>1, SlotsAreSorted DEF L
    <2>4. s = Slots(g)[p - SourcesEnd(g)]
      BY DEF e
    <2>5. p \in (SourcesEnd(g) + 1) .. SlotsEnd(g)
      BY <1>6 DEF e, f
    <2> HIDE DEF s
    <2>6. PICK n \in 1 .. Len(g.draft.actions) :
             /\ Recorded(g.draft, n)
             /\ s = Slot(n) \/ (s = Slot(n) - 1 /\ g.draft.actions[n].span # None)
      BY <2>3, SlotsOfActions
    <2>7. CASE s = Slot(n)
      <3>1. RecordIn(g.draft, s) = Statement(g.draft, g.draft.actions[n])
        BY <2>6, <2>7, SlotsOfActions
      <3>2. StatementAt(g, p, n)
        BY <2>2, <2>4, <2>5, <2>6, <2>7, <3>1 DEF StatementAt
      <3>3. QED
        BY <3>2
    <2>8. CASE s = Slot(n) - 1 /\ g.draft.actions[n].span # None
      <3>1. RecordIn(g.draft, s) = EvidenceRecord(g.draft, g.draft.actions[n])
        BY <2>6, <2>8, SlotsOfActions
      <3>2. EvidenceAt(g, p, n)
        BY <2>2, <2>4, <2>5, <2>6, <2>8, <3>1 DEF EvidenceAt
      <3>3. QED
        BY <3>2
    <2>9. QED
      BY <2>6, <2>7, <2>8
  <1>7. \/ p \in 1 .. Len(g.records)
        \/ p = o
        \/ p \in (o + 1) .. e
        \/ p \in (e + 1) .. f
        \/ p = EndsAt(g)
    BY <1>1, <1>4
  <1>8. QED
    BY <1>5, <1>6, <1>7 DEF o

\* Every source has a position, and they are in increasing path order.
LEMMA SourcesArePlaced ==
  ASSUME NEW g, Ready(g)
  PROVE  /\ \A a \in SourceSet(g.draft) :
              \E p \in (OpensAt(g) + 1) .. SourcesEnd(g) : SourceAt(g, p, a)
         /\ \A p, q \in (OpensAt(g) + 1) .. SourcesEnd(g) : p < q =>
              \E a, b \in SourceSet(g.draft) :
                 /\ SourceAt(g, p, a)
                 /\ SourceAt(g, q, b)
                 /\ a.path < b.path
  <1> DEFINE o == OpensAt(g)
             e == SourcesEnd(g)
             M == Len(SortedSources(g.draft))
             sorted == SortedSources(g.draft)
  <1>1. o \in Nat /\ M \in Nat /\ e = o + M
    BY Bounds, StagedLayout DEF SourcesEnd
  <1>2. \A k \in 1 .. M : Staged(g)[o + k] = SourceRecord(g.draft, sorted[k])
    BY StagedLayout
  <1>3. /\ \A k \in 1 .. M : sorted[k] \in SourceSet(g.draft)
        /\ \A k, l \in 1 .. M : k < l => sorted[k].path < sorted[l].path
        /\ \A a \in SourceSet(g.draft) : \E k \in 1 .. M : sorted[k] = a
    BY SortedSourcesAreSorted
  <1> HIDE DEF o, e, M, sorted
  <1>4. ASSUME NEW k \in 1 .. M
        PROVE  o + k \in (o + 1) .. e /\ SourceAt(g, o + k, sorted[k])
    <2>1. o + k \in (o + 1) .. e
      BY <1>1
    <2>2. QED
      BY <1>2, <1>3, <2>1 DEF SourceAt, o, e
  <1>5. ASSUME NEW a \in SourceSet(g.draft)
        PROVE  \E p \in (o + 1) .. e : SourceAt(g, p, a)
    BY <1>3, <1>4
  <1>6. ASSUME NEW p \in (o + 1) .. e, NEW q \in (o + 1) .. e, p < q
        PROVE  \E a, b \in SourceSet(g.draft) :
                 SourceAt(g, p, a) /\ SourceAt(g, q, b) /\ a.path < b.path
    <2>1. p - o \in 1 .. M /\ q - o \in 1 .. M /\ o + (p - o) = p /\ o + (q - o) = q
          /\ p - o < q - o
      BY <1>1, <1>6
    <2>2. /\ SourceAt(g, p, sorted[p - o])
          /\ SourceAt(g, q, sorted[q - o])
          /\ sorted[p - o].path < sorted[q - o].path
      BY <1>3, <1>4, <2>1
    <2>3. QED
      BY <1>3, <2>1, <2>2
  <1>7. QED
    BY <1>5, <1>6 DEF o, e

\* Every other action has a position, just after its evidence if it has any.
LEMMA StatementsArePlaced ==
  ASSUME NEW g, Ready(g), NEW n \in 1 .. Len(g.draft.actions), Recorded(g.draft, n)
  PROVE  \E p \in (SourcesEnd(g) + 1) .. SlotsEnd(g) : StatementAt(g, p, n)
  <1> DEFINE e == SourcesEnd(g)
             f == SlotsEnd(g)
             L == Len(Slots(g))
  <1>1. e \in Nat /\ L \in Nat /\ f = e + L
    BY Bounds, StagedLayout DEF SlotsEnd
  <1>2. Slot(n) \in SemanticSlots(g.draft)
        /\ RecordIn(g.draft, Slot(n)) = Statement(g.draft, g.draft.actions[n])
    BY SlotsOfActions
  <1>3. PICK k \in 1 .. L : Slots(g)[k] = Slot(n)
    BY <1>2, SlotsAreSorted
  <1>4. Staged(g)[e + k] = RecordIn(g.draft, Slots(g)[k])
    BY StagedLayout
  <1> HIDE DEF e, f, L
  <1>5. e + k \in (e + 1) .. f /\ (e + k) - e = k
    BY <1>1
  <1>6. StatementAt(g, e + k, n)
    <2>1. e + k \in (SourcesEnd(g) + 1) .. SlotsEnd(g)
      BY <1>5 DEF e, f
    <2>2. Slots(g)[(e + k) - SourcesEnd(g)] = Slot(n)
      BY <1>3, <1>5 DEF e
    <2>3. QED
      BY <1>2, <1>3, <1>4, <2>1, <2>2 DEF StatementAt
  <1>7. QED
    BY <1>5, <1>6 DEF e, f

\* The evidence of a statement is just before it.
LEMMA EvidenceIsPlaced ==
  ASSUME NEW g, Ready(g), NEW n \in 1 .. Len(g.draft.actions), NEW p,
         StatementAt(g, p, n), g.draft.actions[n].span # None
  PROVE  p - 1 \in (SourcesEnd(g) + 1) .. SlotsEnd(g) /\ EvidenceAt(g, p - 1, n)
  <1> DEFINE e == SourcesEnd(g)
             f == SlotsEnd(g)
             L == Len(Slots(g))
  <1>1. e \in Nat /\ L \in Nat /\ f = e + L
    BY Bounds, StagedLayout DEF SlotsEnd
  <1>2. p \in (e + 1) .. f /\ Recorded(g.draft, n) /\ Slots(g)[p - e] = Slot(n)
    BY DEF StatementAt
  <1>3. Slot(n) - 1 \in SemanticSlots(g.draft)
        /\ RecordIn(g.draft, Slot(n) - 1) = EvidenceRecord(g.draft, g.draft.actions[n])
    BY <1>2, SlotsOfActions
  <1>4. \A k \in 1 .. L : Staged(g)[e + k] = RecordIn(g.draft, Slots(g)[k])
    BY StagedLayout
  <1> HIDE DEF e, f
  <1>5. p - e \in 1 .. L
    BY <1>1, <1>2
  <1>6. (p - e) - 1 \in 1 .. L /\ Slots(g)[(p - e) - 1] = Slot(n) - 1
    BY <1>2, <1>3, <1>5, SlotsAreSorted
  <1> HIDE DEF L
  <1>7. /\ (p - e) - 1 = (p - 1) - e
        /\ e + ((p - 1) - e) = p - 1
        /\ p - 1 \in (e + 1) .. f
    BY <1>1, <1>2, <1>6
  <1>8. Staged(g)[p - 1] = RecordIn(g.draft, Slot(n) - 1)
    BY <1>4, <1>6, <1>7
  <1>9. EvidenceAt(g, p - 1, n)
    <2>1. p - 1 \in (SourcesEnd(g) + 1) .. SlotsEnd(g)
      BY <1>7 DEF e, f
    <2>2. Slots(g)[(p - 1) - SourcesEnd(g)] = Slot(n) - 1
      BY <1>6, <1>7 DEF e
    <2>3. QED
      BY <1>2, <1>3, <1>8, <2>1, <2>2 DEF EvidenceAt
  <1>10. QED
    BY <1>7, <1>9 DEF e, f

\* Positions follow the order of the actions.
LEMMA StatementsAreInOrder ==
  ASSUME NEW g, Ready(g),
         NEW m \in 1 .. Len(g.draft.actions), NEW n \in 1 .. Len(g.draft.actions),
         NEW p, NEW q,
         StatementAt(g, p, m) \/ EvidenceAt(g, p, m),
         StatementAt(g, q, n) \/ EvidenceAt(g, q, n)
  PROVE  /\ p \in Nat /\ q \in Nat
         /\ m < n => p < q
         /\ StatementAt(g, p, m) /\ StatementAt(g, q, n) => (p = q <=> m = n)
         /\ EvidenceAt(g, p, m) /\ EvidenceAt(g, q, n) => (p = q <=> m = n)
         /\ EvidenceAt(g, p, m) /\ StatementAt(g, q, n) => p # q
  <1> DEFINE e == SourcesEnd(g)
             f == SlotsEnd(g)
             L == Len(Slots(g))
             s == Slots(g)[p - e]
             t == Slots(g)[q - e]
  <1>1. e \in Nat /\ L \in Nat /\ f = e + L
    BY Bounds, StagedLayout DEF SlotsEnd
  <1>2. /\ p \in (e + 1) .. f
        /\ q \in (e + 1) .. f
        /\ StatementAt(g, p, m) => s = 2 * m
        /\ EvidenceAt(g, p, m) => s = 2 * m - 1
        /\ StatementAt(g, q, n) => t = 2 * n
        /\ EvidenceAt(g, q, n) => t = 2 * n - 1
    BY DEF StatementAt, EvidenceAt, Slot
  <1>3. m \in Nat /\ n \in Nat
    BY ReadyFacts
  <1> HIDE DEF e, f
  <1>4. p - e \in 1 .. L /\ q - e \in 1 .. L
    BY <1>1, <1>2
  <1>5. /\ p - e < q - e => s < t
        /\ q - e < p - e => t < s
    BY <1>4, SlotsAreSorted
  <1>6. p - e = q - e => s = t
    OBVIOUS
  <1> HIDE DEF s, t, L
  <1>7. p \in Nat /\ q \in Nat
    BY <1>1, <1>2
  <1>8. s \in Nat /\ t \in Nat
    BY <1>2, <1>3
  <1>9. (s < t => p < q) /\ (s = t => p = q) /\ (p = q => s = t)
    BY <1>1, <1>5, <1>6, <1>7, <1>8
  <1>10. m < n => s < t
    BY <1>2, <1>3
  <1>11. StatementAt(g, p, m) /\ StatementAt(g, q, n) => (s = t <=> m = n)
    BY <1>2, <1>3
  <1>12. EvidenceAt(g, p, m) /\ EvidenceAt(g, q, n) => (s = t <=> m = n)
    BY <1>2, <1>3
  <1>13. EvidenceAt(g, p, m) /\ StatementAt(g, q, n) => s # t
    BY <1>2, <1>3
  <1>14. QED
    BY <1>7, <1>9, <1>10, <1>11, <1>12, <1>13

-----------------------------------------------------------------------------
(***************************************************************************)
(* What each position of the staged journal holds, and that every one has  *)
(* an identifier of its kind that is new and its own.                      *)
(***************************************************************************)

\* The identifiers that an action takes.
LEMMA IdsOfAction ==
  ASSUME NEW a
  PROVE  /\ a.id \in ActionIds(a)
         /\ a.kind # "source" /\ a.span # None => a.span \in ActionIds(a)
         /\ a.kind = "assertion-add" => a.assertion \in ActionIds(a)
  BY DEF ActionIds

\* A source of the draft is one of its actions.
LEMMA SourcesAreActions ==
  ASSUME NEW g, Ready(g), NEW a \in SourceSet(g.draft)
  PROVE  \E i \in 1 .. Len(g.draft.actions) :
            g.draft.actions[i] = a /\ a.kind = "source"
  <1>1. DOMAIN g.draft.actions = 1 .. Len(g.draft.actions)
    BY ReadyFacts
  <1>2. QED
    BY <1>1 DEF SourceSet, ToSet

\* What each position holds, by its kind.
LEMMA OpeningRecord ==
  ASSUME NEW g, Ready(g)
  PROVE  LET r == Staged(g)[OpensAt(g)]
         IN  /\ r.kind = "HorizonOpened"
             /\ r.id = g.draft.id
             /\ r.horizon = g.draft.id
             /\ r.name = g.draft.name
  <1>1. Staged(g)[OpensAt(g)] = BoundaryRecord("HorizonOpened", g.draft.id, g.draft)
    BY StagedLayout
  <1>2. QED
    BY <1>1 DEF BoundaryRecord

\* The last record closes the horizon.
LEMMA ClosingRecord ==
  ASSUME NEW g, Ready(g)
  PROVE  LET r == Staged(g)[EndsAt(g)]
         IN  /\ r.kind = "HorizonClosed"
             /\ r.id = CloseId(g)
             /\ r.horizon = g.draft.id
             /\ r.name = g.draft.name
  <1>1. Staged(g)[EndsAt(g)] = BoundaryRecord("HorizonClosed", CloseId(g), g.draft)
    BY StagedLayout DEF EndsAt
  <1>2. QED
    BY <1>1 DEF BoundaryRecord

\* A source record is its action.
LEMMA SourceRecordAt ==
  ASSUME NEW g, NEW p, NEW a, SourceAt(g, p, a)
  PROVE  LET r == Staged(g)[p]
         IN  /\ r.kind = "SourceSnapshot"
             /\ r.id = a.id
             /\ r.horizon = g.draft.id
             /\ r.alias = a.alias
             /\ r.path = a.path
             /\ r.content = a.content
             /\ r.identity = a.identity
  BY DEF SourceAt, SourceRecord

\* An evidence record names the source that its action cites.
LEMMA EvidenceRecordAt ==
  ASSUME NEW g, NEW p, NEW n, EvidenceAt(g, p, n)
  PROVE  LET r == Staged(g)[p]
             a == g.draft.actions[n]
         IN  /\ r.kind = "EvidenceSpan"
             /\ r.id = a.span
             /\ r.source = SourceByAlias(g.draft, a.source).id
  BY DEF EvidenceAt, EvidenceRecord

\* A statement is the revision or the question of its action.
LEMMA StatementRecordAt ==
  ASSUME NEW g, Ready(g), NEW p, NEW n, StatementAt(g, p, n)
  PROVE  LET r == Staged(g)[p]
             a == g.draft.actions[n]
         IN  /\ n \in 1 .. Len(g.draft.actions)
             /\ r.id = a.id
             /\ r.horizon = g.draft.id
             /\ r.alias = a.alias
             /\ r.span = a.span
             /\ \/ a.kind = "question" /\ r.kind = "QuestionOpened"
                \/ /\ a.kind \in { "assertion-add", "assertion-revise" }
                   /\ r.kind = "AssertionRevision"
                   /\ r.assertion = a.assertion
                   /\ r.predecessor = IF a.kind = "assertion-revise"
                                      THEN a.predecessor ELSE None
  <1> DEFINE r == Staged(g)[p]
             a == g.draft.actions[n]
  <1>1. /\ n \in 1 .. Len(g.draft.actions)
        /\ a.kind # "source"
        /\ r = Statement(g.draft, a)
    BY DEF StatementAt, Recorded
  <1>2. a.kind \in { "source", "assertion-add", "assertion-revise", "question" }
    BY <1>1, ActionIsValid
  <1>3. CASE a.kind = "question"
    <2>1. r = QuestionRecord(g.draft, a)
      BY <1>1, <1>3 DEF Statement
    <2>2. QED
      BY <1>1, <1>3, <2>1 DEF QuestionRecord
  <1>4. CASE a.kind # "question"
    <2>1. r = RevisionRecord(g.draft, a)
      BY <1>1, <1>4 DEF Statement
    <2>2. QED
      BY <1>1, <1>2, <1>4, <2>1 DEF RevisionRecord
  <1>5. QED
    BY <1>3, <1>4

\* The prefix of the identifiers of each kind.
LEMMA PrefixOfKinds ==
  /\ DOMAIN PrefixOf = { "WorkspaceInitialized", "HorizonOpened", "SourceSnapshot",
                         "EvidenceSpan", "AssertionRevision", "QuestionOpened",
                         "HorizonClosed" }
  /\ PrefixOf["HorizonOpened"] = "hor"
  /\ PrefixOf["SourceSnapshot"] = "src"
  /\ PrefixOf["EvidenceSpan"] = "evd"
  /\ PrefixOf["AssertionRevision"] = "rev"
  /\ PrefixOf["QuestionOpened"] = "qst"
  /\ PrefixOf["HorizonClosed"] = "cls"
  BY DEF PrefixOf

\* What makes a record with an identifier of its kind.
LEMMA DrawnWhen ==
  ASSUME NEW r, NEW id, NEW kind \in DOMAIN PrefixOf, NEW prefix, PrefixOf[kind] = prefix,
         kind # "AssertionRevision", r.kind = kind /\ r.id = id, id \in IdsWith(prefix)
  PROVE  DrawnRecord(r)
  BY DEF DrawnRecord

\* Every record of the staged journal has an identifier of its kind.
LEMMA StagedIsDrawn ==
  ASSUME NEW g, MayClose(g), NEW p \in 1 .. Len(Staged(g))
  PROVE  DrawnRecord(Staged(g)[p])
  <1> DEFINE r == Staged(g)[p]
             A == g.draft.actions
  <1>1. Ready(g) /\ Drawn(g) /\ CloseId(g) \in IdsWith("cls")
    BY DEF MayClose
  <1>2. CASE p \in 1 .. Len(g.records)
    <2>1. r = g.records[p]
      BY <1>1, <1>2, StagedLayout DEF Extends
    <2>2. QED
      BY <1>1, <1>2, <2>1, ReadyFacts, DrawnFacts
  <1>3. CASE p = OpensAt(g)
    <2>1. r.kind = "HorizonOpened" /\ r.id = g.draft.id
      BY <1>1, <1>3, OpeningRecord
    <2>2. g.draft.id \in IdsWith("hor")
      BY <1>1 DEF Drawn, Ready
    <2>3. QED
      BY <2>1, <2>2, PrefixOfKinds, DrawnWhen
  <1>4. ASSUME NEW a \in SourceSet(g.draft), SourceAt(g, p, a)
        PROVE  DrawnRecord(r)
    <2>1. r.kind = "SourceSnapshot" /\ r.id = a.id
      BY <1>4, SourceRecordAt
    <2>2. PICK i \in 1 .. Len(A) : A[i] = a /\ a.kind = "source"
      BY <1>1, SourcesAreActions
    <2>3. DrawnAction(a)
      BY <1>1, <2>2, ReadyFacts, DrawnFacts
    <2>4. a.id \in IdsWith("src")
      BY <2>2, <2>3 DEF DrawnAction
    <2> HIDE DEF r
    <2>5. QED
      BY <2>1, <2>4, PrefixOfKinds DEF DrawnRecord
  <1>5. ASSUME NEW n \in 1 .. Len(A), EvidenceAt(g, p, n)
        PROVE  DrawnRecord(r)
    <2>1. r.kind = "EvidenceSpan" /\ r.id = A[n].span
      BY <1>5, EvidenceRecordAt
    <2>2. DrawnAction(A[n]) /\ A[n].kind # "source" /\ A[n].span # None
      BY <1>1, <1>5, ReadyFacts, DrawnFacts DEF EvidenceAt, Recorded
    <2>3. A[n].span \in IdsWith("evd")
      BY <2>2 DEF DrawnAction
    <2> HIDE DEF r
    <2>4. QED
      BY <2>1, <2>3, PrefixOfKinds DEF DrawnRecord
  <1>6. ASSUME NEW n \in 1 .. Len(A), StatementAt(g, p, n)
        PROVE  DrawnRecord(r)
    <2> DEFINE a == A[n]
    <2>1. /\ r.id = a.id
          /\ \/ a.kind = "question" /\ r.kind = "QuestionOpened"
             \/ /\ a.kind \in { "assertion-add", "assertion-revise" }
                /\ r.kind = "AssertionRevision"
                /\ r.assertion = a.assertion
      BY <1>1, <1>6, StatementRecordAt
    <2>2. DrawnAction(a)
      BY <1>1, ReadyFacts, DrawnFacts
    <2> HIDE DEF r, a
    <2>3. QED
      BY <2>1, <2>2, PrefixOfKinds DEF DrawnAction, DrawnRecord
  <1>7. CASE p = EndsAt(g)
    <2>1. r.kind = "HorizonClosed" /\ r.id = CloseId(g)
      BY <1>1, <1>7, ClosingRecord
    <2>2. QED
      BY <1>1, <2>1, PrefixOfKinds, DrawnWhen
  <1>8. QED
    BY <1>1, <1>2, <1>3, <1>4, <1>5, <1>6, <1>7, StagedPositions

\* The identifiers a close adds are not in the journal.
LEMMA AddedIdsAreNew ==
  ASSUME NEW g, MayClose(g), NEW p \in OpensAt(g) .. EndsAt(g)
  PROVE  Staged(g)[p].id \notin JournalIds(g.records)
  <1> DEFINE r == Staged(g)[p]
             A == g.draft.actions
             J == JournalIds(g.records)
  <1>1. Ready(g) /\ Drawn(g) /\ CloseId(g) \notin AllTakenIds(g)
    BY DEF MayClose
  <1>2. /\ p \in 1 .. Len(Staged(g))
        /\ p \notin 1 .. Len(g.records)
    BY <1>1, Bounds
  <1>3. ASSUME NEW n \in 1 .. Len(A), NEW x \in ActionIds(A[n])
        PROVE  x \notin J
    <2>1. ActionIds(A[n]) \cap J = {}
      BY <1>1, ActionIsValid
    <2>2. QED
      BY <1>3, <2>1
  <1>4. CASE p = OpensAt(g)
    BY <1>1, <1>4, OpeningRecord DEF Drawn, Ready
  <1>5. ASSUME NEW a \in SourceSet(g.draft), SourceAt(g, p, a)
        PROVE  r.id \notin J
    <2>1. r.id = a.id
      BY <1>5, SourceRecordAt
    <2>2. PICK i \in 1 .. Len(A) : A[i] = a
      BY <1>1, SourcesAreActions
    <2>3. QED
      BY <1>3, <2>1, <2>2, IdsOfAction
  <1>6. ASSUME NEW n \in 1 .. Len(A), EvidenceAt(g, p, n)
        PROVE  r.id \notin J
    <2>1. r.id = A[n].span
      BY <1>6, EvidenceRecordAt
    <2>2. A[n].kind # "source" /\ A[n].span # None
      BY <1>6 DEF EvidenceAt, Recorded
    <2>3. A[n].span \in ActionIds(A[n])
      BY <2>2, IdsOfAction
    <2>4. QED
      BY <1>3, <2>1, <2>3
  <1>7. ASSUME NEW n \in 1 .. Len(A), StatementAt(g, p, n)
        PROVE  r.id \notin J
    <2>1. r.id = A[n].id
      BY <1>1, <1>7, StatementRecordAt
    <2>2. QED
      BY <1>3, <2>1, IdsOfAction
  <1>8. CASE p = EndsAt(g)
    BY <1>1, <1>8, ClosingRecord DEF AllTakenIds
  <1>9. QED
    BY <1>1, <1>2, <1>4, <1>5, <1>6, <1>7, <1>8, StagedPositions

\* Two records with one identifier have one kind.
LEMMA SameIdSameKind ==
  ASSUME NEW r, NEW s, DrawnRecord(r), DrawnRecord(s), r.id = s.id,
         r.kind # "WorkspaceInitialized", s.kind # "WorkspaceInitialized"
  PROVE  r.kind = s.kind
  <1>1. /\ r.id \in IdsWith(PrefixOf[r.kind])
        /\ s.id \in IdsWith(PrefixOf[s.kind])
        /\ r.kind \in DOMAIN PrefixOf /\ s.kind \in DOMAIN PrefixOf
    BY DEF DrawnRecord
  <1>2. PrefixOf[r.kind] = PrefixOf[s.kind]
    BY <1>1, PrefixesDiffer
  <1>3. QED
    BY <1>1, <1>2 DEF PrefixOf

\* The records a close adds have different identifiers.
LEMMA AddedIdsDiffer ==
  ASSUME NEW g, MayClose(g),
         NEW p \in OpensAt(g) .. EndsAt(g), NEW q \in OpensAt(g) .. EndsAt(g),
         p < q, Staged(g)[p].id = Staged(g)[q].id
  PROVE  FALSE
  <1> DEFINE r == Staged(g)[p]
             s == Staged(g)[q]
             A == g.draft.actions
  <1>1. Ready(g) /\ Drawn(g)
    BY DEF MayClose
  <1>2. /\ p \in 1 .. Len(Staged(g)) /\ q \in 1 .. Len(Staged(g))
        /\ p \notin 1 .. Len(g.records) /\ q \notin 1 .. Len(g.records)
        /\ q # OpensAt(g) /\ p # EndsAt(g)
        /\ p \in Nat /\ q \in Nat
    BY <1>1, Bounds
  <1>3. \/ q = EndsAt(g) /\ s.kind = "HorizonClosed"
        \/ \E a \in SourceSet(g.draft) : SourceAt(g, q, a) /\ s.kind = "SourceSnapshot"
        \/ \E n \in 1 .. Len(A) : EvidenceAt(g, q, n) /\ s.kind = "EvidenceSpan"
        \/ \E n \in 1 .. Len(A) : StatementAt(g, q, n)
             /\ s.kind \in { "QuestionOpened", "AssertionRevision" }
    <2>1. q = EndsAt(g) => s.kind = "HorizonClosed"
      BY <1>1, ClosingRecord
    <2>2. \A a : SourceAt(g, q, a) => s.kind = "SourceSnapshot"
      BY SourceRecordAt
    <2>3. \A n : EvidenceAt(g, q, n) => s.kind = "EvidenceSpan"
      BY EvidenceRecordAt
    <2>4. \A n : StatementAt(g, q, n) =>
                   s.kind \in { "QuestionOpened", "AssertionRevision" }
      BY <1>1, StatementRecordAt
    <2>5. QED
      BY <1>1, <1>2, <2>1, <2>2, <2>3, <2>4, StagedPositions
  <1>4. \/ p = OpensAt(g) /\ r.kind = "HorizonOpened"
        \/ \E a \in SourceSet(g.draft) : SourceAt(g, p, a) /\ r.kind = "SourceSnapshot"
        \/ \E n \in 1 .. Len(A) : EvidenceAt(g, p, n) /\ r.kind = "EvidenceSpan"
        \/ \E n \in 1 .. Len(A) : StatementAt(g, p, n)
             /\ r.kind \in { "QuestionOpened", "AssertionRevision" }
    <2>1. p = OpensAt(g) => r.kind = "HorizonOpened"
      BY <1>1, OpeningRecord
    <2>2. \A a : SourceAt(g, p, a) => r.kind = "SourceSnapshot"
      BY SourceRecordAt
    <2>3. \A n : EvidenceAt(g, p, n) => r.kind = "EvidenceSpan"
      BY EvidenceRecordAt
    <2>4. \A n : StatementAt(g, p, n) =>
                   r.kind \in { "QuestionOpened", "AssertionRevision" }
      BY <1>1, StatementRecordAt
    <2>5. QED
      BY <1>1, <1>2, <2>1, <2>2, <2>3, <2>4, StagedPositions
  <1>5. DrawnRecord(r) /\ DrawnRecord(s) /\ r.id = s.id
    BY <1>2, StagedIsDrawn
  <1> HIDE DEF r, s
  <1>6. r.kind = s.kind
    <2>1. r.kind # "WorkspaceInitialized" /\ s.kind # "WorkspaceInitialized"
      BY <1>3, <1>4
    <2>2. QED
      BY <1>5, <2>1, SameIdSameKind
  <1>7. ASSUME NEW a \in SourceSet(g.draft), NEW b \in SourceSet(g.draft),
               SourceAt(g, p, a), SourceAt(g, q, b)
        PROVE  FALSE
    <2>1. /\ p \in (OpensAt(g) + 1) .. SourcesEnd(g)
          /\ q \in (OpensAt(g) + 1) .. SourcesEnd(g)
      BY <1>7 DEF SourceAt
    <2>2. PICK c \in SourceSet(g.draft), d \in SourceSet(g.draft) :
             SourceAt(g, p, c) /\ SourceAt(g, q, d) /\ c.path < d.path
      BY <1>1, <2>1, SourcesArePlaced
    <2>3. c.id = d.id
      BY <1>5, <2>2, SourceRecordAt DEF r, s
    <2>4. PICK i \in 1 .. Len(A), j \in 1 .. Len(A) : A[i] = c /\ A[j] = d
      BY <1>1, SourcesAreActions
    <2>5. c.id \in ActionIds(A[i]) /\ c.id \in ActionIds(A[j])
      BY <2>3, <2>4, IdsOfAction
    <2>6. i = j
      BY <1>1, <2>5, ActionsAreApart
    <2>7. c = d /\ c.path \in Nat
      BY <1>1, <2>4, <2>6, SortedSourcesAreSorted
    <2>8. QED
      BY <2>2, <2>7
  <1>8. ASSUME NEW m \in 1 .. Len(A), NEW n \in 1 .. Len(A),
               EvidenceAt(g, p, m), EvidenceAt(g, q, n)
        PROVE  FALSE
    <2>1. A[m].span = A[n].span
      BY <1>5, <1>8, EvidenceRecordAt DEF r, s
    <2>2. /\ A[m].kind # "source" /\ A[m].span # None
          /\ A[n].kind # "source" /\ A[n].span # None
      BY <1>8 DEF EvidenceAt, Recorded
    <2>3. A[m].span \in ActionIds(A[m]) /\ A[m].span \in ActionIds(A[n])
      BY <2>1, <2>2, IdsOfAction
    <2>4. m = n
      BY <1>1, <2>3, ActionsAreApart
    <2>5. p = q
      BY <1>1, <1>8, <2>4, StatementsAreInOrder
    <2>6. QED
      BY <1>2, <2>5
  <1>9. ASSUME NEW m \in 1 .. Len(A), NEW n \in 1 .. Len(A),
               StatementAt(g, p, m), StatementAt(g, q, n)
        PROVE  FALSE
    <2>1. A[m].id = A[n].id
      BY <1>1, <1>5, <1>9, StatementRecordAt DEF r, s
    <2>2. A[m].id \in ActionIds(A[m]) /\ A[m].id \in ActionIds(A[n])
      BY <2>1, IdsOfAction
    <2>3. m = n
      BY <1>1, <2>2, ActionsAreApart
    <2>4. p = q
      BY <1>1, <1>9, <2>3, StatementsAreInOrder
    <2>5. QED
      BY <1>2, <2>4
  <1>10. QED
    BY <1>3, <1>4, <1>6, <1>7, <1>8, <1>9

\* So every record of the staged journal has an identifier not used before.
LEMMA StagedIdsAreFresh ==
  ASSUME NEW g, MayClose(g), NEW p \in OpensAt(g) .. EndsAt(g)
  PROVE  Staged(g)[p].id \notin JournalIds(SubSeq(Staged(g), 1, p - 1))
  <1> DEFINE all == Staged(g)
  <1>1. Ready(g) /\ Drawn(g)
    BY DEF MayClose
  <1>2. Extends(all, g.records) /\ IsSequence(all)
    BY <1>1, StagedLayout DEF Extends
  <1>3. /\ p \in 1 .. Len(all) /\ p - 1 \in 0 .. Len(all) /\ p \in Nat
        /\ OpensAt(g) \in Nat /\ EndsAt(g) \in Nat
        /\ Len(g.records) + 1 = OpensAt(g) /\ Len(all) = EndsAt(g)
        /\ Len(g.records) \in Nat
    BY <1>1, Bounds
  <1>4. SUFFICES ASSUME NEW j \in 1 .. p - 1,
                        \/ all[p].id = all[j].id
                        \/ /\ all[j].kind = "AssertionRevision"
                           /\ all[p].id = all[j].assertion
                 PROVE  FALSE
    BY <1>2, <1>3, IdsOfSegment
  <1>5. DrawnRecord(all[p]) /\ DrawnRecord(all[j])
    BY <1>3, StagedIsDrawn
  <1>6. CASE j \in 1 .. Len(g.records)
    <2>1. all[j] = g.records[j] /\ IsSequence(g.records)
      BY <1>2, <1>6 DEF Extends
    <2>2. all[p].id \in JournalIds(g.records)
      BY <1>4, <1>6, <2>1, IdsOfJournal
    <2>3. QED
      BY <2>2, AddedIdsAreNew
  <1>7. CASE j \notin 1 .. Len(g.records)
    <2>1. j \in OpensAt(g) .. EndsAt(g) /\ j < p
      BY <1>3, <1>7
    <2>2. all[p].id # all[j].id
      BY <2>1, AddedIdsDiffer
    <2>3. all[j].kind = "AssertionRevision" /\ all[p].id = all[j].assertion
      BY <1>4, <2>2
    <2>4. all[j].assertion \in IdsWith("ast")
      BY <1>5, <2>3 DEF DrawnRecord
    <2>5. all[p].kind # "WorkspaceInitialized"
      <3>1. p \notin 1 .. Len(g.records)
        BY <1>3
      <3>2. p = OpensAt(g) => all[p].kind = "HorizonOpened"
        BY <1>1, OpeningRecord
      <3>3. \A a : SourceAt(g, p, a) => all[p].kind = "SourceSnapshot"
        BY SourceRecordAt
      <3>4. \A n : EvidenceAt(g, p, n) => all[p].kind = "EvidenceSpan"
        BY EvidenceRecordAt
      <3>5. \A n : StatementAt(g, p, n) =>
                     all[p].kind \in { "QuestionOpened", "AssertionRevision" }
        BY <1>1, StatementRecordAt
      <3>6. p = EndsAt(g) => all[p].kind = "HorizonClosed"
        BY <1>1, ClosingRecord
      <3>7. QED
        BY <1>1, <1>3, <3>1, <3>2, <3>3, <3>4, <3>5, <3>6, StagedPositions
    <2>6. all[p].id \in IdsWith(PrefixOf[all[p].kind])
          /\ all[p].kind \in DOMAIN PrefixOf
      BY <1>5, <2>5 DEF DrawnRecord
    <2> HIDE DEF all
    <2>7. PrefixOf[all[p].kind] # "ast"
      BY <2>6 DEF PrefixOf
    <2>8. QED
      BY <2>3, <2>4, <2>6, <2>7, PrefixesDiffer
  <1>8. QED
    BY <1>6, <1>7

-----------------------------------------------------------------------------
(***************************************************************************)
(* The records that a close adds, other than revisions, pass the verifier. *)
(***************************************************************************)

\* What a close adds, record by record.
LEMMA AddedRecords ==
  ASSUME NEW g, Ready(g), NEW p \in OpensAt(g) .. EndsAt(g)
  PROVE  LET r == Staged(g)[p]
         IN  \/ p = OpensAt(g) /\ r.kind = "HorizonOpened"
             \/ \E a \in SourceSet(g.draft) :
                   SourceAt(g, p, a) /\ r.kind = "SourceSnapshot"
             \/ \E n \in 1 .. Len(g.draft.actions) :
                   EvidenceAt(g, p, n) /\ r.kind = "EvidenceSpan"
             \/ \E n \in 1 .. Len(g.draft.actions) :
                   /\ StatementAt(g, p, n)
                   /\ r.kind \in { "QuestionOpened", "AssertionRevision" }
             \/ p = EndsAt(g) /\ r.kind = "HorizonClosed"
  <1>1. p \in 1 .. Len(Staged(g)) /\ p \notin 1 .. Len(g.records)
    BY Bounds
  <1>2. /\ p = OpensAt(g) => Staged(g)[p].kind = "HorizonOpened"
        /\ p = EndsAt(g) => Staged(g)[p].kind = "HorizonClosed"
    BY OpeningRecord, ClosingRecord
  <1>3. \A a : SourceAt(g, p, a) => Staged(g)[p].kind = "SourceSnapshot"
    BY SourceRecordAt
  <1>4. \A n : EvidenceAt(g, p, n) => Staged(g)[p].kind = "EvidenceSpan"
    BY EvidenceRecordAt
  <1>5. \A n : StatementAt(g, p, n) =>
                 Staged(g)[p].kind \in { "QuestionOpened", "AssertionRevision" }
    BY StatementRecordAt
  <1>6. QED
    BY <1>1, <1>2, <1>3, <1>4, <1>5, StagedPositions

\* The same by kind.
LEMMA AddedByKind ==
  ASSUME NEW g, Ready(g), NEW p \in OpensAt(g) .. EndsAt(g)
  PROVE  LET r == Staged(g)[p]
         IN  /\ r.kind # "WorkspaceInitialized"
             /\ r.kind = "HorizonOpened" <=> p = OpensAt(g)
             /\ r.kind = "HorizonClosed" <=> p = EndsAt(g)
             /\ r.kind = "SourceSnapshot" <=> p \in (OpensAt(g) + 1) .. SourcesEnd(g)
             /\ r.kind = "SourceSnapshot" =>
                  \E a \in SourceSet(g.draft) : SourceAt(g, p, a)
             /\ r.kind = "EvidenceSpan" =>
                  \E n \in 1 .. Len(g.draft.actions) : EvidenceAt(g, p, n)
             /\ r.kind \in { "QuestionOpened", "AssertionRevision" } =>
                  \E n \in 1 .. Len(g.draft.actions) : StatementAt(g, p, n)
             /\ r.kind \in { "EvidenceSpan", "QuestionOpened", "AssertionRevision" } =>
                  p \in (SourcesEnd(g) + 1) .. SlotsEnd(g)
  <1>1. /\ \A a : SourceAt(g, p, a) => p \in (OpensAt(g) + 1) .. SourcesEnd(g)
        /\ \A n : EvidenceAt(g, p, n) => p \in (SourcesEnd(g) + 1) .. SlotsEnd(g)
        /\ \A n : StatementAt(g, p, n) => p \in (SourcesEnd(g) + 1) .. SlotsEnd(g)
    BY DEF SourceAt, EvidenceAt, StatementAt
  <1>2. /\ OpensAt(g) \in Nat /\ SourcesEnd(g) \in Nat /\ SlotsEnd(g) \in Nat
        /\ OpensAt(g) <= SourcesEnd(g) /\ SourcesEnd(g) <= SlotsEnd(g)
        /\ EndsAt(g) = SlotsEnd(g) + 1 /\ p \in Nat
    BY Bounds
  <1> DEFINE r == Staged(g)[p]
  <1>3. CASE p = OpensAt(g) /\ r.kind = "HorizonOpened"
    BY <1>2, <1>3
  <1>4. CASE \E a \in SourceSet(g.draft) :
                SourceAt(g, p, a) /\ r.kind = "SourceSnapshot"
    BY <1>1, <1>2, <1>4
  <1>5. CASE \E n \in 1 .. Len(g.draft.actions) :
                EvidenceAt(g, p, n) /\ r.kind = "EvidenceSpan"
    BY <1>1, <1>2, <1>5
  <1>6. CASE \E n \in 1 .. Len(g.draft.actions) :
                /\ StatementAt(g, p, n)
                /\ r.kind \in { "QuestionOpened", "AssertionRevision" }
    BY <1>1, <1>2, <1>6
  <1>7. CASE p = EndsAt(g) /\ r.kind = "HorizonClosed"
    BY <1>2, <1>7
  <1>8. QED
    BY <1>3, <1>4, <1>5, <1>6, <1>7, AddedRecords

\* No horizon is open before what a close adds, nor after it; in between the
\* one that is being closed.
LEMMA OpeningOfAdded ==
  ASSUME NEW g, Ready(g)
  PROVE  /\ OpeningAt(Staged(g), OpensAt(g)) = 0
         /\ \A p \in (OpensAt(g) + 1) .. EndsAt(g) :
               OpeningAt(Staged(g), p) = OpensAt(g)
         /\ OpeningAt(Staged(g), EndsAt(g) + 1) = 0
  <1> DEFINE all == Staged(g)
  <1>1. Extends(all, g.records) /\ IsSequence(all)
    BY StagedLayout DEF Extends
  <1>2. /\ OpensAt(g) \in Nat /\ SourcesEnd(g) \in Nat /\ SlotsEnd(g) \in Nat
        /\ OpensAt(g) <= SourcesEnd(g) /\ SourcesEnd(g) <= SlotsEnd(g)
        /\ 1 <= OpensAt(g) /\ EndsAt(g) \in Nat
        /\ EndsAt(g) = SlotsEnd(g) + 1 /\ Len(all) = EndsAt(g)
        /\ Len(g.records) \in Nat /\ OpensAt(g) = Len(g.records) + 1
    BY Bounds
  <1>3. OpeningAt(all, OpensAt(g)) = 0
    <2>1. OpeningAt(g.records, Len(g.records) + 1) = 0
      BY DEF Ready, Verified, VerifyCanonical, VerifiedRecords
    <2>2. OpensAt(g) \in 1 .. Len(g.records) + 1
      BY <1>2
    <2>3. OpeningAt(all, OpensAt(g)) = OpeningAt(g.records, OpensAt(g))
      BY <1>1, <2>2, SameOpening
    <2>4. QED
      BY <1>2, <2>1, <2>3
  <1>4. ASSUME NEW p \in (OpensAt(g) + 1) .. EndsAt(g)
        PROVE  OpeningAt(all, p) = OpensAt(g)
    <2>1. p \in 1 .. Len(all) + 1 /\ OpensAt(g) \in 1 .. p - 1
      BY <1>2
    <2>2. all[OpensAt(g)].kind = "HorizonOpened"
      BY OpeningRecord
    <2>3. ASSUME NEW j \in (OpensAt(g) + 1) .. (p - 1)
          PROVE  all[j].kind \notin Boundaries
      <3>1. j \in OpensAt(g) .. EndsAt(g) /\ j # OpensAt(g) /\ j # EndsAt(g)
        BY <1>2
      <3>2. QED
        BY <3>1, AddedByKind DEF Boundaries
    <2>4. QED
      BY <1>1, <2>1, <2>2, <2>3, OpeningIs
  <1>5. OpeningAt(all, EndsAt(g) + 1) = 0
    <2> DEFINE e == EndsAt(g) + 1
               o == OpeningAt(all, e)
    <2>1. e \in 1 .. Len(all) + 1 /\ e - 1 = EndsAt(g)
      BY <1>2
    <2> HIDE DEF e
    <2>2. SUFFICES ASSUME o # 0
                   PROVE  FALSE
      BY DEF e
    <2>3. /\ o \in 0 .. e - 1
          /\ all[o].kind = "HorizonOpened"
          /\ \A j \in (o + 1) .. (e - 1) : all[j].kind \notin Boundaries
      BY <1>1, <2>1, <2>2, OpeningIsLast
    <2>4. all[EndsAt(g)].kind = "HorizonClosed"
      BY ClosingRecord
    <2> HIDE DEF o, all
    <2>5. o # EndsAt(g)
      BY <2>3, <2>4
    <2>6. EndsAt(g) \in (o + 1) .. (e - 1)
      BY <1>2, <2>1, <2>3, <2>5
    <2>7. QED
      BY <2>3, <2>4, <2>6 DEF Boundaries
  <1>6. QED
    BY <1>3, <1>4, <1>5

\* A record between the boundaries is in the horizon being closed.
LEMMA AddedIsInHorizon ==
  ASSUME NEW g, Ready(g), NEW p \in (OpensAt(g) + 1) .. EndsAt(g),
         Staged(g)[p].horizon = g.draft.id
  PROVE  InOpenHorizon(Staged(g), p)
  <1>1. OpeningAt(Staged(g), p) = OpensAt(g)
    BY OpeningOfAdded
  <1>2. OpensAt(g) # 0
    BY Bounds
  <1>3. Staged(g)[OpensAt(g)].id = g.draft.id
    BY OpeningRecord
  <1>4. QED
    BY <1>1, <1>2, <1>3 DEF InOpenHorizon

\* The positions of the staged journal.
LEMMA StagedDomain ==
  ASSUME NEW g, Ready(g)
  PROVE  /\ IsSequence(Staged(g))
         /\ DOMAIN Staged(g) = 1 .. EndsAt(g)
         /\ \A j \in 1 .. Len(g.records) : Staged(g)[j] = g.records[j]
         /\ \A j \in 1 .. EndsAt(g) :
               j \in 1 .. Len(g.records) \/ j \in OpensAt(g) .. EndsAt(g)
  <1>1. Extends(Staged(g), g.records) /\ IsSequence(Staged(g))
    BY StagedLayout DEF Extends
  <1>2. Len(Staged(g)) = EndsAt(g)
    BY Bounds
  <1>3. DOMAIN Staged(g) = 1 .. Len(Staged(g))
    BY <1>1, SequenceFacts
  <1>4. \A j \in 1 .. EndsAt(g) : j \in 1 .. Len(g.records) \/ j \in OpensAt(g) .. EndsAt(g)
    BY Bounds
  <1>5. QED
    BY <1>1, <1>2, <1>3, <1>4 DEF Extends

\* The opening record passes the verifier.
LEMMA StagedOpening ==
  ASSUME NEW g, Ready(g)
  PROVE  GoodOpening(Staged(g), OpensAt(g))
  <1> DEFINE all == Staged(g)
  <1>1. /\ all[OpensAt(g)].horizon = all[OpensAt(g)].id
        /\ all[OpensAt(g)].name = g.draft.name
    BY OpeningRecord
  <1>2. ASSUME NEW j \in Positions(all, "HorizonOpened"), j < OpensAt(g)
        PROVE  all[j].name # all[OpensAt(g)].name
    <2>1. j \in 1 .. EndsAt(g) /\ all[j].kind = "HorizonOpened"
      BY StagedDomain DEF Positions
    <2>2. j \in 1 .. Len(g.records)
      BY <1>2, <2>1, Bounds
    <2>3. all[j] = g.records[j] /\ g.records[j].kind = "HorizonOpened"
      BY <2>1, <2>2, StagedDomain
    <2>4. j \in Positions(g.records, "HorizonOpened")
      BY <2>2, <2>3, ReadyFacts DEF Positions
    <2>5. g.records[j].name \in ClosedNames(g.horizons)
      BY <2>4, OpenedNamesAreClosed DEF Ready
    <2>6. g.draft.name \notin ClosedNames(g.horizons)
      BY DEF Ready, Verified, ValidDraft
    <2>7. QED
      BY <1>1, <2>3, <2>5, <2>6
  <1>3. OpeningAt(all, OpensAt(g)) = 0
    BY OpeningOfAdded
  <1>4. QED
    BY <1>1, <1>2, <1>3 DEF GoodOpening

\* A source a close adds comes after the sources of smaller paths, with an
\* alias nobody used.
LEMMA StagedSource ==
  ASSUME NEW g, Ready(g), NEW p \in (OpensAt(g) + 1) .. SourcesEnd(g)
  PROVE  GoodSource(Staged(g), p)
  <1> DEFINE all == Staged(g)
             A == g.draft.actions
  <1>1. /\ p \in OpensAt(g) .. EndsAt(g) /\ p \in (OpensAt(g) + 1) .. EndsAt(g)
        /\ p \in Nat /\ OpensAt(g) \in Nat /\ SourcesEnd(g) \in Nat
    BY Bounds
  <1>2. PICK a \in SourceSet(g.draft) : SourceAt(g, p, a)
    BY <1>1, AddedByKind
  <1>3. /\ all[p].horizon = g.draft.id /\ all[p].alias = a.alias
        /\ all[p].path = a.path /\ all[p].content = a.content
        /\ all[p].identity = a.identity
    BY <1>2, SourceRecordAt
  <1>4. InOpenHorizon(all, p)
    BY <1>1, <1>3, AddedIsInHorizon
  <1>5. OpeningAt(all, p) = OpensAt(g)
    BY <1>1, OpeningOfAdded
  <1>6. ASSUME NEW j \in (OpensAt(g) + 1) .. (p - 1)
        PROVE  /\ all[j].kind = "SourceSnapshot"
               /\ all[j].path < all[p].path
               /\ all[j].content # all[p].content
               /\ all[j].identity # all[p].identity
               /\ all[j].alias # all[p].alias
    <2>1. j \in (OpensAt(g) + 1) .. SourcesEnd(g) /\ j < p
      BY <1>1
    <2>2. PICK c \in SourceSet(g.draft), d \in SourceSet(g.draft) :
             SourceAt(g, j, c) /\ SourceAt(g, p, d) /\ c.path < d.path
      BY <2>1, SourcesArePlaced
    <2>3. c.path \in Nat /\ d.path \in Nat
      BY SortedSourcesAreSorted
    <2>4. c.path # d.path
      BY <2>2, <2>3
    <2>5. /\ c.content # d.content /\ c.identity # d.identity /\ c.alias # d.alias
      BY <2>4, SourcesAreApart
    <2>6. /\ all[j].kind = "SourceSnapshot" /\ all[j].path = c.path
          /\ all[j].content = c.content /\ all[j].identity = c.identity
          /\ all[j].alias = c.alias
      BY <2>2, SourceRecordAt
    <2>7. /\ all[p].path = d.path
          /\ all[p].content = d.content /\ all[p].identity = d.identity
          /\ all[p].alias = d.alias
      BY <2>2, SourceRecordAt
    <2>8. QED
      BY <2>2, <2>5, <2>6, <2>7
  <1>7. ASSUME NEW j \in Positions(all, "SourceSnapshot"), j < p
        PROVE  all[j].alias # all[p].alias
    <2>1. j \in 1 .. EndsAt(g) /\ all[j].kind = "SourceSnapshot"
      BY StagedDomain DEF Positions
    <2>2. CASE j \in 1 .. Len(g.records)
      <3>1. all[j] = g.records[j]
        BY <2>2, StagedDomain
      <3>2. j \in Positions(g.records, "SourceSnapshot")
        BY <2>1, <2>2, <3>1, ReadyFacts DEF Positions
      <3>3. g.records[j].alias \in JournalAliases(g.records, "SourceSnapshot")
        BY <3>2 DEF JournalAliases
      <3>4. PICK i \in 1 .. Len(A) : A[i] = a /\ a.kind = "source"
        BY SourcesAreActions
      <3>5. a.alias \notin JournalAliases(g.records, "SourceSnapshot")
        BY <3>4, ActionIsValid
      <3>6. QED
        BY <1>3, <3>1, <3>3, <3>5
    <2>3. CASE j \in OpensAt(g) .. EndsAt(g)
      <3>1. j \in (OpensAt(g) + 1) .. SourcesEnd(g)
        BY <2>1, <2>3, AddedByKind
      <3>2. j \in (OpensAt(g) + 1) .. (p - 1)
        BY <1>1, <1>7, <3>1
      <3>3. QED
        BY <1>6, <3>2
    <2>4. QED
      BY <2>1, <2>2, <2>3, StagedDomain
  <1>8. QED
    BY <1>4, <1>5, <1>6, <1>7 DEF GoodSource

\* The source an evidence record cites is among the captured ones.
LEMMA StagedEvidence ==
  ASSUME NEW g, Ready(g), NEW p, NEW n, EvidenceAt(g, p, n)
  PROVE  GoodEvidence(Staged(g), p)
  <1> DEFINE all == Staged(g)
             A == g.draft.actions
             a == A[n]
  <1>1. /\ p \in (SourcesEnd(g) + 1) .. SlotsEnd(g)
        /\ n \in 1 .. Len(A) /\ a.kind # "source" /\ a.span # None
    BY DEF EvidenceAt, Recorded
  <1>2. /\ OpensAt(g) \in Nat /\ SourcesEnd(g) \in Nat /\ SlotsEnd(g) \in Nat
        /\ OpensAt(g) <= SourcesEnd(g) /\ SourcesEnd(g) <= SlotsEnd(g)
        /\ EndsAt(g) = SlotsEnd(g) + 1 /\ OpensAt(g) # 0
    BY Bounds
  <1>3. p \in (OpensAt(g) + 1) .. EndsAt(g)
    BY <1>1, <1>2
  <1>4. PICK i \in 1 .. n - 1 : A[i].kind = "source" /\ A[i].alias = a.source
    BY <1>1, ActionIsValid
  <1>5. A[i] \in SourceSet(g.draft)
    <2>1. i \in DOMAIN A
      BY <1>1, ReadyFacts
    <2>2. QED
      BY <1>4, <2>1 DEF SourceSet, ToSet
  <1> DEFINE b == SourceByAlias(g.draft, a.source)
  <1>6. b \in SourceSet(g.draft)
    BY <1>4, <1>5 DEF SourceByAlias
  <1>7. PICK q \in (OpensAt(g) + 1) .. SourcesEnd(g) : SourceAt(g, q, b)
    BY <1>6, SourcesArePlaced
  <1>8. /\ all[q].kind = "SourceSnapshot" /\ all[q].id = b.id
        /\ all[q].horizon = g.draft.id
    BY <1>7, SourceRecordAt
  <1>9. all[p].source = b.id
    BY EvidenceRecordAt
  <1>10. q \in Positions(all, "SourceSnapshot") /\ q < p
    <2>1. q \in 1 .. EndsAt(g) /\ q < p
      BY <1>1, <1>2
    <2>2. QED
      BY <1>8, <2>1, StagedDomain DEF Positions
  <1>11. OpeningAt(all, p) = OpensAt(g)
    BY <1>3, OpeningOfAdded
  <1>12. all[OpensAt(g)].id = g.draft.id
    BY OpeningRecord
  <1>13. QED
    BY <1>2, <1>8, <1>9, <1>10, <1>11, <1>12 DEF GoodEvidence

\* A statement that cites evidence follows it.
LEMMA StagedFollowsEvidence ==
  ASSUME NEW g, Ready(g), NEW p, NEW n, StatementAt(g, p, n),
         g.draft.actions[n].span # None
  PROVE  FollowsItsEvidence(Staged(g), p)
  <1>1. n \in 1 .. Len(g.draft.actions)
    BY StatementRecordAt
  <1>2. p - 1 \in (SourcesEnd(g) + 1) .. SlotsEnd(g) /\ EvidenceAt(g, p - 1, n)
    BY <1>1, EvidenceIsPlaced
  <1>3. p \in (SourcesEnd(g) + 1) .. SlotsEnd(g)
    BY DEF StatementAt
  <1>4. p > 1
    BY <1>2, <1>3, Bounds
  <1>5. /\ Staged(g)[p - 1].kind = "EvidenceSpan"
        /\ Staged(g)[p - 1].id = g.draft.actions[n].span
    BY <1>2, EvidenceRecordAt
  <1>6. Staged(g)[p].span = g.draft.actions[n].span
    BY StatementRecordAt
  <1>7. QED
    BY <1>4, <1>5, <1>6 DEF FollowsItsEvidence

\* Statements are between the boundaries.
LEMMA StatementIsInHorizon ==
  ASSUME NEW g, Ready(g), NEW p, NEW n, StatementAt(g, p, n)
  PROVE  /\ p \in (OpensAt(g) + 1) .. EndsAt(g)
         /\ p \in OpensAt(g) .. EndsAt(g)
         /\ InOpenHorizon(Staged(g), p)
  <1>1. p \in (SourcesEnd(g) + 1) .. SlotsEnd(g)
    BY DEF StatementAt
  <1>2. p \in (OpensAt(g) + 1) .. EndsAt(g) /\ p \in OpensAt(g) .. EndsAt(g)
    BY <1>1, Bounds
  <1>3. Staged(g)[p].horizon = g.draft.id
    BY StatementRecordAt
  <1>4. QED
    BY <1>2, <1>3, AddedIsInHorizon

\* A question passes the verifier.
LEMMA StagedQuestion ==
  ASSUME NEW g, Ready(g), NEW p, NEW n, StatementAt(g, p, n),
         g.draft.actions[n].kind = "question"
  PROVE  GoodQuestion(Staged(g), p)
  <1> DEFINE all == Staged(g)
             A == g.draft.actions
  <1>1. /\ n \in 1 .. Len(A) /\ all[p].alias = A[n].alias /\ all[p].span = A[n].span
    BY StatementRecordAt
  <1>2. InOpenHorizon(all, p)
    BY StatementIsInHorizon
  <1>3. all[p].span # None => FollowsItsEvidence(all, p)
    BY <1>1, StagedFollowsEvidence
  <1>4. ASSUME NEW j \in Positions(all, "QuestionOpened"), j < p,
               all[j].alias = all[p].alias
        PROVE  FALSE
    <2>1. j \in 1 .. EndsAt(g) /\ all[j].kind = "QuestionOpened"
      BY StagedDomain DEF Positions
    <2>2. CASE j \in 1 .. Len(g.records)
      <3>1. all[j] = g.records[j]
        BY <2>2, StagedDomain
      <3>2. j \in Positions(g.records, "QuestionOpened")
        BY <2>1, <2>2, <3>1, ReadyFacts DEF Positions
      <3>3. g.records[j].alias \in JournalAliases(g.records, "QuestionOpened")
        BY <3>2 DEF JournalAliases
      <3>4. A[n].alias \notin JournalAliases(g.records, "QuestionOpened")
        BY <1>1, ActionIsValid
      <3>5. QED
        BY <1>1, <1>4, <3>1, <3>3, <3>4
    <2>3. CASE j \in OpensAt(g) .. EndsAt(g)
      <3>1. PICK m \in 1 .. Len(A) : StatementAt(g, j, m)
        BY <2>1, <2>3, AddedByKind
      <3>2. A[m].kind = "question" /\ all[j].alias = A[m].alias
        BY <2>1, <3>1, StatementRecordAt
      <3>3. m = n
        BY <1>1, <1>4, <3>2, QuestionsAreApart
      <3>4. j = p /\ j \in Nat /\ p \in Nat
        BY <1>1, <3>1, <3>3, StatementsAreInOrder
      <3>5. QED
        BY <1>4, <3>4
    <2>4. QED
      BY <2>1, <2>2, <2>3, StagedDomain
  <1>5. QED
    BY <1>2, <1>3, <1>4 DEF GoodQuestion

\* The closing record passes the verifier.
LEMMA StagedClosing ==
  ASSUME NEW g, MayClose(g)
  PROVE  GoodClosing(Staged(g), EndsAt(g))
  <1> DEFINE all == Staged(g)
  <1>1. Ready(g) /\ SourceSet(g.draft) # {}
    BY DEF MayClose
  <1>2. /\ OpensAt(g) \in Nat /\ SourcesEnd(g) \in Nat /\ SlotsEnd(g) \in Nat
        /\ OpensAt(g) <= SourcesEnd(g) /\ SourcesEnd(g) <= SlotsEnd(g)
        /\ EndsAt(g) = SlotsEnd(g) + 1 /\ EndsAt(g) \in (OpensAt(g) + 1) .. EndsAt(g)
    BY <1>1, Bounds
  <1>3. all[EndsAt(g)].horizon = g.draft.id /\ all[EndsAt(g)].name = g.draft.name
    BY <1>1, ClosingRecord
  <1>4. all[OpensAt(g)].name = g.draft.name
    BY <1>1, OpeningRecord
  <1>5. OpeningAt(all, EndsAt(g)) = OpensAt(g)
    BY <1>1, <1>2, OpeningOfAdded
  <1>6. InOpenHorizon(all, EndsAt(g))
    BY <1>1, <1>2, <1>3, AddedIsInHorizon
  <1>7. PICK a \in SourceSet(g.draft) : TRUE
    BY <1>1
  <1>8. PICK q \in (OpensAt(g) + 1) .. SourcesEnd(g) : SourceAt(g, q, a)
    BY <1>1, <1>7, SourcesArePlaced
  <1>9. all[q].kind = "SourceSnapshot"
    BY <1>8, SourceRecordAt
  <1>10. q \in 1 .. EndsAt(g) /\ OpensAt(g) < q /\ q < EndsAt(g)
    BY <1>2
  <1>11. q \in Positions(all, "SourceSnapshot")
    BY <1>1, <1>9, <1>10, StagedDomain DEF Positions
  <1>12. QED
    BY <1>3, <1>4, <1>5, <1>6, <1>10, <1>11 DEF GoodClosing

-----------------------------------------------------------------------------
(***************************************************************************)
(* So do revisions: what one revises is in the journal or is an earlier    *)
(* revision of the draft.                                                  *)
(***************************************************************************)

\* The kinds of action that make a revision.
Revising == { "assertion-add", "assertion-revise" }

\* An action about an assertion has identifiers of its own, none of them null.
LEMMA RevisingIsDrawn ==
  ASSUME NEW g, Ready(g), Drawn(g), NEW n \in 1 .. Len(g.draft.actions),
         g.draft.actions[n].kind \in Revising
  PROVE  LET a == g.draft.actions[n]
         IN  /\ a.id \in IdsWith("rev") /\ a.id # None
             /\ a.span \in IdsWith("evd") /\ a.span # None
             /\ a.assertion \in IdsWith("ast")
  <1> DEFINE a == g.draft.actions[n]
  <1>1. DrawnAction(a)
    BY ReadyFacts, DrawnFacts
  <1>2. /\ a.id \in IdsWith("rev") /\ a.span \in IdsWith("evd")
        /\ a.assertion \in IdsWith("ast")
    BY <1>1 DEF DrawnAction, Revising
  <1>3. "rev" \in Prefixes3 /\ "evd" \in Prefixes3
    BY DEF Prefixes3
  <1>4. QED
    BY <1>2, <1>3, IdsAreIds

\* The revision an action becomes.
LEMMA RevisionRecordAt ==
  ASSUME NEW g, Ready(g), NEW p, NEW n, StatementAt(g, p, n),
         Staged(g)[p].kind = "AssertionRevision"
  PROVE  LET r == Staged(g)[p]
             a == g.draft.actions[n]
         IN  /\ n \in 1 .. Len(g.draft.actions)
             /\ a.kind \in Revising
             /\ r.alias = a.alias /\ r.assertion = a.assertion /\ r.id = a.id
             /\ r.predecessor = IF a.kind = "assertion-revise"
                                THEN a.predecessor ELSE None
             /\ p \in Positions(Staged(g), "AssertionRevision")
  <1>1. p \in OpensAt(g) .. EndsAt(g)
    BY StatementIsInHorizon
  <1>2. p \in 1 .. EndsAt(g)
    BY <1>1, Bounds
  <1>3. p \in Positions(Staged(g), "AssertionRevision")
    BY <1>2, StagedDomain DEF Positions
  <1>4. QED
    BY <1>3, StatementRecordAt DEF Revising

\* The statements are in the order of the actions.
LEMMA StatementsAreOrdered ==
  ASSUME NEW g, Ready(g),
         NEW m \in 1 .. Len(g.draft.actions), NEW n \in 1 .. Len(g.draft.actions),
         NEW p, NEW q, StatementAt(g, p, m), StatementAt(g, q, n)
  PROVE  /\ p \in Nat /\ q \in Nat
         /\ m < n => p < q
         /\ n < m => q < p
         /\ m = n => p = q
         /\ p = q => m = n
  <1>1. p \in Nat /\ q \in Nat
    BY StatementsAreInOrder
  <1>2. m < n => p < q
    BY StatementsAreInOrder
  <1>3. m = n => p = q
    BY StatementsAreInOrder
  <1>4. n < m => q < p
    BY StatementsAreInOrder
  <1>5. m \in Int /\ n \in Int
    BY ReadyFacts
  <1>6. QED
    BY <1>1, <1>2, <1>3, <1>4, <1>5

\* Where an earlier action about an assertion ends up.
LEMMA EarlierActionIsPlaced ==
  ASSUME NEW g, Ready(g), NEW p, NEW n, StatementAt(g, p, n),
         NEW m \in 1 .. n - 1, g.draft.actions[m].kind \in Revising
  PROVE  \E q : /\ StatementAt(g, q, m)
                /\ q < p
                /\ q \in OpensAt(g) .. EndsAt(g)
                /\ Staged(g)[q].kind = "AssertionRevision"
  <1>1. n \in 1 .. Len(g.draft.actions) /\ Len(g.draft.actions) \in Nat
    BY StatementRecordAt, ReadyFacts
  <1>2. m \in 1 .. Len(g.draft.actions) /\ m < n
    BY <1>1
  <1>3. Recorded(g.draft, m)
    BY <1>2 DEF Recorded, Revising
  <1>4. PICK q : StatementAt(g, q, m)
    BY <1>2, <1>3, StatementsArePlaced
  <1>5. q < p
    BY <1>1, <1>2, <1>4, StatementsAreInOrder
  <1>6. Staged(g)[q].kind = "AssertionRevision"
    BY <1>4, StatementRecordAt DEF Revising
  <1>7. QED
    BY <1>4, <1>5, <1>6, StatementIsInHorizon

\* Where an earlier revision comes from: the journal or an earlier action.
LEMMA EarlierRevisionIsFrom ==
  ASSUME NEW g, Ready(g), NEW p, NEW n, StatementAt(g, p, n),
         NEW j \in Positions(Staged(g), "AssertionRevision"), j < p
  PROVE  \/ /\ j \in Positions(g.records, "AssertionRevision")
            /\ Staged(g)[j] = g.records[j]
            /\ j \in 1 .. Len(g.records)
         \/ \E m \in 1 .. n - 1 :
               /\ StatementAt(g, j, m)
               /\ j \in OpensAt(g) .. EndsAt(g)
               /\ g.draft.actions[m].kind \in Revising
  <1>1. j \in 1 .. EndsAt(g) /\ Staged(g)[j].kind = "AssertionRevision"
    BY StagedDomain DEF Positions
  <1>2. CASE j \in 1 .. Len(g.records)
    <2>1. Staged(g)[j] = g.records[j]
      BY <1>2, StagedDomain
    <2>2. QED
      BY <1>1, <1>2, <2>1, ReadyFacts DEF Positions
  <1>3. CASE j \in OpensAt(g) .. EndsAt(g)
    <2>1. PICK m \in 1 .. Len(g.draft.actions) : StatementAt(g, j, m)
      BY <1>1, <1>3, AddedByKind
    <2>2. g.draft.actions[m].kind \in Revising
      BY <1>1, <2>1, RevisionRecordAt
    <2>3. n \in 1 .. Len(g.draft.actions) /\ Len(g.draft.actions) \in Nat
      BY StatementRecordAt, ReadyFacts
    <2>4. j \in Nat /\ p \in Nat /\ m # n /\ ~ (n < m)
      <3>1. /\ j \in Nat /\ p \in Nat
            /\ n < m => p < j
            /\ n = m => p = j
        BY <2>1, <2>3, StatementsAreOrdered
      <3>2. QED
        BY <3>1
    <2>5. m \in 1 .. n - 1
      BY <2>3, <2>4
    <2>6. QED
      BY <1>3, <2>1, <2>2, <2>5
  <1>4. QED
    BY <1>1, <1>2, <1>3, StagedDomain

\* The state of an alias a revision starts from.
LEMMA RevisedState ==
  ASSUME NEW g, Ready(g), Drawn(g), NEW n \in 1 .. Len(g.draft.actions),
         g.draft.actions[n].kind = "assertion-revise"
  PROVE  LET A == g.draft.actions
             a == A[n]
             r == g.records
         IN  /\ a.predecessor # None
             /\ \/ \E c \in 1 .. n - 1 :
                      /\ a.assertion = A[c].assertion
                      /\ a.predecessor = A[c].id
                      /\ Revises(A[c], a.alias)
                      /\ \A i \in 1 .. n - 1 : Revises(A[i], a.alias) => i <= c
                \/ /\ \A i \in 1 .. n - 1 : ~ Revises(A[i], a.alias)
                   /\ \E c \in Positions(r, "AssertionRevision") :
                         /\ a.assertion = r[c].assertion
                         /\ a.predecessor = r[c].id
                         /\ r[c].alias = a.alias
                         /\ \A i \in Positions(r, "AssertionRevision") :
                               r[i].alias = a.alias => i <= c
  <1> DEFINE A == g.draft.actions
             a == A[n]
             r == g.records
             state == AssertionState(r, SubSeq(A, 1, n - 1), a.alias)
  <1>1. state = [ assertion |-> a.assertion, revision |-> a.predecessor ]
    BY ActionIsValid
  <1>2. a.predecessor \in IdsWith("rev") /\ a.assertion \in IdsWith("ast")
    <2>1. DrawnAction(a)
      BY ReadyFacts, DrawnFacts
    <2>2. QED
      BY <2>1 DEF DrawnAction
  <1>3. a.predecessor \in Ids /\ a.predecessor # None /\ a.assertion \in Ids
    BY <1>2, IdsAreIds DEF Prefixes3
  <1>4. state # None
    <2>1. state \in [ assertion : Ids, revision : Ids ]
      BY <1>1, <1>3
    <2>2. QED
      BY <2>1, NoneAssumption
  <1> DEFINE Drafted(c) ==
               /\ state = [ assertion |-> A[c].assertion, revision |-> A[c].id ]
               /\ Revises(A[c], a.alias)
               /\ \A i \in 1 .. n - 1 : Revises(A[i], a.alias) => i <= c
             Journaled(c) ==
               /\ state = [ assertion |-> r[c].assertion, revision |-> r[c].id ]
               /\ r[c].alias = a.alias
               /\ \A i \in Positions(r, "AssertionRevision") :
                     r[i].alias = a.alias => i <= c
  <1>5. \/ state = None
        \/ \E c \in 1 .. n - 1 : Drafted(c)
        \/ /\ \A i \in 1 .. n - 1 : ~ Revises(A[i], a.alias)
           /\ \E c \in Positions(r, "AssertionRevision") : Journaled(c)
    BY StateOfAlias
  <1>6. CASE \E c \in 1 .. n - 1 : Drafted(c)
    <2>1. PICK c \in 1 .. n - 1 : Drafted(c)
      BY <1>6
    <2>2. a.assertion = A[c].assertion /\ a.predecessor = A[c].id
      BY <1>1, <2>1
    <2>3. QED
      BY <1>3, <2>1, <2>2
  <1>7. CASE /\ \A i \in 1 .. n - 1 : ~ Revises(A[i], a.alias)
             /\ \E c \in Positions(r, "AssertionRevision") : Journaled(c)
    <2>1. PICK c \in Positions(r, "AssertionRevision") : Journaled(c)
      BY <1>7
    <2>2. a.assertion = r[c].assertion /\ a.predecessor = r[c].id
      BY <1>1, <2>1
    <2>3. QED
      BY <1>3, <1>7, <2>1, <2>2
  <1>8. QED
    BY <1>4, <1>5, <1>6, <1>7

\* An assertion that is being added has no earlier revision.
LEMMA AddedAssertionIsNew ==
  ASSUME NEW g, Ready(g), Drawn(g), NEW p, NEW n, StatementAt(g, p, n),
         g.draft.actions[n].kind = "assertion-add",
         \A i \in Positions(Staged(g), "AssertionRevision") :
            i < p => GoodRevision(Staged(g), i),
         NEW j \in Positions(Staged(g), "AssertionRevision"), j < p,
         Staged(g)[j].assertion = g.draft.actions[n].assertion
  PROVE  FALSE
  <1> DEFINE all == Staged(g)
             A == g.draft.actions
             x == A[n].assertion
             P == Positions(all, "AssertionRevision")
             S == { i \in P : i < p /\ all[i].assertion = x }
  <1>1. /\ P \subseteq 1 .. EndsAt(g) /\ EndsAt(g) \in Nat
        /\ n \in 1 .. Len(A)
    BY StagedDomain, Bounds, StatementRecordAt DEF Positions
  <1>2. S # {} /\ S \in SUBSET Nat
    BY <1>1
  <1>3. PICK k \in S : \A i \in S : k <= i
    BY <1>2, LeastNumber
  <1>4. k \in P /\ k < p /\ all[k].assertion = x /\ k \in 1 .. EndsAt(g)
    BY <1>1, <1>3
  <1>5. x \in ActionIds(A[n])
    BY IdsOfAction
  <1>6. CASE k \in Positions(g.records, "AssertionRevision") /\ all[k] = g.records[k]
    <2>1. g.records[k].assertion \in JournalIds(g.records)
      BY <1>6 DEF JournalIds
    <2>2. x \notin JournalIds(g.records)
      BY <1>1, <1>5, ActionIsValid
    <2>3. QED
      BY <1>4, <1>6, <2>1, <2>2
  <1>7. ASSUME NEW m \in 1 .. n - 1, StatementAt(g, k, m), A[m].kind \in Revising
        PROVE  FALSE
    <2>1. m \in 1 .. Len(A) /\ m # n
      BY <1>1, ReadyFacts
    <2>2. all[k].kind = "AssertionRevision"
      BY <1>4 DEF Positions
    <2>3. /\ all[k].assertion = A[m].assertion
          /\ all[k].predecessor = IF A[m].kind = "assertion-revise"
                                  THEN A[m].predecessor ELSE None
      BY <1>7, <2>2, RevisionRecordAt
    <2>4. A[m].kind # "assertion-add"
      <3>1. ASSUME A[m].kind = "assertion-add"
            PROVE  FALSE
        <4>1. x \in ActionIds(A[m])
          BY <1>4, <2>3, <3>1, IdsOfAction
        <4>2. QED
          BY <1>1, <1>5, <2>1, <4>1, ActionsAreApart
      <3>2. QED
        BY <3>1
    <2>5. A[m].kind = "assertion-revise"
      BY <1>7, <2>4 DEF Revising
    <2>6. all[k].predecessor # None
      BY <2>1, <2>3, <2>5, RevisedState
    <2>7. EarlierRevisions(all, k) = {}
      <3>1. ASSUME NEW i \in EarlierRevisions(all, k)
            PROVE  FALSE
        <4>1. i \in P /\ i < k /\ all[i].assertion = all[k].assertion
          BY <3>1 DEF EarlierRevisions
        <4>2. i \in 1 .. EndsAt(g) /\ p \in Nat
          BY <1>1, <4>1, StatementIsInHorizon, Bounds
        <4>3. i \in S
          BY <1>4, <4>1, <4>2
        <4>4. QED
          BY <1>3, <1>4, <4>1, <4>2, <4>3
      <3>2. QED
        BY <3>1
    <2>8. LastOf(EarlierRevisions(all, k)) = 0
      BY <2>7 DEF LastOf
    <2>9. GoodRevision(all, k)
      BY <1>4
    <2> HIDE DEF all
    <2>10. QED
      BY <2>6, <2>8, <2>9 DEF GoodRevision
  <1>8. \/ /\ k \in Positions(g.records, "AssertionRevision")
           /\ all[k] = g.records[k]
        \/ \E m \in 1 .. n - 1 : StatementAt(g, k, m) /\ A[m].kind \in Revising
    BY <1>4, EarlierRevisionIsFrom
  <1>9. QED
    BY <1>6, <1>7, <1>8

\* No record up to a new revision has the identifier of its new assertion.
LEMMA AssertionIsNoRecord ==
  ASSUME NEW g, MayClose(g), NEW p, NEW n, StatementAt(g, p, n),
         g.draft.actions[n].kind = "assertion-add", NEW j \in 1 .. p
  PROVE  Staged(g)[j].id # g.draft.actions[n].assertion
  <1> DEFINE all == Staged(g)
             x == g.draft.actions[n].assertion
  <1>1. Ready(g) /\ Drawn(g)
    BY DEF MayClose
  <1>2. /\ p \in OpensAt(g) .. EndsAt(g) /\ n \in 1 .. Len(g.draft.actions)
        /\ OpensAt(g) \in Nat /\ EndsAt(g) \in Nat
    BY <1>1, StatementIsInHorizon, StatementRecordAt, Bounds
  <1>3. j \in 1 .. EndsAt(g)
    BY <1>2
  <1>4. CASE j \in 1 .. Len(g.records)
    <2>1. all[j] = g.records[j] /\ j \in DOMAIN g.records
      BY <1>1, <1>4, StagedDomain, ReadyFacts, DrawnFacts
    <2>2. all[j].id \in JournalIds(g.records)
      BY <2>1 DEF JournalIds
    <2>3. x \in ActionIds(g.draft.actions[n])
      BY IdsOfAction
    <2>4. x \notin JournalIds(g.records)
      BY <1>1, <1>2, <2>3, ActionIsValid
    <2>5. QED
      BY <2>2, <2>4
  <1>5. CASE j \in OpensAt(g) .. EndsAt(g)
    <2>1. all[j].kind # "WorkspaceInitialized"
      BY <1>1, <1>5, AddedByKind
    <2>2. DrawnRecord(all[j])
      <3>1. j \in 1 .. Len(all)
        BY <1>1, <1>3, Bounds
      <3>2. QED
        BY <3>1, StagedIsDrawn
    <2>3. all[j].kind \in DOMAIN PrefixOf /\ all[j].id \in IdsWith(PrefixOf[all[j].kind])
      BY <2>1, <2>2 DEF DrawnRecord
    <2>4. x \in IdsWith("ast")
      BY <1>1, <1>2, RevisingIsDrawn DEF Revising
    <2>5. PrefixOf[all[j].kind] # "ast"
      BY <2>1, <2>3, PrefixOfKinds
    <2>6. QED
      BY <2>3, <2>4, <2>5, PrefixesDiffer
  <1>6. QED
    BY <1>1, <1>3, <1>4, <1>5, StagedDomain

\* A revision a close adds is good when the revisions before it are.
LEMMA AddingIsGood ==
  ASSUME NEW g, MayClose(g), NEW p, NEW n, StatementAt(g, p, n),
         g.draft.actions[n].kind = "assertion-add",
         \A i \in Positions(Staged(g), "AssertionRevision") :
            i < p => GoodRevision(Staged(g), i)
  PROVE  GoodRevision(Staged(g), p)
  <1> DEFINE all == Staged(g)
             A == g.draft.actions
             a == A[n]
  <1>1. Ready(g) /\ Drawn(g)
    BY DEF MayClose
  <1>2. /\ n \in 1 .. Len(A) /\ all[p].alias = a.alias
        /\ all[p].assertion = a.assertion /\ all[p].predecessor = None
    BY <1>1, StatementRecordAt
  <1>3. InOpenHorizon(all, p)
    BY <1>1, StatementIsInHorizon
  <1>4. FollowsItsEvidence(all, p)
    BY <1>1, <1>2, RevisingIsDrawn, StagedFollowsEvidence DEF Revising
  <1>5. EarlierRevisions(all, p) = {}
    <2>1. ASSUME NEW j \in EarlierRevisions(all, p)
          PROVE  FALSE
      <3>1. /\ j \in Positions(all, "AssertionRevision") /\ j < p
            /\ all[j].assertion = a.assertion
        BY <1>2, <2>1 DEF EarlierRevisions
      <3>2. QED
        BY <1>1, <3>1, AddedAssertionIsNew
    <2>2. QED
      BY <2>1
  <1>6. LastOf(EarlierRevisions(all, p)) = 0
    BY <1>5 DEF LastOf
  <1>7. \A j \in 1 .. p : all[j].id # a.assertion
    BY AssertionIsNoRecord
  <1>8. /\ \A i \in 1 .. n - 1 : ~ Revises(A[i], a.alias)
        /\ \A i \in Positions(g.records, "AssertionRevision") :
              g.records[i].alias # a.alias
    <2>1. AssertionState(g.records, SubSeq(A, 1, n - 1), a.alias) = None
      BY <1>1, <1>2, ActionIsValid
    <2>2. QED
      BY <1>1, <1>2, <2>1, StateOfAlias
  <1>9. ASSUME NEW j \in Positions(all, "AssertionRevision"), j < p
        PROVE  all[j].alias # a.alias
    <2>1. CASE j \in Positions(g.records, "AssertionRevision") /\ all[j] = g.records[j]
      BY <1>8, <2>1
    <2>2. ASSUME NEW m \in 1 .. n - 1, StatementAt(g, j, m), A[m].kind \in Revising
          PROVE  all[j].alias # a.alias
      <3>1. all[j].alias = A[m].alias
        BY <1>1, <2>2, StatementRecordAt
      <3>2. QED
        BY <1>8, <2>2, <3>1 DEF Revises, Revising
    <2>3. QED
      BY <1>1, <1>9, <2>1, <2>2, EarlierRevisionIsFrom
  <1>10. QED
    BY <1>2, <1>3, <1>4, <1>6, <1>7, <1>9 DEF GoodRevision

\* Where the revision that an action revises is found in the staged journal:
\* it is the last one of its alias.
LEMMA RevisedIsPlaced ==
  ASSUME NEW g, Ready(g), Drawn(g), NEW p, NEW n, StatementAt(g, p, n),
         g.draft.actions[n].kind = "assertion-revise"
  PROVE  LET a == g.draft.actions[n]
             all == Staged(g)
         IN  \E q \in Positions(all, "AssertionRevision") :
               /\ q < p
               /\ all[q].assertion = a.assertion
               /\ all[q].id = a.predecessor
               /\ all[q].alias = a.alias
               /\ \A j \in Positions(all, "AssertionRevision") :
                     j < p /\ all[j].alias = a.alias => j <= q
  <1> DEFINE all == Staged(g)
             A == g.draft.actions
             a == A[n]
             r == g.records
             P == Positions(all, "AssertionRevision")
  <1>1. /\ n \in 1 .. Len(A) /\ Len(A) \in Nat
        /\ p \in OpensAt(g) .. EndsAt(g)
        /\ P \subseteq 1 .. EndsAt(g)
        /\ OpensAt(g) \in Nat /\ EndsAt(g) \in Nat
        /\ OpensAt(g) = Len(r) + 1 /\ Len(r) \in Nat
    BY StatementRecordAt, StatementIsInHorizon, StagedDomain, ReadyFacts, Bounds
       DEF Positions
  <1>2. ASSUME NEW c \in 1 .. n - 1,
               a.assertion = A[c].assertion, a.predecessor = A[c].id,
               Revises(A[c], a.alias),
               \A i \in 1 .. n - 1 : Revises(A[i], a.alias) => i <= c
        PROVE  \E q \in P : /\ q < p
                            /\ all[q].assertion = a.assertion
                            /\ all[q].id = a.predecessor
                            /\ all[q].alias = a.alias
                            /\ \A j \in P : j < p /\ all[j].alias = a.alias => j <= q
    <2>1. A[c].kind \in Revising /\ A[c].alias = a.alias
      BY <1>2 DEF Revises, Revising
    <2>2. PICK q : /\ StatementAt(g, q, c) /\ q < p
                   /\ q \in OpensAt(g) .. EndsAt(g)
                   /\ all[q].kind = "AssertionRevision"
      BY <2>1, EarlierActionIsPlaced
    <2>3. /\ q \in P /\ all[q].assertion = a.assertion
          /\ all[q].id = a.predecessor /\ all[q].alias = a.alias
      BY <1>2, <2>1, <2>2, RevisionRecordAt
    <2>4. ASSUME NEW j \in P, j < p, all[j].alias = a.alias
          PROVE  j <= q
      <3>1. CASE j \in 1 .. Len(r)
        BY <1>1, <2>2, <3>1
      <3>2. ASSUME NEW m \in 1 .. n - 1, StatementAt(g, j, m), A[m].kind \in Revising
            PROVE  j <= q
        <4>1. all[j].alias = A[m].alias
          BY <3>2, StatementRecordAt
        <4>2. m <= c
          BY <1>2, <2>4, <3>2, <4>1 DEF Revises, Revising
        <4>3. /\ m \in 1 .. Len(A) /\ c \in 1 .. Len(A)
              /\ m = c \/ m < c
          BY <1>1, <4>2
        <4>4. /\ j \in Nat /\ q \in Nat
              /\ m = c => j = q
              /\ m < c => j < q
          <5>1. StatementAt(g, q, c) /\ StatementAt(g, j, m)
            BY <2>2, <3>2
          <5>2. QED
            BY <4>3, <5>1, StatementsAreOrdered
        <4>5. QED
          BY <4>3, <4>4
      <3>3. QED
        BY <2>4, <3>1, <3>2, EarlierRevisionIsFrom
    <2>5. QED
      BY <2>2, <2>3, <2>4
  <1>3. ASSUME NEW c \in Positions(r, "AssertionRevision"),
               a.assertion = r[c].assertion, a.predecessor = r[c].id,
               r[c].alias = a.alias,
               \A i \in 1 .. n - 1 : ~ Revises(A[i], a.alias),
               \A i \in Positions(r, "AssertionRevision") :
                  r[i].alias = a.alias => i <= c
        PROVE  \E q \in P : /\ q < p
                            /\ all[q].assertion = a.assertion
                            /\ all[q].id = a.predecessor
                            /\ all[q].alias = a.alias
                            /\ \A j \in P : j < p /\ all[j].alias = a.alias => j <= q
    <2>1. c \in 1 .. Len(r) /\ r[c].kind = "AssertionRevision"
      BY ReadyFacts DEF Positions
    <2>2. all[c] = r[c] /\ c < p /\ c \in 1 .. EndsAt(g)
      BY <1>1, <2>1, StagedDomain
    <2>3. c \in P
      BY <2>1, <2>2, StagedDomain DEF Positions
    <2>4. ASSUME NEW j \in P, j < p, all[j].alias = a.alias
          PROVE  j <= c
      <3>1. CASE j \in Positions(r, "AssertionRevision") /\ all[j] = r[j]
        BY <1>3, <2>4, <3>1
      <3>2. ASSUME NEW m \in 1 .. n - 1, StatementAt(g, j, m), A[m].kind \in Revising
            PROVE  FALSE
        <4>1. all[j].alias = A[m].alias
          BY <3>2, StatementRecordAt
        <4>2. QED
          BY <1>3, <2>4, <3>2, <4>1 DEF Revises, Revising
      <3>3. QED
        BY <2>4, <3>1, <3>2, EarlierRevisionIsFrom
    <2>5. QED
      BY <1>3, <2>2, <2>3, <2>4
  <1>4. QED
    BY <1>1, <1>2, <1>3, RevisedState

\* A revision of the draft passes the verifier, given the earlier ones do.
LEMMA RevisingIsGood ==
  ASSUME NEW g, Ready(g), Drawn(g), NEW p, NEW n, StatementAt(g, p, n),
         g.draft.actions[n].kind = "assertion-revise",
         \A i \in Positions(Staged(g), "AssertionRevision") :
            i < p => GoodRevision(Staged(g), i)
  PROVE  GoodRevision(Staged(g), p)
  <1> DEFINE all == Staged(g)
             a == g.draft.actions[n]
             P == Positions(all, "AssertionRevision")
  <1>1. /\ n \in 1 .. Len(g.draft.actions) /\ all[p].alias = a.alias
        /\ all[p].assertion = a.assertion /\ all[p].predecessor = a.predecessor
    BY StatementRecordAt
  <1>2. InOpenHorizon(all, p)
    BY StatementIsInHorizon
  <1>3. FollowsItsEvidence(all, p)
    BY <1>1, RevisingIsDrawn, StagedFollowsEvidence DEF Revising
  <1>4. PICK q \in P : /\ q < p
                       /\ all[q].assertion = a.assertion
                       /\ all[q].id = a.predecessor
                       /\ all[q].alias = a.alias
                       /\ \A j \in P : j < p /\ all[j].alias = a.alias => j <= q
    BY RevisedIsPlaced
  <1>5. /\ P \subseteq 1 .. EndsAt(g) /\ EndsAt(g) \in Nat
        /\ p \in 1 .. Len(all) + 1 /\ IsSequence(all)
    BY StagedDomain, Bounds, StatementIsInHorizon DEF Positions
  <1>6. ASSUME NEW j \in P, j < p
        PROVE  all[j].alias = all[q].alias <=> all[j].assertion = all[q].assertion
    BY <1>4, <1>5, <1>6, AliasesNameAssertions
  <1>7. LastOf(EarlierRevisions(all, p)) = q
    <2>1. EarlierRevisions(all, p) \in SUBSET (1 .. EndsAt(g))
      BY <1>5 DEF EarlierRevisions
    <2>2. q \in EarlierRevisions(all, p)
      BY <1>1, <1>4 DEF EarlierRevisions
    <2>3. ASSUME NEW j \in EarlierRevisions(all, p)
          PROVE  j <= q
      <3>1. j \in P /\ j < p /\ all[j].assertion = a.assertion
        BY <1>1, <2>3 DEF EarlierRevisions
      <3>2. all[j].alias = a.alias
        BY <1>4, <1>6, <3>1
      <3>3. QED
        BY <1>4, <3>1, <3>2
    <2>4. QED
      BY <1>5, <2>1, <2>2, <2>3, LastOfIs
  <1>8. q # 0
    BY <1>5
  <1>9. QED
    BY <1>1, <1>2, <1>3, <1>4, <1>7, <1>8 DEF GoodRevision

\* The records of the journal still pass it.
LEMMA JournalRecordsAreGood ==
  ASSUME NEW g, Ready(g), NEW p \in 1 .. Len(g.records)
  PROVE  GoodRecord(Staged(g), p)
  <1>1. Extends(Staged(g), g.records)
    BY StagedLayout
  <1>2. GoodRecord(g.records, p)
    BY ReadyFacts
  <1>3. QED
    BY <1>1, <1>2, GoodRecordExtends

\* Every revision of the staged journal is good: there is no least one that
\* is not.
LEMMA RevisionsAreGood ==
  ASSUME NEW g, MayClose(g), NEW p \in Positions(Staged(g), "AssertionRevision")
  PROVE  GoodRevision(Staged(g), p)
  <1> DEFINE all == Staged(g)
             P == Positions(all, "AssertionRevision")
             Bad == { i \in P : ~ GoodRevision(all, i) }
  <1>1. Ready(g) /\ Drawn(g)
    BY DEF MayClose
  <1>2. P \subseteq 1 .. EndsAt(g) /\ EndsAt(g) \in Nat
    BY <1>1, StagedDomain, Bounds DEF Positions
  <1>3. SUFFICES ASSUME Bad # {}
                 PROVE  FALSE
    OBVIOUS
  <1>4. Bad \in SUBSET Nat
    BY <1>2
  <1>5. PICK k \in Bad : \A i \in Bad : k <= i
    BY <1>3, <1>4, LeastNumber
  <1>6. /\ k \in P /\ ~ GoodRevision(all, k) /\ k \in 1 .. EndsAt(g)
        /\ all[k].kind = "AssertionRevision"
    BY <1>2, <1>5 DEF Positions
  <1>7. \A i \in P : i < k => GoodRevision(all, i)
    BY <1>2, <1>5, <1>6
  <1>8. CASE k \in 1 .. Len(g.records)
    <2>1. GoodRecord(all, k)
      BY <1>1, <1>8, JournalRecordsAreGood
    <2>2. QED
      BY <1>6, <2>1 DEF GoodRecord
  <1>9. CASE k \in OpensAt(g) .. EndsAt(g)
    <2>1. PICK n \in 1 .. Len(g.draft.actions) : StatementAt(g, k, n)
      BY <1>1, <1>6, <1>9, AddedByKind
    <2>2. g.draft.actions[n].kind \in Revising
      BY <1>1, <1>6, <2>1, RevisionRecordAt
    <2>3. CASE g.draft.actions[n].kind = "assertion-add"
      BY <1>6, <1>7, <2>1, <2>3, AddingIsGood
    <2>4. CASE g.draft.actions[n].kind = "assertion-revise"
      BY <1>1, <1>6, <1>7, <2>1, <2>4, RevisingIsGood
    <2>5. QED
      BY <2>2, <2>3, <2>4 DEF Revising
  <1>10. QED
    BY <1>1, <1>6, <1>8, <1>9, StagedDomain

-----------------------------------------------------------------------------
(***************************************************************************)
(* The staged journal as a whole passes the verifier.                      *)
(***************************************************************************)

\* A sequence that is not empty has a length.
LEMMA EmptySequence ==
  ASSUME NEW s, IsSequence(s), s # <<>>
  PROVE  Len(s) \in Nat \ { 0 }
  <1>1. s \in Seq(Range(s))
    BY DEF IsSequence
  <1>2. QED
    BY <1>1, LenProperties, EmptySeq

\* Every record that a close adds passes the verifier.
LEMMA AddedRecordsAreGood ==
  ASSUME NEW g, MayClose(g), NEW p \in OpensAt(g) .. EndsAt(g)
  PROVE  GoodRecord(Staged(g), p)
  <1> DEFINE all == Staged(g)
             kind == all[p].kind
  <1>1. Ready(g) /\ Drawn(g)
    BY DEF MayClose
  <1>2. all[p].id \notin JournalIds(SubSeq(all, 1, p - 1))
    BY StagedIdsAreFresh
  <1>3. kind # "WorkspaceInitialized" /\ p # 1
    <2>1. g.records # <<>> /\ IsSequence(g.records)
      BY <1>1, ReadyFacts DEF Ready, Verified, VerifyCanonical, VerifiedRecords
    <2>2. Len(g.records) \in Nat \ { 0 }
      BY <2>1, EmptySequence
    <2>3. QED
      BY <1>1, <2>2, Bounds, AddedByKind
  <1>4. kind = "HorizonOpened" => GoodOpening(all, p)
    BY <1>1, AddedByKind, StagedOpening
  <1>5. kind = "SourceSnapshot" => GoodSource(all, p)
    BY <1>1, AddedByKind, StagedSource
  <1>6. kind = "EvidenceSpan" => GoodEvidence(all, p)
    BY <1>1, AddedByKind, StagedEvidence
  <1>7. p \in 1 .. EndsAt(g)
    BY <1>1, Bounds
  <1>8. kind = "AssertionRevision" => GoodRevision(all, p)
    <2>1. ASSUME kind = "AssertionRevision"
          PROVE  p \in Positions(all, "AssertionRevision")
      BY <1>1, <1>7, <2>1, StagedDomain DEF Positions
    <2>2. QED
      BY <2>1, RevisionsAreGood
  <1>9. kind = "QuestionOpened" => GoodQuestion(all, p)
    <2>1. ASSUME kind = "QuestionOpened"
          PROVE  GoodQuestion(all, p)
      <3>1. PICK n \in 1 .. Len(g.draft.actions) : StatementAt(g, p, n)
        BY <1>1, <2>1, AddedByKind
      <3>2. g.draft.actions[n].kind = "question"
        BY <1>1, <2>1, <3>1, StatementRecordAt
      <3>3. QED
        BY <1>1, <3>1, <3>2, StagedQuestion
    <2>2. QED
      BY <2>1
  <1>10. kind = "HorizonClosed" => GoodClosing(all, p)
    BY <1>1, AddedByKind, StagedClosing
  <1>11. QED
    BY <1>2, <1>3, <1>4, <1>5, <1>6, <1>8, <1>9, <1>10 DEF GoodRecord

\* What a statement of the journal cites is one of its identifiers.
LEMMA JournalSpans ==
  ASSUME NEW g, Ready(g), NEW j \in 1 .. Len(g.records),
         g.records[j].kind \in { "AssertionRevision", "QuestionOpened" },
         g.records[j].span # None
  PROVE  g.records[j].span \in JournalIds(g.records)
  <1> DEFINE r == g.records
  <1>1. GoodRecord(r, j)
    BY ReadyFacts
  <1>2. FollowsItsEvidence(r, j)
    <2>1. CASE r[j].kind = "AssertionRevision"
      <3>1. GoodRevision(r, j)
        BY <1>1, <2>1 DEF GoodRecord
      <3>2. QED
        BY <3>1 DEF GoodRevision
    <2>2. CASE r[j].kind = "QuestionOpened"
      <3>1. GoodQuestion(r, j)
        BY <1>1, <2>2 DEF GoodRecord
      <3>2. QED
        BY <3>1 DEF GoodQuestion
    <2>3. QED
      BY <2>1, <2>2
  <1>3. j > 1 /\ r[j - 1].id = r[j].span
    BY <1>2 DEF FollowsItsEvidence
  <1>4. j - 1 \in DOMAIN r
    BY <1>3, ReadyFacts
  <1>5. QED
    BY <1>3, <1>4 DEF JournalIds

\* The statements, which may cite evidence.
Users(r) == Positions(r, "AssertionRevision") \cup Positions(r, "QuestionOpened")

\* A statement of the staged journal is an old one or that of an action.
LEMMA UsersOfStaged ==
  ASSUME NEW g, Ready(g), NEW j \in Users(Staged(g))
  PROVE  \/ /\ j \in Users(g.records)
            /\ j \in 1 .. Len(g.records)
            /\ Staged(g)[j] = g.records[j]
            /\ g.records[j].kind \in { "AssertionRevision", "QuestionOpened" }
         \/ \E n \in 1 .. Len(g.draft.actions) :
               /\ StatementAt(g, j, n)
               /\ Staged(g)[j].span = g.draft.actions[n].span
               /\ g.draft.actions[n].kind # "source"
  <1>1. /\ j \in 1 .. EndsAt(g)
        /\ Staged(g)[j].kind \in { "AssertionRevision", "QuestionOpened" }
    BY StagedDomain DEF Users, Positions
  <1>2. CASE j \in 1 .. Len(g.records)
    BY <1>1, <1>2, StagedDomain, ReadyFacts DEF Users, Positions
  <1>3. CASE j \in OpensAt(g) .. EndsAt(g)
    <2>1. PICK n \in 1 .. Len(g.draft.actions) : StatementAt(g, j, n)
      BY <1>1, <1>3, AddedByKind
    <2>2. Staged(g)[j].span = g.draft.actions[n].span
      BY <2>1, StatementRecordAt
    <2>3. g.draft.actions[n].kind # "source"
      BY <2>1 DEF StatementAt, Recorded
    <2>4. QED
      BY <2>1, <2>2, <2>3
  <1>4. QED
    BY <1>1, <1>2, <1>3, StagedDomain

\* Evidence of the journal is cited by nothing a close adds.
LEMMA UsersOfOldEvidence ==
  ASSUME NEW g, Ready(g), Drawn(g), NEW i \in Positions(g.records, "EvidenceSpan")
  PROVE  UsersOf(Staged(g), g.records[i].id) = UsersOf(g.records, g.records[i].id)
  <1> DEFINE all == Staged(g)
             A == g.draft.actions
             x == g.records[i].id
  <1>1. /\ i \in 1 .. Len(g.records) /\ g.records[i].kind = "EvidenceSpan"
        /\ i \in DOMAIN g.records
    BY ReadyFacts, DrawnFacts DEF Positions
  <1>2. x \in JournalIds(g.records)
    BY <1>1 DEF JournalIds
  <1>3. x # None
    <2>1. DrawnRecord(g.records[i])
      BY <1>1, ReadyFacts, DrawnFacts
    <2>2. x \in IdsWith("evd")
      BY <1>1, <2>1, PrefixOfKinds DEF DrawnRecord
    <2>3. QED
      BY <2>2, IdsAreIds DEF Prefixes3
  <1>4. ASSUME NEW j \in Users(all), all[j].span = x
        PROVE  j \in Users(g.records) /\ g.records[j].span = x
    <2>1. ASSUME NEW n \in 1 .. Len(A), StatementAt(g, j, n),
                 all[j].span = A[n].span, A[n].kind # "source"
          PROVE  FALSE
      <3>1. x \in ActionIds(A[n])
        BY <1>3, <1>4, <2>1, IdsOfAction
      <3>2. ActionIds(A[n]) \cap JournalIds(g.records) = {}
        BY ActionIsValid
      <3>3. QED
        BY <1>2, <3>1, <3>2
    <2>2. QED
      BY <1>4, <2>1, UsersOfStaged
  <1>5. ASSUME NEW j \in Users(g.records), g.records[j].span = x
        PROVE  j \in Users(all) /\ all[j].span = x
    <2>1. j \in 1 .. Len(g.records) /\ j \in 1 .. EndsAt(g)
      BY ReadyFacts, DrawnFacts, Bounds DEF Users, Positions
    <2>2. all[j] = g.records[j] /\ j \in DOMAIN all
      BY <2>1, StagedDomain
    <2>3. QED
      BY <1>5, <2>2 DEF Users, Positions
  <1>6. UsersOf(all, x) = { j \in Users(all) : all[j].span = x }
    BY DEF UsersOf, Users
  <1>7. UsersOf(g.records, x) = { j \in Users(g.records) : g.records[j].span = x }
    BY DEF UsersOf, Users
  <1> HIDE DEF all, x
  <1>8. UsersOf(all, x) = UsersOf(g.records, x)
    BY <1>4, <1>5, <1>6, <1>7
  <1>9. QED
    BY <1>8 DEF all, x

\* Evidence a close adds is cited by its own statement alone.
LEMMA UsersOfNewEvidence ==
  ASSUME NEW g, Ready(g), NEW i, NEW n, EvidenceAt(g, i, n)
  PROVE  \E p : UsersOf(Staged(g), Staged(g)[i].id) = { p }
  <1> DEFINE all == Staged(g)
             A == g.draft.actions
             x == A[n].span
  <1>1. /\ n \in 1 .. Len(A) /\ A[n].kind # "source" /\ x # None
        /\ Recorded(g.draft, n)
    BY DEF EvidenceAt, Recorded
  <1>2. all[i].id = x
    BY EvidenceRecordAt
  <1>3. x \in ActionIds(A[n])
    BY <1>1, IdsOfAction
  <1>4. x \notin JournalIds(g.records)
    BY <1>1, <1>3, ActionIsValid
  <1>5. PICK p : StatementAt(g, p, n)
    BY <1>1, StatementsArePlaced
  <1>6. p \in Users(all) /\ all[p].span = x
    <2>1. /\ all[p].kind \in { "AssertionRevision", "QuestionOpened" }
          /\ all[p].span = x
      BY <1>5, StatementRecordAt
    <2>2. p \in 1 .. EndsAt(g)
      BY <1>5, StatementIsInHorizon, Bounds
    <2>3. QED
      BY <2>1, <2>2, StagedDomain DEF Users, Positions
  <1>7. ASSUME NEW j \in Users(all), all[j].span = x
        PROVE  j = p
    <2>1. ASSUME j \in 1 .. Len(g.records), all[j] = g.records[j],
                 g.records[j].kind \in { "AssertionRevision", "QuestionOpened" }
          PROVE  FALSE
      BY <1>1, <1>4, <1>7, <2>1, JournalSpans
    <2>2. ASSUME NEW m \in 1 .. Len(A), StatementAt(g, j, m),
                 all[j].span = A[m].span, A[m].kind # "source"
          PROVE  j = p
      <3>1. x \in ActionIds(A[m])
        BY <1>1, <1>7, <2>2, IdsOfAction
      <3>2. m = n
        BY <1>1, <1>3, <3>1, ActionsAreApart
      <3>3. QED
        BY <1>1, <1>5, <2>2, <3>2, StatementsAreOrdered
    <2>3. QED
      BY <2>1, <2>2, UsersOfStaged
  <1>8. UsersOf(all, x) = { j \in Users(all) : all[j].span = x }
    BY DEF UsersOf, Users
  <1> HIDE DEF all, x
  <1>9. UsersOf(all, x) = { p }
    BY <1>6, <1>7, <1>8
  <1>10. QED
    BY <1>2, <1>9 DEF all

\* The journal a close stages is verified when it is not too long.
LEMMA StagedIsVerified ==
  ASSUME NEW g, MayClose(g), Len(Staged(g)) <= MaxRecords
  PROVE  VerifiedRecords(Staged(g))
  <1> DEFINE all == Staged(g)
  <1>1. Ready(g) /\ Drawn(g)
    BY DEF MayClose
  <1>2. /\ IsSequence(all) /\ DOMAIN all = 1 .. EndsAt(g)
        /\ Len(all) = EndsAt(g) /\ EndsAt(g) \in Nat /\ 1 <= EndsAt(g)
    BY <1>1, StagedDomain, Bounds
  <1>3. all # <<>>
    <2>1. Len(<<>>) = 0
      BY EmptySeq
    <2>2. QED
      BY <1>2, <2>1
  <1>4. ASSUME NEW p \in DOMAIN all
        PROVE  GoodRecord(all, p)
    <2>1. p \in 1 .. Len(g.records) \/ p \in OpensAt(g) .. EndsAt(g)
      BY <1>1, <1>2, StagedDomain
    <2>2. QED
      BY <1>1, <2>1, JournalRecordsAreGood, AddedRecordsAreGood
  <1>5. OpeningAt(all, Len(all) + 1) = 0
    BY <1>1, <1>2, OpeningOfAdded
  <1>6. ASSUME NEW i \in Positions(all, "EvidenceSpan")
        PROVE  Cardinality(UsersOf(all, all[i].id)) = 1
    <2>1. i \in 1 .. EndsAt(g) /\ all[i].kind = "EvidenceSpan"
      BY <1>2 DEF Positions
    <2>2. CASE i \in 1 .. Len(g.records)
      <3>1. all[i] = g.records[i] /\ i \in Positions(g.records, "EvidenceSpan")
        BY <1>1, <2>1, <2>2, StagedDomain, ReadyFacts DEF Positions
      <3>2. Cardinality(UsersOf(g.records, g.records[i].id)) = 1
        BY <1>1, <3>1 DEF Ready, Verified, VerifyCanonical, VerifiedRecords
      <3>3. QED
        BY <1>1, <3>1, <3>2, UsersOfOldEvidence
    <2>3. CASE i \in OpensAt(g) .. EndsAt(g)
      <3>1. PICK n \in 1 .. Len(g.draft.actions) : EvidenceAt(g, i, n)
        BY <1>1, <2>1, <2>3, AddedByKind
      <3>2. PICK p : UsersOf(all, all[i].id) = { p }
        BY <1>1, <3>1, UsersOfNewEvidence
      <3>3. QED
        BY <3>2, FS_Singleton
    <2>4. QED
      BY <1>1, <2>1, <2>2, <2>3, StagedDomain
  <1>7. QED
    BY <1>3, <1>4, <1>5, <1>6 DEF VerifiedRecords

\* The head a close stages agrees with its journal.
LEMMA StagedHorizonsAgree ==
  ASSUME NEW g, MayClose(g)
  PROVE  HorizonsAgree(Staged(g),
                       Append(g.horizons, HorizonItem(Staged(g), Len(Staged(g)))))
  <1> DEFINE all == Staged(g)
             r == g.records
             item == HorizonItem(all, Len(all))
             h == g.horizons
             hh == Append(h, item)
  <1>1. Ready(g) /\ Drawn(g) /\ IsSequence(h)
    BY DEF MayClose, Ready, Sound
  <1>2. /\ DOMAIN all = 1 .. EndsAt(g)
        /\ Len(all) = EndsAt(g) /\ EndsAt(g) \in Nat /\ 1 <= EndsAt(g)
        /\ Len(r) \in Nat /\ Len(r) < EndsAt(g)
        /\ EndsAt(g) \in OpensAt(g) .. EndsAt(g)
    BY <1>1, StagedDomain, Bounds
  <1>3. item.end = EndsAt(g) /\ item = HorizonItem(all, item.end)
    BY <1>2 DEF HorizonItem
  <1>4. HorizonsAgree(r, h)
    BY <1>1 DEF Ready, Verified, VerifyCanonical
  <1>5. /\ Len(hh) = Len(h) + 1 /\ Len(h) \in Nat
        /\ DOMAIN hh = 1 .. Len(h) + 1 /\ DOMAIN h = 1 .. Len(h)
        /\ \A k \in 1 .. Len(h) : hh[k] = h[k]
        /\ hh[Len(h) + 1] = item
    BY <1>1, AppendIsSequence, SequenceFacts
  <1>6. ASSUME NEW i \in Positions(r, "HorizonClosed")
        PROVE  /\ i \in Positions(all, "HorizonClosed")
               /\ i \in 1 .. Len(r)
               /\ HorizonItem(all, i) = HorizonItem(r, i)
    <2>1. i \in 1 .. Len(r) /\ r[i].kind = "HorizonClosed"
      BY <1>1, ReadyFacts DEF Positions
    <2>2. all[i] = r[i] /\ i \in 1 .. EndsAt(g)
      BY <1>1, <1>2, <2>1, StagedDomain
    <2>3. QED
      BY <1>2, <2>1, <2>2 DEF Positions, HorizonItem
  <1>7. EndsAt(g) \in Positions(all, "HorizonClosed")
    BY <1>1, <1>2, ClosingRecord DEF Positions
  <1>8. ASSUME NEW i \in Positions(all, "HorizonClosed")
        PROVE  i = EndsAt(g) \/ i \in Positions(r, "HorizonClosed")
    <2>1. i \in 1 .. EndsAt(g) /\ all[i].kind = "HorizonClosed"
      BY <1>2 DEF Positions
    <2>2. CASE i \in 1 .. Len(r)
      BY <1>1, <2>1, <2>2, StagedDomain, ReadyFacts DEF Positions
    <2>3. CASE i \in OpensAt(g) .. EndsAt(g)
      BY <1>1, <2>1, <2>3, AddedByKind
    <2>4. QED
      BY <1>1, <2>1, <2>2, <2>3, StagedDomain
  <1> HIDE DEF all, item, hh
  <1>9. ASSUME NEW k \in 1 .. Len(h)
        PROVE  /\ h[k].end \in Positions(r, "HorizonClosed")
               /\ h[k] = HorizonItem(r, h[k].end)
    BY <1>4, <1>5 DEF HorizonsAgree
  <1>10. ASSUME NEW k \in DOMAIN hh
         PROVE  /\ hh[k].end \in Positions(all, "HorizonClosed")
                /\ hh[k] = HorizonItem(all, hh[k].end)
    <2>1. CASE k \in 1 .. Len(h)
      <3>1. hh[k] = h[k]
        BY <1>5, <2>1
      <3>2. QED
        BY <1>6, <1>9, <2>1, <3>1
    <2>2. CASE k = Len(h) + 1
      BY <1>3, <1>5, <1>7, <2>2
    <2>3. QED
      BY <1>5, <2>1, <2>2
  <1>11. ASSUME NEW i \in Positions(all, "HorizonClosed")
         PROVE  \E k \in DOMAIN hh : hh[k].end = i
    <2>1. CASE i = EndsAt(g)
      <3>1. Len(h) + 1 \in DOMAIN hh /\ hh[Len(h) + 1].end = i
        BY <1>3, <1>5, <2>1
      <3>2. QED
        BY <3>1
    <2>2. CASE i \in Positions(r, "HorizonClosed")
      <3>1. PICK k \in DOMAIN h : h[k].end = i
        BY <1>4, <2>2 DEF HorizonsAgree
      <3>2. k \in DOMAIN hh /\ hh[k].end = i
        BY <1>5, <3>1
      <3>3. QED
        BY <3>2
    <2>3. QED
      BY <1>8, <2>1, <2>2
  <1>12. ASSUME NEW k \in DOMAIN hh, NEW l \in DOMAIN hh, k < l
         PROVE  hh[k].end < hh[l].end
    <2>1. k \in 1 .. Len(h) /\ hh[k] = h[k]
      BY <1>5, <1>12
    <2>2. h[k].end \in 1 .. Len(r)
      BY <1>6, <1>9, <2>1
    <2>3. CASE l \in 1 .. Len(h)
      <3>1. hh[l] = h[l] /\ k \in DOMAIN h /\ l \in DOMAIN h
        BY <1>5, <2>1, <2>3
      <3>2. h[k].end < h[l].end
        BY <1>4, <1>12, <3>1 DEF HorizonsAgree
      <3>3. QED
        BY <2>1, <3>1, <3>2
    <2>4. CASE l = Len(h) + 1
      BY <1>2, <1>3, <1>5, <2>1, <2>2, <2>4
    <2>5. QED
      BY <1>5, <2>3, <2>4
  <1>13. HorizonsAgree(all, hh)
    BY <1>10, <1>11, <1>12 DEF HorizonsAgree
  <1>14. QED
    BY <1>13 DEF all, item, hh

\* And so do the retained bytes.
LEMMA StagedContentsAgree ==
  ASSUME NEW g, Ready(g)
  PROVE  RetainedContents(Staged(g)) =
           g.snapshots \cup { g.captured[a.id] : a \in SourceSet(g.draft) }
  <1> DEFINE all == Staged(g)
             r == g.records
             S == SourceSet(g.draft)
             C == { g.captured[a.id] : a \in S }
  <1>1. g.snapshots = { r[i].content : i \in Positions(r, "SourceSnapshot") }
    BY DEF Ready, Verified, VerifyCanonical, RetainedContents
  <1>2. \A a \in S : g.captured[a.id] = a.content
    BY DEF Ready, Verified, ValidDraft
  <1>3. ASSUME NEW i \in Positions(all, "SourceSnapshot")
        PROVE  all[i].content \in g.snapshots \cup C
    <2>1. i \in 1 .. EndsAt(g) /\ all[i].kind = "SourceSnapshot"
      BY StagedDomain DEF Positions
    <2>2. CASE i \in 1 .. Len(r)
      <3>1. all[i] = r[i] /\ i \in Positions(r, "SourceSnapshot")
        BY <2>1, <2>2, StagedDomain, ReadyFacts DEF Positions
      <3>2. QED
        BY <1>1, <3>1
    <2>3. CASE i \in OpensAt(g) .. EndsAt(g)
      <3>1. PICK a \in S : SourceAt(g, i, a)
        BY <2>1, <2>3, AddedByKind
      <3>2. all[i].content = g.captured[a.id]
        BY <1>2, <3>1, SourceRecordAt
      <3>3. QED
        BY <3>2
    <2>4. QED
      BY <2>1, <2>2, <2>3, StagedDomain
  <1>4. ASSUME NEW c \in g.snapshots
        PROVE  \E i \in Positions(all, "SourceSnapshot") : all[i].content = c
    <2>1. PICK i \in Positions(r, "SourceSnapshot") : c = r[i].content
      BY <1>1
    <2>2. i \in 1 .. Len(r) /\ i \in 1 .. EndsAt(g) /\ r[i].kind = "SourceSnapshot"
      BY ReadyFacts, Bounds DEF Positions
    <2>3. all[i] = r[i] /\ i \in Positions(all, "SourceSnapshot")
      BY <2>2, StagedDomain DEF Positions
    <2>4. QED
      BY <2>1, <2>3
  <1>5. ASSUME NEW a \in S
        PROVE  \E i \in Positions(all, "SourceSnapshot") :
                  all[i].content = g.captured[a.id]
    <2>1. PICK i \in (OpensAt(g) + 1) .. SourcesEnd(g) : SourceAt(g, i, a)
      BY SourcesArePlaced
    <2>2. all[i].kind = "SourceSnapshot" /\ all[i].content = g.captured[a.id]
      BY <1>2, <2>1, SourceRecordAt
    <2>3. i \in 1 .. EndsAt(g)
      BY Bounds
    <2>4. i \in Positions(all, "SourceSnapshot")
      BY <2>2, <2>3, StagedDomain DEF Positions
    <2>5. QED
      BY <2>2, <2>4
  <1>6. RetainedContents(all) = { all[i].content : i \in Positions(all, "SourceSnapshot") }
    BY DEF RetainedContents
  <1> HIDE DEF all
  <1>7. RetainedContents(all) = g.snapshots \cup C
    BY <1>3, <1>4, <1>5, <1>6
  <1>8. QED
    BY <1>7 DEF all

\* The generation a close stages passes the gate.
LEMMA ClosedIsValid ==
  ASSUME NEW g, MayClose(g), Len(Staged(g)) <= MaxRecords
  PROVE  ValidateStagedState(Closed(g))
  <1> DEFINE c == Closed(g)
  <1>1. Ready(g) /\ Drawn(g) /\ Sound(g) /\ g.draft # NoDraft
    BY DEF MayClose, Ready
  <1>2. /\ c.records = Staged(g)
        /\ c.horizons = Append(g.horizons, HorizonItem(c.records, Len(c.records)))
        /\ c.requestedAsOf = g.requestedAsOf
        /\ c.draft = NoDraft
        /\ c.captured = <<>>
        /\ c.snapshots = g.snapshots \cup { g.captured[a.id] : a \in SourceSet(g.draft) }
    BY <1>1, ClosedExtendsJournal DEF Staged
  <1> HIDE DEF c
  <1>3. VerifyCanonical(c.records, c.horizons, c.snapshots)
    <2>1. VerifiedRecords(c.records)
      BY <1>2, StagedIsVerified
    <2>2. HorizonsAgree(c.records, c.horizons)
      BY <1>2, StagedHorizonsAgree
    <2>3. c.snapshots = RetainedContents(c.records)
      BY <1>1, <1>2, StagedContentsAgree
    <2>4. QED
      BY <2>1, <2>2, <2>3 DEF VerifyCanonical
  <1>4. ValidMetadata(c)
    <2> DEFINE item == HorizonItem(c.records, Len(c.records))
    <2>1. g.requestedAsOf \subseteq ClosedNames(g.horizons)
      BY <1>1 DEF Ready, Verified, ValidMetadata
    <2>2. IsSequence(g.horizons)
      BY <1>1 DEF Sound
    <2>3. /\ DOMAIN g.horizons \subseteq DOMAIN Append(g.horizons, item)
          /\ \A k \in DOMAIN g.horizons : Append(g.horizons, item)[k] = g.horizons[k]
      BY <2>2, AppendIsSequence, SequenceFacts
    <2>4. ClosedNames(g.horizons) \subseteq ClosedNames(c.horizons)
      BY <1>2, <2>3 DEF ClosedNames
    <2>5. QED
      BY <1>2, <2>1, <2>4 DEF ValidMetadata
  <1>5. ValidDraft(c)
    <2>1. <<>> \in Seq({}) /\ Len(<<>>) = 0
      BY EmptySeq
    <2>2. DOMAIN <<>> = 1 .. 0
      BY <2>1, LenProperties
    <2>3. QED
      BY <1>2, <2>2 DEF ValidDraft
  <1>6. UsableProjections(c)
    BY <1>1, ClosedHasDossiers DEF UsableProjections, c
  <1>7. ValidateStagedState(c)
    BY <1>3, <1>4, <1>5, <1>6 DEF ValidateStagedState
  <1>8. QED
    BY <1>7 DEF c

-----------------------------------------------------------------------------
(***************************************************************************)
(* The generation that commands start from.                                *)
(***************************************************************************)

\* A free identifier is left for every prefix, so the next draw succeeds.
IdsRemain ==
  \A prefix \in Prefixes3 : \E n \in Serials : <<prefix, n>> \notin AllTakenIds(active)

\* A draw gives an identifier that is not taken.
LEMMA GeneratedIsFresh ==
  ASSUME NEW prefix, NEW taken, \E n \in Serials : <<prefix, n>> \notin taken
  PROVE  GeneratedId(prefix, taken) \in IdsWith(prefix) \ taken
  BY DEF GeneratedId, IdsWith

\* What the selected generation looks like between two commands.
Steady == WorkbenchInv /\ Drawn(active)

\* Dossiers stay usable while the journal does not change.
LEMMA SameDossiersAreUsable ==
  ASSUME NEW g, NEW f, UsableProjections(f),
         g.records = f.records, g.horizons = f.horizons,
         g.requestedAsOf = f.requestedAsOf, g.derived = f.derived
  PROVE  UsableProjections(g)
  <1>1. /\ ExpectedProjections(g) = ExpectedProjections(f)
        /\ ProjectionPaths(g) = ProjectionPaths(f)
    BY DEF ExpectedProjections, ProjectionPaths
  <1>2. CASE DOMAIN f.derived = {}
    BY <1>2 DEF UsableProjections, ProjectionStatus
  <1>3. CASE DOMAIN f.derived # {} /\ f.derived = ExpectedProjections(f)
    BY <1>1, <1>3 DEF UsableProjections, ProjectionStatus
  <1>4. QED
    BY <1>2, <1>3, UsableIsAbsentOrExact

\* Regenerated dossiers are usable.
LEMMA ExactDossiersAreUsable ==
  ASSUME NEW g, g.derived = ExpectedProjections(g)
  PROVE  UsableProjections(g)
  BY DEF UsableProjections, ProjectionStatus

\* What keeps the journal of the selected generation and has a valid draft
\* and usable dossiers passes the gate.
LEMMA SameJournalIsValid ==
  ASSUME WorkbenchInv, NEW g,
         g.records = active.records, g.horizons = active.horizons,
         g.snapshots = active.snapshots,
         ValidMetadata(g), ValidDraft(g), UsableProjections(g)
  PROVE  ValidateStagedState(g)
  BY DEF ValidateStagedState, WorkbenchInv, Verified

-----------------------------------------------------------------------------
(***************************************************************************)
(* Adding an action to the draft.                                          *)
(***************************************************************************)
\* An action that may follow the others.
Fitting(records, actions, a) ==
  LET before  == ToSet(actions)
      sources == { b \in before : b.kind = "source" }
      taken   == JournalIds(records) \cup UNION { ActionIds(b) : b \in before }
  IN
  /\ a.kind = "source" =>
       /\ a.id \notin taken
       /\ a.alias \notin JournalAliases(records, "SourceSnapshot")
       /\ \A b \in sources : /\ b.alias # a.alias
                             /\ b.path # a.path
                             /\ b.content # a.content
                             /\ b.identity # a.identity
  /\ a.kind # "source" => ActionIds(a) \cap taken = {}
  /\ a.kind = "assertion-add" => AssertionState(records, actions, a.alias) = None
  /\ a.kind = "assertion-revise" =>
       AssertionState(records, actions, a.alias) =
         [ assertion |-> a.assertion, revision |-> a.predecessor ]
  /\ a.kind = "question" =>
       /\ a.alias \notin JournalAliases(records, "QuestionOpened")
       /\ \A b \in before : b.kind = "question" => b.alias # a.alias
       /\ a.source = None => a.span = None
  /\ a.kind # "source" /\ a.source # None => \E b \in sources : b.alias = a.source

\* An action that fits is valid in its place.
LEMMA FittingIsValid ==
  ASSUME NEW records, NEW actions, IsSequence(actions),
         NEW a, Fitting(records, actions, a)
  PROVE  ValidAction(records, Append(actions, a), Len(actions) + 1)
  <1> DEFINE all == Append(actions, a)
             n == Len(actions)
  <1>1. /\ IsSequence(all) /\ Len(all) = n + 1 /\ n \in Nat
        /\ \A i \in 1 .. n : all[i] = actions[i]
        /\ all[n + 1] = a
    BY AppendIsSequence, SequenceFacts
  <1>2. SubSeq(all, 1, n + 1 - 1) = actions
    <2>1. SubSeq(actions, 1, n) = SubSeq(all, 1, n)
      BY <1>1, SubSeqOfExtension
    <2>2. SubSeq(actions, 1, n) = actions
      <3>1. actions \in Seq(Range(actions))
        BY DEF IsSequence
      <3>2. QED
        BY <3>1
    <2>3. n + 1 - 1 = n
      BY <1>1
    <2>4. QED
      BY <2>1, <2>2, <2>3
  <1> DEFINE before(e)  == ToSet(e)
             sources(e) == { b \in before(e) : b.kind = "source" }
             taken(e)   == JournalIds(records) \cup UNION { ActionIds(b) : b \in before(e) }
             Valid(x, e) ==
               /\ x.kind = "source" =>
                    /\ x.id \notin taken(e)
                    /\ x.alias \notin JournalAliases(records, "SourceSnapshot")
                    /\ \A b \in sources(e) : /\ b.alias # x.alias
                                             /\ b.path # x.path
                                             /\ b.content # x.content
                                             /\ b.identity # x.identity
               /\ x.kind = "assertion-add" =>
                    /\ ActionIds(x) \cap taken(e) = {}
                    /\ AssertionState(records, e, x.alias) = None
               /\ x.kind = "assertion-revise" =>
                    /\ ActionIds(x) \cap taken(e) = {}
                    /\ AssertionState(records, e, x.alias) =
                         [ assertion |-> x.assertion, revision |-> x.predecessor ]
               /\ x.kind = "question" =>
                    /\ ActionIds(x) \cap taken(e) = {}
                    /\ x.alias \notin JournalAliases(records, "QuestionOpened")
                    /\ \A b \in before(e) : b.kind = "question" => b.alias # x.alias
                    /\ x.source = None => x.span = None
               /\ x.kind # "source" /\ x.source # None =>
                    \E b \in sources(e) : b.alias = x.source
  <1>3. Valid(a, actions)
    BY DEF Fitting
  <1>4. Valid(all[n + 1], SubSeq(all, 1, n + 1 - 1)) =>
          ValidAction(records, all, n + 1)
    BY DEF ValidAction
  <1> HIDE DEF Valid, all, n
  <1>5. ValidAction(records, all, n + 1)
    BY <1>1, <1>2, <1>3, <1>4
  <1>6. QED
    BY <1>5 DEF all, n

\* Appending an action leaves the earlier ones valid.
LEMMA ValidActionOfAppend ==
  ASSUME NEW records, NEW actions, IsSequence(actions), NEW a,
         NEW i \in 1 .. Len(actions), ValidAction(records, actions, i)
  PROVE  ValidAction(records, Append(actions, a), i)
  <1> DEFINE all == Append(actions, a)
  <1>1. /\ IsSequence(all) /\ Len(all) = Len(actions) + 1 /\ Len(actions) \in Nat
        /\ \A j \in 1 .. Len(actions) : all[j] = actions[j]
    BY AppendIsSequence, SequenceFacts
  <1>2. SubSeq(all, 1, i - 1) = SubSeq(actions, 1, i - 1)
    <2>1. i - 1 \in 0 .. Len(actions) /\ Len(actions) <= Len(all)
      BY <1>1
    <2>2. QED
      BY <1>1, <2>1, SubSeqOfExtension
  <1>3. all[i] = actions[i]
    BY <1>1
  <1> HIDE DEF all
  <1>4. ValidAction(records, all, i)
    BY <1>2, <1>3 DEF ValidAction
  <1>5. QED
    BY <1>4 DEF all

\* The draft with a fitting action passes the gate.
LEMMA ExtensionIsValid ==
  ASSUME Steady, active.draft # NoDraft, UsableProjections(active),
         NEW a, Fitting(active.records, active.draft.actions, a), DrawnAction(a),
         NEW g, g.records = active.records, g.horizons = active.horizons,
         g.snapshots = active.snapshots, g.requestedAsOf = active.requestedAsOf,
         g.derived = active.derived,
         g.draft.name = active.draft.name, g.draft.id = active.draft.id,
         g.draft.actions = Append(active.draft.actions, a),
         a.kind = "source" =>
           /\ DOMAIN g.captured = DOMAIN active.captured \cup { a.id }
           /\ \A x \in DOMAIN active.captured \ { a.id } :
                 g.captured[x] = active.captured[x]
           /\ g.captured[a.id] = a.content,
         a.kind # "source" => g.captured = active.captured
  PROVE  ValidateStagedState(g) /\ Drawn(g)
  <1> DEFINE A == active.draft.actions
             B == g.draft.actions
             S == SourceSet(active.draft)
             T == SourceSet(g.draft)
  <1>1. Ready(active) /\ Drawn(active) /\ WorkbenchInv
    BY DEF Steady, WorkbenchInv, Ready
  <1>2. /\ IsSequence(A) /\ DOMAIN A = 1 .. Len(A) /\ Len(A) \in Nat
        /\ \A i \in 1 .. Len(A) : ValidAction(active.records, A, i) /\ DrawnAction(A[i])
    BY <1>1, ReadyFacts, DrawnFacts
  <1>3. /\ DOMAIN B = 1 .. Len(A) + 1
        /\ \A i \in 1 .. Len(A) : B[i] = A[i]
        /\ B[Len(A) + 1] = a
    BY <1>2, AppendIsSequence, SequenceFacts
  <1>4. g.draft # NoDraft
    <2>1. active.draft.name \in Names
      BY <1>1 DEF Ready, Sound, SoundDraft
    <2>2. QED
      BY <2>1, NamesAssumption DEF NoDraft
  <1>5. /\ active.draft.name \notin ClosedNames(active.horizons)
        /\ \A k \in DOMAIN active.horizons : active.horizons[k].id # active.draft.id
        /\ DOMAIN active.captured = { x.id : x \in S }
        /\ \A x \in S : active.captured[x.id] = x.content
    BY <1>1 DEF Ready, Verified, ValidDraft
  <1>6. ASSUME NEW i \in DOMAIN B
        PROVE  ValidAction(active.records, B, i) /\ DrawnAction(B[i])
    <2>1. CASE i \in 1 .. Len(A)
      BY <1>2, <1>3, <2>1, ValidActionOfAppend
    <2>2. CASE i = Len(A) + 1
      BY <1>2, <1>3, <2>2, FittingIsValid
    <2>3. QED
      BY <1>2, <1>3, <2>1, <2>2
  <1>7. T = S \cup { x \in { a } : x.kind = "source" }
    <2>1. T = { B[i] : i \in { j \in 1 .. Len(A) + 1 : B[j].kind = "source" } }
      BY <1>3 DEF SourceSet, ToSet
    <2>2. S = { A[i] : i \in { j \in 1 .. Len(A) : A[j].kind = "source" } }
      BY <1>2 DEF SourceSet, ToSet
    <2>3. ASSUME NEW x \in T
          PROVE  x \in S \/ (x = a /\ x.kind = "source")
      <3>1. PICK i \in 1 .. Len(A) + 1 : x = B[i] /\ B[i].kind = "source"
        BY <2>1
      <3>2. CASE i \in 1 .. Len(A)
        BY <1>3, <2>2, <3>1, <3>2
      <3>3. CASE i = Len(A) + 1
        BY <1>3, <3>1, <3>3
      <3>4. QED
        BY <1>2, <3>1, <3>2, <3>3
    <2>4. ASSUME NEW x \in S
          PROVE  x \in T
      <3>1. PICK i \in 1 .. Len(A) : x = A[i] /\ A[i].kind = "source"
        BY <2>2
      <3>2. i \in 1 .. Len(A) + 1 /\ x = B[i] /\ B[i].kind = "source"
        BY <1>2, <1>3, <3>1
      <3>3. QED
        BY <2>1, <3>2
    <2>5. ASSUME a.kind = "source"
          PROVE  a \in T
      <3>1. Len(A) + 1 \in 1 .. Len(A) + 1
        BY <1>2
      <3>2. QED
        BY <1>3, <2>1, <2>5, <3>1
    <2> HIDE DEF S, T
    <2>6. QED
      BY <2>3, <2>4, <2>5
  <1>8. /\ DOMAIN g.captured = { x.id : x \in T }
        /\ \A x \in T : g.captured[x.id] = x.content
    <2>1. CASE a.kind # "source"
      <3>1. T = S
        BY <1>7, <2>1
      <3>2. QED
        BY <1>5, <2>1, <3>1
    <2>2. CASE a.kind = "source"
      <3>1. T = S \cup { a }
        BY <1>7, <2>2
      <3>2. ASSUME NEW x \in S
            PROVE  x.id # a.id /\ x.id \in DOMAIN active.captured
        <4>1. x \in ToSet(A) /\ x.id \in ActionIds(x)
          BY IdsOfAction DEF SourceSet
        <4>2. a.id \notin UNION { ActionIds(b) : b \in ToSet(A) }
          BY <2>2 DEF Fitting
        <4>3. QED
          BY <1>5, <4>1, <4>2
      <3> HIDE DEF S, T
      <3>3. DOMAIN g.captured = { x.id : x \in T }
        BY <1>5, <2>2, <3>1
      <3>4. \A x \in T : g.captured[x.id] = x.content
        BY <1>5, <2>2, <3>1, <3>2
      <3>5. QED
        BY <3>3, <3>4
    <2>3. QED
      BY <2>1, <2>2
  <1>9. ValidDraft(g)
    BY <1>4, <1>5, <1>6, <1>8 DEF ValidDraft
  <1>10. ValidMetadata(g)
    BY <1>1 DEF Ready, Verified, ValidMetadata
  <1>11. UsableProjections(g)
    BY SameDossiersAreUsable
  <1>12. ValidateStagedState(g)
    BY <1>1, <1>9, <1>10, <1>11, SameJournalIsValid
  <1>13. Drawn(g)
    <2>1. /\ \A i \in DOMAIN active.records : DrawnRecord(active.records[i])
          /\ active.draft.id \in IdsWith("hor") \ JournalIds(active.records)
      BY <1>1 DEF Drawn, Ready
    <2>2. QED
      BY <1>6, <2>1 DEF Drawn
  <1>14. QED
    BY <1>12, <1>13

-----------------------------------------------------------------------------
(***************************************************************************)
(* The commands that work on the draft.                                    *)
(***************************************************************************)

\* What a draft command stages passes the gate.
Passes(g) == ValidateStagedState(g) /\ Drawn(g)

\* What an appended action changes.
LEMMA ExtendedFields ==
  ASSUME Sound(active), active.draft # NoDraft, NEW a
  PROVE  LET g == Extended(a)
         IN  /\ DOMAIN g = Members
             /\ g.records = active.records /\ g.horizons = active.horizons
             /\ g.snapshots = active.snapshots
             /\ g.requestedAsOf = active.requestedAsOf
             /\ g.derived = active.derived
             /\ g.captured = active.captured
             /\ g.draft.name = active.draft.name
             /\ g.draft.id = active.draft.id
             /\ g.draft.actions = Append(active.draft.actions, a)
  BY DEF Extended, Sound, SoundDraft, Members

\* A statement about a captured source that fits the draft passes the gate.
LEMMA ExtendedPasses ==
  ASSUME Steady, MayExtendDraft, NEW a, a.kind # "source",
         Fitting(active.records, active.draft.actions, a), DrawnAction(a)
  PROVE  Passes(Extended(a))
  <1> DEFINE g == Extended(a)
  <1>1. Sound(active) /\ active.draft # NoDraft /\ UsableProjections(active)
    BY DEF Steady, WorkbenchInv, MayExtendDraft
  <1>2. /\ g.records = active.records /\ g.horizons = active.horizons
        /\ g.snapshots = active.snapshots
        /\ g.requestedAsOf = active.requestedAsOf
        /\ g.derived = active.derived
        /\ g.captured = active.captured
        /\ g.draft.name = active.draft.name
        /\ g.draft.id = active.draft.id
        /\ g.draft.actions = Append(active.draft.actions, a)
    BY <1>1, ExtendedFields
  <1> HIDE DEF g
  <1>3. ValidateStagedState(g) /\ Drawn(g)
    BY <1>1, <1>2, ExtensionIsValid
  <1>4. QED
    BY <1>3 DEF g, Passes

\* The identifiers that are taken, seen from a new action.
LEMMA TakenIds ==
  ASSUME active.draft # NoDraft
  PROVE  AllTakenIds(active) =
           JournalIds(active.records) \cup { active.draft.id }
             \cup UNION { ActionIds(b) : b \in ToSet(active.draft.actions) }
  BY DEF AllTakenIds, DraftIds

\* The sources before a new action are those of the draft.
LEMMA SourcesBefore ==
  ASSUME NEW draft
  PROVE  SourceSet(draft) = { b \in ToSet(draft.actions) : b.kind = "source" }
  BY DEF SourceSet

\* A captured source passes the gate.
LEMMA SourcePasses ==
  ASSUME Steady, IdsRemain,
         NEW alias \in SourceAliases, NEW path \in Paths, AddSource(alias, path)
  PROVE  \E command, g : Publish(command, g) /\ Passes(g)
  <1> DEFINE T == AllTakenIds(active)
             A == active.draft.actions
             id == GeneratedId("src", T)
             a == [ kind     |-> "source",
                    alias    |-> alias,
                    path     |-> path,
                    id       |-> id,
                    content  |-> host[path].content,
                    identity |-> host[path].identity ]
             captured == With(active.captured, id, host[path].content)
             g == [ Extended(a) EXCEPT !.captured = With(@, id, host[path].content) ]
  <1>1. /\ MayExtendDraft /\ Publish("source", g)
        /\ alias \notin JournalAliases(active.records, "SourceSnapshot")
        /\ \A b \in SourceSet(active.draft) : /\ b.alias # alias
                                              /\ b.path # path
                                              /\ b.content # host[path].content
                                              /\ b.identity # host[path].identity
    BY DEF AddSource
  <1>2. Sound(active) /\ active.draft # NoDraft /\ UsableProjections(active)
    BY <1>1 DEF Steady, WorkbenchInv, MayExtendDraft
  <1>3. id \in IdsWith("src") \ T
    BY GeneratedIsFresh DEF IdsRemain, Prefixes3
  <1>4. /\ a.kind = "source" /\ a.alias = alias /\ a.path = path /\ a.id = id
        /\ a.content = host[path].content /\ a.identity = host[path].identity
    OBVIOUS
  <1> HIDE DEF id, T, a
  <1>5. DrawnAction(a)
    BY <1>3, <1>4 DEF DrawnAction
  <1>6. Fitting(active.records, A, a)
    <2>1. a.id \notin JournalIds(active.records) \cup UNION { ActionIds(b) : b \in ToSet(A) }
      BY <1>2, <1>3, <1>4, TakenIds DEF T
    <2>2. \A b \in { b \in ToSet(A) : b.kind = "source" } :
             /\ b.alias # a.alias
             /\ b.path # a.path
             /\ b.content # a.content
             /\ b.identity # a.identity
      BY <1>1, <1>4, SourcesBefore
    <2>3. QED
      BY <1>1, <1>4, <2>1, <2>2 DEF Fitting
  <1>7. /\ DOMAIN Extended(a) = Members
        /\ Extended(a).records = active.records
        /\ Extended(a).horizons = active.horizons
        /\ Extended(a).snapshots = active.snapshots
        /\ Extended(a).requestedAsOf = active.requestedAsOf
        /\ Extended(a).derived = active.derived
        /\ Extended(a).captured = active.captured
        /\ Extended(a).draft.name = active.draft.name
        /\ Extended(a).draft.id = active.draft.id
        /\ Extended(a).draft.actions = Append(A, a)
    BY <1>2, ExtendedFields
  <1>8. /\ g.records = active.records /\ g.horizons = active.horizons
        /\ g.snapshots = active.snapshots
        /\ g.requestedAsOf = active.requestedAsOf
        /\ g.derived = active.derived
        /\ g.captured = captured
        /\ g.draft.name = active.draft.name
        /\ g.draft.id = active.draft.id
        /\ g.draft.actions = Append(A, a)
    BY <1>7 DEF Members
  <1> HIDE DEF g
  <1>9. /\ DOMAIN captured = DOMAIN active.captured \cup { a.id }
        /\ \A x \in DOMAIN active.captured \ { a.id } : captured[x] = active.captured[x]
        /\ captured[a.id] = a.content
    BY <1>4 DEF With
  <1> HIDE DEF captured
  <1>10. ValidateStagedState(g) /\ Drawn(g)
    BY <1>2, <1>4, <1>5, <1>6, <1>8, <1>9, ExtensionIsValid
  <1>11. QED
    BY <1>1, <1>10 DEF Passes

\* The guard that a cited source is captured.
LEMMA CitedIsCaptured ==
  ASSUME NEW source, \E a \in SourceSet(active.draft) : a.alias = source
  PROVE  \E b \in { b \in ToSet(active.draft.actions) : b.kind = "source" } :
            b.alias = source
  BY SourcesBefore

\* A new assertion passes the gate.
LEMMA AssertionPasses ==
  ASSUME Steady, IdsRemain,
         NEW alias \in AssertionAliases, NEW source \in SourceAliases,
         AddAssertion(alias, source)
  PROVE  \E command, g : Publish(command, g) /\ Passes(g)
  <1> DEFINE T == AllTakenIds(active)
             A == active.draft.actions
             x == GeneratedId("ast", T)
             y == GeneratedId("rev", T)
             z == GeneratedId("evd", T)
             a == [ kind |-> "assertion-add", alias |-> alias, assertion |-> x,
                    id |-> y, span |-> z, source |-> source ]
  <1>1. /\ MayExtendDraft /\ Publish("assertion", Extended(a))
        /\ \E b \in SourceSet(active.draft) : b.alias = source
        /\ AssertionState(active.records, A, alias) = None
    BY DEF AddAssertion
  <1>2. active.draft # NoDraft
    BY <1>1 DEF MayExtendDraft
  <1>3. /\ x \in IdsWith("ast") \ T
        /\ y \in IdsWith("rev") \ T
        /\ z \in IdsWith("evd") \ T
    BY GeneratedIsFresh DEF IdsRemain, Prefixes3
  <1>4. /\ a.kind = "assertion-add" /\ a.alias = alias /\ a.assertion = x
        /\ a.id = y /\ a.span = z /\ a.source = source
    OBVIOUS
  <1> HIDE DEF T, x, y, z, a
  <1>6. DrawnAction(a)
    BY <1>3, <1>4 DEF DrawnAction
  <1>7. ActionIds(a) \subseteq { x, y, z }
    BY <1>4 DEF ActionIds
  <1>8. Fitting(active.records, A, a)
    <2>1. ActionIds(a) \cap (JournalIds(active.records)
            \cup UNION { ActionIds(b) : b \in ToSet(A) }) = {}
      BY <1>2, <1>3, <1>7, TakenIds DEF T
    <2>2. \E b \in { b \in ToSet(A) : b.kind = "source" } : b.alias = source
      BY <1>1, CitedIsCaptured
    <2>3. QED
      BY <1>1, <1>4, <2>1, <2>2 DEF Fitting
  <1>9. Passes(Extended(a))
    BY <1>1, <1>4, <1>6, <1>8, ExtendedPasses
  <1>10. QED
    BY <1>1, <1>9

\* The state of an alias names an assertion and a revision of it.
LEMMA StateIsDrawn ==
  ASSUME Steady, active.draft # NoDraft, NEW alias, NEW state,
         state = AssertionState(active.records, active.draft.actions, alias),
         state # None
  PROVE  /\ state = [ assertion |-> state.assertion, revision |-> state.revision ]
         /\ state.assertion \in IdsWith("ast")
         /\ state.revision \in IdsWith("rev")
  <1> DEFINE A == active.draft.actions
             r == active.records
             D == { i \in DOMAIN A : Revises(A[i], alias) }
             J == { i \in Positions(r, "AssertionRevision") : r[i].alias = alias }
  <1>1. Ready(active) /\ Drawn(active)
    BY DEF Steady, WorkbenchInv, Ready
  <1>2. /\ DOMAIN A = 1 .. Len(A) /\ Len(A) \in Nat
        /\ DOMAIN r = 1 .. Len(r) /\ Len(r) \in Nat
    BY <1>1, ReadyFacts
  <1>3. D \in SUBSET (1 .. Len(A)) /\ J \in SUBSET (1 .. Len(r))
    BY <1>2 DEF Positions
  <1>4. /\ LastOf(D) # 0 => LastOf(D) \in D
        /\ LastOf(J) # 0 => LastOf(J) \in J
    BY <1>2, <1>3, LastOfPositions
  <1>5. state = IF LastOf(D) # 0
                THEN [ assertion |-> A[LastOf(D)].assertion,
                       revision  |-> A[LastOf(D)].id ]
                ELSE IF LastOf(J) # 0
                THEN [ assertion |-> r[LastOf(J)].assertion,
                       revision  |-> r[LastOf(J)].id ]
                ELSE None
    BY DEF AssertionState
  <1>6. ASSUME NEW i \in D
        PROVE  A[i].assertion \in IdsWith("ast") /\ A[i].id \in IdsWith("rev")
    <2>1. i \in 1 .. Len(A) /\ A[i].kind \in Revising
      BY <1>2 DEF Revises, Revising
    <2>2. QED
      BY <1>1, <2>1, RevisingIsDrawn
  <1>7. ASSUME NEW i \in J
        PROVE  r[i].assertion \in IdsWith("ast") /\ r[i].id \in IdsWith("rev")
    <2>1. i \in 1 .. Len(r) /\ r[i].kind = "AssertionRevision"
      BY <1>2 DEF Positions
    <2>2. DrawnRecord(r[i])
      BY <1>1, <2>1, ReadyFacts, DrawnFacts
    <2>3. QED
      BY <2>1, <2>2, PrefixOfKinds DEF DrawnRecord
  <1> HIDE DEF D, J
  <1>8. CASE LastOf(D) # 0
    BY <1>4, <1>5, <1>6, <1>8
  <1>9. CASE LastOf(D) = 0 /\ LastOf(J) # 0
    BY <1>4, <1>5, <1>7, <1>9
  <1>10. QED
    BY <1>5, <1>8, <1>9

\* A revision passes the gate.
LEMMA RevisionPasses ==
  ASSUME Steady, IdsRemain,
         NEW alias \in AssertionAliases, NEW source \in SourceAliases,
         ReviseAssertion(alias, source)
  PROVE  \E command, g : Publish(command, g) /\ Passes(g)
  <1> DEFINE T == AllTakenIds(active)
             A == active.draft.actions
             current == AssertionState(active.records, A, alias)
             y == GeneratedId("rev", T)
             z == GeneratedId("evd", T)
             a == [ kind |-> "assertion-revise", alias |-> alias,
                    assertion |-> current.assertion,
                    predecessor |-> current.revision,
                    id |-> y, span |-> z, source |-> source ]
  <1>1. /\ MayExtendDraft /\ Publish("revise", Extended(a))
        /\ \E b \in SourceSet(active.draft) : b.alias = source
        /\ current # None
    BY DEF ReviseAssertion
  <1>2. active.draft # NoDraft
    BY <1>1 DEF MayExtendDraft
  <1>3. /\ y \in IdsWith("rev") \ T
        /\ z \in IdsWith("evd") \ T
    BY GeneratedIsFresh DEF IdsRemain, Prefixes3
  <1>4. /\ a.kind = "assertion-revise" /\ a.alias = alias
        /\ a.assertion = current.assertion /\ a.predecessor = current.revision
        /\ a.id = y /\ a.span = z /\ a.source = source
    OBVIOUS
  <1>5. /\ current = [ assertion |-> current.assertion, revision |-> current.revision ]
        /\ current.assertion \in IdsWith("ast")
        /\ current.revision \in IdsWith("rev")
    BY <1>1, <1>2, StateIsDrawn
  <1> HIDE DEF T, y, z, a
  <1>7. DrawnAction(a)
    BY <1>3, <1>4, <1>5 DEF DrawnAction
  <1>8. ActionIds(a) \subseteq { y, z }
    BY <1>4 DEF ActionIds
  <1>9. Fitting(active.records, A, a)
    <2>1. ActionIds(a) \cap (JournalIds(active.records)
            \cup UNION { ActionIds(b) : b \in ToSet(A) }) = {}
      BY <1>2, <1>3, <1>8, TakenIds DEF T
    <2>2. \E b \in { b \in ToSet(A) : b.kind = "source" } : b.alias = source
      BY <1>1, CitedIsCaptured
    <2>3. AssertionState(active.records, A, a.alias) =
            [ assertion |-> a.assertion, revision |-> a.predecessor ]
      BY <1>4, <1>5
    <2>4. QED
      BY <1>4, <2>1, <2>2, <2>3 DEF Fitting
  <1>10. Passes(Extended(a))
    BY <1>1, <1>4, <1>7, <1>9, ExtendedPasses
  <1>11. QED
    BY <1>1, <1>10

\* A question passes the gate.
LEMMA QuestionPasses ==
  ASSUME Steady, IdsRemain,
         NEW alias \in QuestionAliases, NEW source \in SourceAliases \cup { None },
         AddQuestion(alias, source)
  PROVE  \E command, g : Publish(command, g) /\ Passes(g)
  <1> DEFINE T == AllTakenIds(active)
             A == active.draft.actions
             y == GeneratedId("qst", T)
             z == IF source = None THEN None ELSE GeneratedId("evd", T)
             a == [ kind |-> "question", alias |-> alias, id |-> y, span |-> z,
                    source |-> source ]
  <1>1. /\ MayExtendDraft /\ Publish("question", Extended(a))
        /\ alias \notin JournalAliases(active.records, "QuestionOpened")
        /\ \A b \in ToSet(A) : b.kind = "question" => b.alias # alias
        /\ source # None => \E b \in SourceSet(active.draft) : b.alias = source
    BY DEF AddQuestion
  <1>2. active.draft # NoDraft
    BY <1>1 DEF MayExtendDraft
  <1>3. /\ y \in IdsWith("qst") \ T
        /\ GeneratedId("evd", T) \in IdsWith("evd") \ T
    BY GeneratedIsFresh DEF IdsRemain, Prefixes3
  <1>4. /\ a.kind = "question" /\ a.alias = alias
        /\ a.id = y /\ a.span = z /\ a.source = source
    OBVIOUS
  <1>5. /\ z \in (IdsWith("evd") \ T) \cup { None }
        /\ source = None => z = None
    BY <1>3
  <1> HIDE DEF T, y, z, a
  <1>6. DrawnAction(a)
    BY <1>3, <1>4, <1>5 DEF DrawnAction
  <1>7. ActionIds(a) \subseteq { y } \cup ({ z } \ { None })
    BY <1>4 DEF ActionIds
  <1>8. Fitting(active.records, A, a)
    <2>1. ActionIds(a) \cap (JournalIds(active.records)
            \cup UNION { ActionIds(b) : b \in ToSet(A) }) = {}
      BY <1>2, <1>3, <1>5, <1>7, TakenIds DEF T
    <2>2. source # None =>
            \E b \in { b \in ToSet(A) : b.kind = "source" } : b.alias = source
      BY <1>1, CitedIsCaptured
    <2>3. QED
      BY <1>1, <1>4, <1>5, <2>1, <2>2 DEF Fitting
  <1>9. Passes(Extended(a))
    BY <1>1, <1>4, <1>6, <1>8, ExtendedPasses
  <1>10. QED
    BY <1>1, <1>9

-----------------------------------------------------------------------------
(***************************************************************************)
(* The other commands.                                                     *)
(***************************************************************************)
\* A horizon of HEAD.json has an identifier that the journal holds.
LEMMA HorizonIdsAreTaken ==
  ASSUME WorkbenchInv, NEW k \in DOMAIN active.horizons
  PROVE  active.horizons[k].id \in JournalIds(active.records)
  <1> DEFINE r == active.records
             e == active.horizons[k].end
  <1>1. /\ e \in Positions(r, "HorizonClosed")
        /\ active.horizons[k] = HorizonItem(r, e)
    BY DEF WorkbenchInv, Verified, VerifyCanonical, HorizonsAgree
  <1>2. /\ IsSequence(r) /\ DOMAIN r = 1 .. Len(r) /\ Len(r) \in Nat
        /\ \A i \in DOMAIN r : GoodRecord(r, i)
    BY SequenceFacts
       DEF WorkbenchInv, Sound, Verified, VerifyCanonical, VerifiedRecords
  <1>3. e \in 1 .. Len(r) /\ r[e].kind = "HorizonClosed"
    BY <1>1, <1>2 DEF Positions
  <1>4. InOpenHorizon(r, e)
    BY <1>2, <1>3 DEF GoodRecord, GoodClosing
  <1> DEFINE o == OpeningAt(r, e)
  <1>5. o # 0 /\ r[e].horizon = r[o].id
    BY <1>4 DEF InOpenHorizon
  <1>6. o \in 1 .. Len(r)
    BY <1>2, <1>3, <1>5, OpeningIsLast
  <1>7. active.horizons[k].id = r[e].horizon
    BY <1>1 DEF HorizonItem
  <1>8. QED
    BY <1>2, <1>5, <1>6, <1>7 DEF JournalIds

\* A newly opened draft passes the gate.
LEMMA OpeningPasses ==
  ASSUME Steady, IdsRemain, NEW name \in Names, OpenHorizon(name)
  PROVE  \E command, g : Publish(command, g) /\ Passes(g)
  <1> DEFINE id == GeneratedId("hor", AllTakenIds(active))
             draft == [ name |-> name, id |-> id, actions |-> <<>> ]
             g == [ active EXCEPT !.draft = draft ]
  <1>1. /\ active.draft = NoDraft /\ name \notin ClosedNames(active.horizons)
        /\ UsableProjections(active) /\ Publish("open", g)
    BY DEF OpenHorizon
  <1>2. /\ Sound(active) /\ Verified(active) /\ Drawn(active) /\ WorkbenchInv
    BY DEF Steady, WorkbenchInv
  <1>3. id \in IdsWith("hor") \ AllTakenIds(active)
    BY GeneratedIsFresh DEF IdsRemain, Prefixes3
  <1>4. id \in IdsWith("hor") \ JournalIds(active.records)
    BY <1>3 DEF AllTakenIds
  <1>5. draft.name = name /\ draft.id = id /\ draft.actions = <<>>
    OBVIOUS
  <1>6. draft # NoDraft
    BY <1>5, NamesAssumption DEF NoDraft
  <1> HIDE DEF id, draft
  <1>7. /\ g.records = active.records /\ g.horizons = active.horizons
        /\ g.snapshots = active.snapshots /\ g.captured = active.captured
        /\ g.requestedAsOf = active.requestedAsOf
        /\ g.derived = active.derived /\ g.draft = draft
    BY <1>2 DEF Sound, Members
  <1> HIDE DEF g
  <1>8. <<>> \in Seq({}) /\ Len(<<>>) = 0
    BY EmptySeq
  <1>9. DOMAIN <<>> = {}
    <2>1. DOMAIN <<>> = 1 .. 0
      BY <1>8, LenProperties
    <2>2. QED
      BY <2>1
  <1>10. SourceSet(g.draft) = {}
    BY <1>5, <1>7, <1>9 DEF SourceSet, ToSet
  <1>11. DOMAIN g.captured = {}
    BY <1>1, <1>2, <1>7 DEF Verified, ValidDraft
  <1>12. \A k \in DOMAIN active.horizons : active.horizons[k].id # id
    BY <1>2, <1>4, HorizonIdsAreTaken
  <1>13. ValidDraft(g)
    BY <1>1, <1>5, <1>6, <1>7, <1>9, <1>10, <1>11, <1>12 DEF ValidDraft
  <1>14. ValidMetadata(g)
    BY <1>2, <1>7 DEF Verified, ValidMetadata
  <1>15. UsableProjections(g)
    BY <1>1, <1>7, SameDossiersAreUsable
  <1>16. ValidateStagedState(g)
    BY <1>2, <1>7, <1>13, <1>14, <1>15, SameJournalIsValid
  <1>17. Drawn(g)
    BY <1>2, <1>4, <1>5, <1>7, <1>9 DEF Drawn
  <1>18. QED
    BY <1>1, <1>16, <1>17 DEF Passes

\* A draft without its last action passes the gate.
LEMMA UndoPasses ==
  ASSUME Steady, UndoDraft
  PROVE  \E command, g : Publish(command, g) /\ Passes(g)
  <1> DEFINE g == Undone(active)
             A == active.draft.actions
  <1>1. /\ active.draft # NoDraft /\ A # <<>>
        /\ UsableProjections(active) /\ Publish("undo", g)
    BY DEF UndoDraft, MayExtendDraft
  <1>2. /\ Sound(active) /\ Verified(active) /\ Drawn(active) /\ WorkbenchInv
    BY DEF Steady, WorkbenchInv
  <1>3. /\ g.records = active.records /\ g.horizons = active.horizons
        /\ g.draft.actions = Front(A) /\ Sound(g)
    BY <1>1, <1>2, UndoneKeepsJournal DEF KeepsJournal
  <1>4. /\ Verified(g)
        /\ g.requestedAsOf = active.requestedAsOf
        /\ g.derived = active.derived
    BY <1>1, <1>2, UndoneIsVerified
  <1>5. g.draft.id = active.draft.id
    BY <1>1, <1>2 DEF Undone, Sound, SoundDraft, Members
  <1> HIDE DEF g
  <1>6. UsableProjections(g)
    BY <1>1, <1>3, <1>4, SameDossiersAreUsable
  <1>7. ValidateStagedState(g)
    BY <1>4, <1>6 DEF ValidateStagedState, Verified
  <1>8. Drawn(g)
    <2>1. IsSequence(A)
      BY <1>1, <1>2 DEF Sound, SoundDraft
    <2>2. /\ DOMAIN A = 1 .. Len(A) /\ Len(A) \in Nat
          /\ DOMAIN Front(A) = 1 .. Len(A) - 1
          /\ \A i \in 1 .. Len(A) - 1 : Front(A)[i] = A[i]
      BY <1>1, <2>1, FrontIsSequence, SequenceFacts
    <2>3. \A i \in DOMAIN g.draft.actions : DrawnAction(g.draft.actions[i])
      BY <1>1, <1>2, <1>3, <2>2 DEF Drawn
    <2>4. QED
      BY <1>1, <1>2, <1>3, <1>5, <2>3 DEF Drawn
  <1>9. QED
    BY <1>1, <1>7, <1>8 DEF Passes

\* A generation without its draft passes the gate.
LEMMA AbortPasses ==
  ASSUME Steady, AbortHorizon
  PROVE  \E command, g : Publish(command, g) /\ Passes(g)
  <1> DEFINE g == WithoutDraft(active)
  <1>1. UsableProjections(active) /\ Publish("abort", g)
    BY DEF AbortHorizon, MayExtendDraft
  <1>2. /\ Sound(active) /\ Verified(active) /\ Drawn(active)
    BY DEF Steady, WorkbenchInv
  <1>3. g.records = active.records
    BY <1>2, RegeneratedKeepsJournal DEF KeepsJournal
  <1>4. /\ Verified(g)
        /\ g.draft = NoDraft
        /\ g.horizons = active.horizons
        /\ g.requestedAsOf = active.requestedAsOf
        /\ g.derived = active.derived
    BY <1>2, WithoutDraftIsVerified
  <1> HIDE DEF g
  <1>5. UsableProjections(g)
    BY <1>1, <1>3, <1>4, SameDossiersAreUsable
  <1>6. ValidateStagedState(g)
    BY <1>4, <1>5 DEF ValidateStagedState, Verified
  <1>7. Drawn(g)
    BY <1>2, <1>3, <1>4 DEF Drawn
  <1>8. QED
    BY <1>1, <1>6, <1>7 DEF Passes

\* A regenerated generation passes the gate.
LEMMA RegeneratedPasses ==
  ASSUME Steady, NEW f, f.requestedAsOf \subseteq ClosedNames(active.horizons),
         DOMAIN f = Members, f.records = active.records, f.horizons = active.horizons,
         f.snapshots = active.snapshots, f.captured = active.captured,
         f.draft = active.draft
  PROVE  Passes(ReplaceDerived(f))
  <1> DEFINE g == ReplaceDerived(f)
  <1>1. /\ Sound(active) /\ Verified(active) /\ Drawn(active) /\ WorkbenchInv
    BY DEF Steady, WorkbenchInv
  <1>3. /\ g.records = active.records /\ g.horizons = active.horizons
        /\ g.snapshots = active.snapshots /\ g.captured = active.captured
        /\ g.draft = active.draft /\ g.requestedAsOf = f.requestedAsOf
        /\ g.derived = ExpectedProjections(f)
    BY DEF ReplaceDerived, Members
  <1> HIDE DEF g
  <1>4. ExpectedProjections(g) = ExpectedProjections(f)
    BY <1>3 DEF ExpectedProjections, ProjectionPaths
  <1>5. UsableProjections(g)
    BY <1>3, <1>4, ExactDossiersAreUsable
  <1>6. ValidMetadata(g)
    BY <1>3 DEF ValidMetadata
  <1>7. ValidDraft(g)
    <2>1. ValidDraft(active)
      BY <1>1 DEF Verified
    <2>2. QED
      BY <1>3, <2>1 DEF ValidDraft
  <1>8. ValidateStagedState(g)
    BY <1>1, <1>3, <1>5, <1>6, <1>7, SameJournalIsValid
  <1>9. Drawn(g)
    BY <1>1, <1>3 DEF Drawn
  <1>10. QED
    BY <1>8, <1>9 DEF Passes, g

\* A generation with one more dossier passes the gate.
LEMMA DossierPasses ==
  ASSUME Steady, NEW name, PublishDossier(name)
  PROVE  \E command, g : Publish(command, g) /\ Passes(g)
  <1> DEFINE asOf == active.requestedAsOf \cup { name }
             f == [ active EXCEPT !.requestedAsOf = asOf ]
  <1>1. /\ name \in ClosedNames(active.horizons)
        /\ Publish("dossier", WithDossier(active, name))
    BY DEF PublishDossier
  <1>2. asOf \subseteq ClosedNames(active.horizons)
    BY <1>1 DEF Steady, WorkbenchInv, Verified, ValidMetadata
  <1>3. WithDossier(active, name) = ReplaceDerived(f)
    BY DEF WithDossier
  <1>4. /\ DOMAIN f = Members
        /\ f.records = active.records /\ f.horizons = active.horizons
        /\ f.snapshots = active.snapshots /\ f.captured = active.captured
        /\ f.draft = active.draft /\ f.requestedAsOf = asOf
    BY DEF Steady, WorkbenchInv, Sound, Members
  <1> HIDE DEF f
  <1>5. Passes(ReplaceDerived(f))
    BY <1>2, <1>4, RegeneratedPasses
  <1>6. QED
    BY <1>1, <1>3, <1>5

\* A generation with its dossiers rebuilt passes the gate.
LEMMA RebuildPasses ==
  ASSUME Steady, RebuildProjections
  PROVE  \E command, g : Publish(command, g) /\ Passes(g)
  <1>1. Publish("rebuild", ReplaceDerived(active))
    BY DEF RebuildProjections
  <1>2. active.requestedAsOf \subseteq ClosedNames(active.horizons)
    BY DEF Steady, WorkbenchInv, Verified, ValidMetadata
  <1>3. DOMAIN active = Members
    BY DEF Steady, WorkbenchInv, Sound
  <1>4. Passes(ReplaceDerived(active))
    BY <1>2, <1>3, RegeneratedPasses
  <1>5. QED
    BY <1>1, <1>4

\* Every command but a close stages a generation that passes the gate.
LEMMA DraftCommandsPass ==
  ASSUME Steady, IdsRemain, DraftCommand
  PROVE  \E command, g : Publish(command, g) /\ Passes(g)
  <1>1. CASE \E n \in Names : OpenHorizon(n)
    BY <1>1, OpeningPasses
  <1>2. CASE \E n \in Names : PublishDossier(n)
    BY <1>2, DossierPasses
  <1>3. CASE \E s \in SourceAliases, p \in Paths : AddSource(s, p)
    BY <1>3, SourcePasses
  <1>4. CASE \E a \in AssertionAliases, s \in SourceAliases : AddAssertion(a, s)
    BY <1>4, AssertionPasses
  <1>5. CASE \E a \in AssertionAliases, s \in SourceAliases : ReviseAssertion(a, s)
    BY <1>5, RevisionPasses
  <1>6. CASE \E q \in QuestionAliases, s \in SourceAliases \cup { None } :
               AddQuestion(q, s)
    BY <1>6, QuestionPasses
  <1>7. CASE UndoDraft
    BY <1>7, UndoPasses
  <1>8. CASE AbortHorizon
    BY <1>8, AbortPasses
  <1>9. CASE RebuildProjections
    BY <1>9, RebuildPasses
  <1>10. QED
    BY <1>1, <1>2, <1>3, <1>4, <1>5, <1>6, <1>7, <1>8, <1>9 DEF DraftCommand

-----------------------------------------------------------------------------
(***************************************************************************)
(* Every command passes the gate, so the gate never fires.                 *)
(***************************************************************************)

\* A close that runs has a source to publish.
ClosingHasSources == closing.on => SourceSet(active.draft) # {}

\* The inductive invariant of the gate.
GateInv ==
  /\ WorkbenchInv
  /\ Drawn(active)
  /\ ClosingHasSources
  /\ GateNeverFires

\* The initialized workspace satisfies the invariant.
LEMMA InitEstablishesGate ==
  ASSUME Init
  PROVE  GateInv
  <1> DEFINE first == [ kind    |-> "WorkspaceInitialized",
                        id      |-> <<"wrk", Min(Serials)>>,
                        horizon |-> None ]
  <1>1. /\ active.records = << first >> /\ active.draft = NoDraft
        /\ closing = NoClose /\ outcome = Accepted
    BY DEF Init
  <1>2. first.kind = "WorkspaceInitialized"
    OBVIOUS
  <1> HIDE DEF first
  <1>3. << first >>[1] = first /\ DOMAIN << first >> = 1 .. 1
    BY SingletonIsSequence, SequenceFacts
  <1>4. DrawnRecord(first)
    BY <1>2, PrefixOfKinds DEF DrawnRecord
  <1>5. Drawn(active)
    BY <1>1, <1>3, <1>4 DEF Drawn
  <1>6. ClosingHasSources /\ GateNeverFires
    BY <1>1 DEF NoClose, Accepted, ClosingHasSources, GateNeverFires
  <1>7. QED
    BY <1>5, <1>6, InitEstablishesInvariant DEF GateInv

\* Publishing what passes ends well or at the limit on files.
LEMMA PublicationPasses ==
  ASSUME Drawn(active), NEW command, NEW g, Publish(command, g), Passes(g)
  PROVE  Drawn(active') /\ GateNeverFires'
  <1>1. PublicationCode(g) \in { "OK", "LIMIT_EXCEEDED" }
    BY DEF PublicationCode, Passes
  <1>2. /\ outcome' = IF PublicationCode(g) = "OK" THEN Accepted
                      ELSE [ command |-> command, code |-> PublicationCode(g) ]
        /\ active' = IF PublicationCode(g) = "OK" THEN g ELSE active
    BY DEF Publish, Ended
  <1>3. CASE PublicationCode(g) = "OK"
    BY <1>2, <1>3 DEF Passes, GateNeverFires, Accepted
  <1>4. CASE PublicationCode(g) = "LIMIT_EXCEEDED"
    BY <1>2, <1>4 DEF GateNeverFires
  <1>5. QED
    BY <1>1, <1>3, <1>4

\* A close that runs has all it needs.
LEMMA CloseIsPossible ==
  ASSUME GateInv, IdsRemain, closing.on
  PROVE  MayClose(active)
  <1>1. Ready(active) /\ Drawn(active)
    BY DEF GateInv, WorkbenchInv, ClosingSeesDraft, Ready
  <1>2. SourceSet(active.draft) # {}
    BY DEF GateInv, ClosingHasSources
  <1>3. CloseId(active) \in IdsWith("cls") \ AllTakenIds(active)
    BY GeneratedIsFresh DEF IdsRemain, Prefixes3, CloseId
  <1>4. QED
    BY <1>1, <1>2, <1>3 DEF MayClose

\* What a close stages has identifiers of their kinds.
LEMMA ClosedIsDrawn ==
  ASSUME NEW g, MayClose(g)
  PROVE  Drawn(Closed(g))
  <1>1. Ready(g)
    BY DEF MayClose
  <1>2. Closed(g).records = Staged(g) /\ Closed(g).draft = NoDraft
    BY <1>1, ClosedExtendsJournal DEF Staged, Ready
  <1>3. DOMAIN Staged(g) = 1 .. Len(Staged(g))
    BY <1>1, StagedDomain, Bounds
  <1>4. QED
    BY <1>2, <1>3, StagedIsDrawn DEF Drawn

\* A close passes the gate.
LEMMA CloseStepPasses ==
  ASSUME GateInv, IdsRemain, PublishClose
  PROVE  Drawn(active') /\ GateNeverFires' /\ ClosingHasSources'
  <1>1. MayClose(active) /\ Drawn(active)
    BY CloseIsPossible DEF PublishClose, GateInv
  <1>2. ClosingHasSources'
    BY DEF PublishClose, NoClose, ClosingHasSources
  <1>3. CASE Len(active.records \o HorizonRecords(active)) > MaxRecords
    <2>1. Ended("close", "LIMIT_EXCEEDED") /\ active' = active
      BY <1>3 DEF PublishClose
    <2>2. QED
      BY <1>1, <1>2, <2>1 DEF Ended, GateNeverFires, Drawn
  <1>4. CASE ~ (Len(active.records \o HorizonRecords(active)) > MaxRecords)
    <2>1. Publish("close", Closed(active))
      BY <1>4 DEF PublishClose
    <2>2. Len(Staged(active)) <= MaxRecords
      <3>1. Len(Staged(active)) \in Nat
        BY <1>1, Bounds DEF MayClose
      <3>2. QED
        BY <1>4, <3>1, MaxRecordsAssumption DEF Staged
    <2>3. Passes(Closed(active))
      BY <1>1, <2>2, ClosedIsValid, ClosedIsDrawn DEF Passes
    <2>4. QED
      BY <1>1, <1>2, <2>1, <2>3, PublicationPasses
  <1>5. QED
    BY <1>3, <1>4

\* Every step keeps the invariant while identifiers remain.
LEMMA NextKeepsGate ==
  ASSUME GateInv, IdsRemain, [Next]_vars
  PROVE  GateInv'
  <1>1. WorkbenchInv /\ Drawn(active) /\ Steady /\ ClosingHasSources /\ GateNeverFires
    BY DEF GateInv, Steady
  <1>2. WorkbenchInv'
    BY <1>1, NextKeepsInvariant
  <1>3. SUFFICES Drawn(active') /\ GateNeverFires' /\ ClosingHasSources'
    BY <1>2 DEF GateInv
  <1>4. CASE UNCHANGED vars
    BY <1>1, <1>4 DEF vars, GateNeverFires, ClosingHasSources
  <1>5. CASE DraftCommand
    <2>1. PICK command, g : Publish(command, g) /\ Passes(g)
      BY <1>1, <1>5, DraftCommandsPass
    <2>2. Drawn(active') /\ GateNeverFires'
      BY <1>1, <2>1, PublicationPasses
    <2>3. ~ closing.on /\ closing' = closing
      BY <1>1, <1>5, DraftStep
    <2>4. QED
      BY <2>2, <2>3 DEF ClosingHasSources
  <1>6. CASE PublishClose
    BY <1>6, CloseStepPasses
  <1>7. CASE OwnerOnDerived
    <2>1. /\ active'.records = active.records
          /\ active'.draft = active.draft
          /\ closing' = closing
      BY <1>1, <1>7, DerivedStep
    <2>2. outcome' = outcome
      BY <1>7 DEF OwnerOnDerived, OwnerDeletesDerived, OwnerAddsUnexpected,
                  OwnerDamagesDossier, OwnerRestoresOlder, OwnerEditsDerived
    <2>3. Drawn(active')
      BY <1>1, <2>1 DEF Drawn
    <2>4. QED
      BY <1>1, <2>1, <2>2, <2>3 DEF GateNeverFires, ClosingHasSources
  <1>8. CASE BeginClose
    BY <1>1, <1>8 DEF BeginClose, GateNeverFires, ClosingHasSources
  <1>9. CASE RevalidateSource
    <2>1. active' = active /\ closing.on
      BY <1>9 DEF RevalidateSource
    <2>2. ClosingHasSources'
      BY <1>1, <2>1 DEF ClosingHasSources
    <2>3. PICK file, code : /\ code \in { "OK", "UNSAFE_SOURCE", "SOURCE_CHANGED" }
                            /\ code # "OK" => Ended("close", code)
                            /\ code = "OK" => outcome' = outcome
      BY <1>9 DEF RevalidateSource, RevalidationCode
    <2>4. GateNeverFires'
      BY <1>1, <2>3 DEF GateNeverFires, Ended
    <2>5. QED
      BY <1>1, <2>1, <2>2, <2>4
  <1>10. CASE OwnerOnHost
    BY <1>1, <1>10 DEF OwnerOnHost, OwnerWritesFile, OwnerRemovesFile,
                       GateNeverFires, ClosingHasSources
  <1>11. QED
    BY <1>4, <1>5, <1>6, <1>7, <1>8, <1>9, <1>10, OtherSteps

\* However many names, files, limits and commands there are: as long as the
\* identifiers do not run out, no command stages a generation that the
\* workbench's own verifier refuses.
THEOREM GateIsNeverFired == Spec /\ []IdsRemain => []GateNeverFires
  <1>1. Init => GateInv
    BY InitEstablishesGate
  <1>2. GateInv /\ IdsRemain /\ [Next]_vars => GateInv'
    BY NextKeepsGate
  <1>3. GateInv => GateNeverFires
    BY DEF GateInv
  <1>4. QED
    BY <1>1, <1>2, <1>3, PTL DEF Spec

-----------------------------------------------------------------------------
(***************************************************************************)
(* Identifiers do not run out when there are infinitely many.              *)
(***************************************************************************)

\* An action takes finitely many identifiers.
LEMMA ActionIdsAreFinite ==
  ASSUME NEW a
  PROVE  IsFiniteSet(ActionIds(a))
  <1>1. ActionIds(a) \subseteq { a.id } \cup { a.span } \cup { a.assertion }
    BY DEF ActionIds
  <1>2. IsFiniteSet({ a.id } \cup { a.span } \cup { a.assertion })
    BY FS_Singleton, FS_Union
  <1>3. QED
    BY <1>1, <1>2, FS_Subset

\* So do the journal and the draft.
LEMMA TakenIsFinite ==
  ASSUME WorkbenchInv
  PROVE  IsFiniteSet(AllTakenIds(active))
  <1> DEFINE r == active.records
             A == active.draft.actions
  <1>1. IsSequence(r)
    BY DEF WorkbenchInv, Sound
  <1>2. IsFiniteSet(JournalIds(r))
    <2> DEFINE R == Positions(r, "AssertionRevision")
               X == { r[i].id : i \in DOMAIN r }
               Y == { r[i].assertion : i \in R }
               f == [ i \in DOMAIN r |-> r[i].id ]
               h == [ i \in R |-> r[i].assertion ]
    <2>1. IsFiniteSet(DOMAIN r) /\ IsFiniteSet(R)
      BY <1>1, PositionsAreFinite DEF Positions
    <2>2. X = { f[i] : i \in DOMAIN r } /\ Y = { h[i] : i \in R }
      OBVIOUS
    <2>3. JournalIds(r) = X \cup Y
      BY DEF JournalIds
    <2> HIDE DEF X, Y, f, h, R
    <2>4. IsFiniteSet(X) /\ IsFiniteSet(Y)
      BY <2>1, <2>2, ImageIsFinite
    <2>5. QED
      BY <2>3, <2>4, FS_Union
  <1>3. CASE active.draft = NoDraft
    <2>1. AllTakenIds(active) = JournalIds(r)
      BY <1>3 DEF AllTakenIds, DraftIds
    <2>2. QED
      BY <1>2, <2>1
  <1>4. CASE active.draft # NoDraft
    <2> DEFINE S == ToSet(A)
               f == [ b \in S |-> ActionIds(b) ]
               U == { ActionIds(b) : b \in S }
    <2>1. IsSequence(A)
      BY <1>4 DEF WorkbenchInv, Sound, SoundDraft
    <2>2. IsFiniteSet(DOMAIN A)
      BY <2>1, PositionsAreFinite
    <2>3. S = { A[i] : i \in DOMAIN A }
      BY DEF ToSet
    <2>4. IsFiniteSet(S)
      BY <2>2, <2>3, ImageIsFinite
    <2>5. U = { f[b] : b \in S }
      OBVIOUS
    <2>6. \A T \in U : IsFiniteSet(T)
      BY ActionIdsAreFinite
    <2>7. AllTakenIds(active) = (JournalIds(r) \cup { active.draft.id }) \cup UNION U
      BY <1>4, TakenIds
    <2> HIDE DEF S, f, U
    <2>8. IsFiniteSet(U)
      BY <2>4, <2>5, ImageIsFinite
    <2>9. IsFiniteSet(UNION U)
      BY <2>6, <2>8, FS_UNION
    <2>10. IsFiniteSet(JournalIds(r) \cup { active.draft.id })
      BY <1>2, FS_Singleton, FS_Union
    <2> DEFINE V == JournalIds(r) \cup { active.draft.id }
               W == UNION U
    <2>11. IsFiniteSet(V) /\ IsFiniteSet(W)
      BY <2>9, <2>10
    <2>12. AllTakenIds(active) = V \cup W
      BY <2>7
    <2> HIDE DEF V, W
    <2>13. IsFiniteSet(V \cup W)
      BY <2>11, FS_Union
    <2>14. QED
      BY <2>12, <2>13
  <1>5. QED
    BY <1>3, <1>4

\* So of infinitely many some are left.
LEMMA InfiniteIdsRemain ==
  ASSUME WorkbenchInv, ~ IsFiniteSet(Serials)
  PROVE  IdsRemain
  <1>1. SUFFICES ASSUME NEW prefix \in Prefixes3,
                        \A n \in Serials : <<prefix, n>> \in AllTakenIds(active)
                 PROVE  FALSE
    BY DEF IdsRemain
  <1> DEFINE T == { x \in AllTakenIds(active) : \E n \in Serials : x = <<prefix, n>> }
             f == [ x \in T |-> x[2] ]
  <1>2. IsFiniteSet(T)
    BY TakenIsFinite, FS_Subset
  <1>3. Serials = { f[x] : x \in T }
    <2>1. ASSUME NEW n \in Serials
          PROVE  \E x \in T : f[x] = n
      <3>1. <<prefix, n>> \in T /\ f[<<prefix, n>>] = n
        BY <1>1, <2>1
      <3>2. QED
        BY <3>1
    <2>2. ASSUME NEW x \in T
          PROVE  f[x] \in Serials
      OBVIOUS
    <2> HIDE DEF T, f
    <2>3. QED
      BY <2>1, <2>2
  <1> HIDE DEF T, f
  <1>4. IsFiniteSet(Serials)
    BY <1>2, <1>3, ImageIsFinite
  <1>5. QED
    BY <1>4

\* In particular with random parts enough for every identifier there could
\* ever be.
THEOREM GateIsNeverFiredWithManyIds ==
  ASSUME ~ IsFiniteSet(Serials)
  PROVE  Spec => []GateNeverFires
  <1>1. WorkbenchInv => IdsRemain
    BY InfiniteIdsRemain
  <1>2. QED
    BY <1>1, InvariantHolds, GateIsNeverFired, PTL

-----------------------------------------------------------------------------
(***************************************************************************)
(* A close publishes the whole draft.  The map from the actions that are   *)
(* no sources to the positions of their records is increasing and onto, so *)
(* the k-th of the one is the k-th of the other.                           *)
(***************************************************************************)



\* The records a close adds, one after the other.
AddedTo(g) == SubSeq(Staged(g), Len(g.records) + 1, Len(Staged(g)))

\* They are the records of the staged journal after the old ones.
LEMMA AddedElements ==
  ASSUME NEW g, Ready(g)
  PROVE  /\ IsSequence(AddedTo(g))
         /\ DOMAIN AddedTo(g) = 1 .. EndsAt(g) - Len(g.records)
         /\ \A i \in 1 .. EndsAt(g) - Len(g.records) :
               /\ Len(g.records) + i \in OpensAt(g) .. EndsAt(g)
               /\ AddedTo(g)[i] = Staged(g)[Len(g.records) + i]
         /\ \A p \in OpensAt(g) .. EndsAt(g) :
               /\ p - Len(g.records) \in DOMAIN AddedTo(g)
               /\ AddedTo(g)[p - Len(g.records)] = Staged(g)[p]
  <1> DEFINE N == Len(g.records)
             E == EndsAt(g)
             all == Staged(g)
             added == AddedTo(g)
  <1>1. /\ N \in Nat /\ E \in Nat /\ N + 1 = OpensAt(g) /\ N + 1 <= E
        /\ Len(all) = E
    BY Bounds
  <1>2. IsSequence(all) /\ DOMAIN all = 1 .. E
    BY StagedDomain
  <1> DEFINE T == Range(all)
  <1>3. all \in Seq(T)
    BY <1>2 DEF IsSequence
  <1>4. added = SubSeq(all, N + 1, E)
    BY <1>1 DEF AddedTo
  <1> HIDE DEF N, E, all, added, T
  <1>5. \A i \in N + 1 .. E : i \in 1 .. Len(all) /\ all[i] \in T
    BY <1>1, <1>3, ElementOfSeq
  <1>6. /\ added \in Seq(T)
        /\ Len(added) = E - N
        /\ \A i \in 1 .. E - N : added[i] = all[N + i]
    <2>1. /\ added \in Seq(T)
          /\ Len(added) = IF N + 1 <= E THEN E - (N + 1) + 1 ELSE 0
          /\ \A i \in 1 .. E - (N + 1) + 1 : added[i] = all[(N + 1) + i - 1]
      BY <1>1, <1>4, <1>5, SubSeqProperties
    <2>2. E - (N + 1) + 1 = E - N /\ \A i \in 1 .. E - N : (N + 1) + i - 1 = N + i
      BY <1>1
    <2>3. QED
      BY <1>1, <2>1, <2>2
  <1>7. IsSequence(added) /\ DOMAIN added = 1 .. E - N
    BY <1>6, LenProperties, SeqOfRange DEF IsSequence
  <1>8. \A i \in 1 .. E - N : N + i \in OpensAt(g) .. E
    BY <1>1
  <1>9. \A p \in OpensAt(g) .. E : p - N \in 1 .. E - N /\ N + (p - N) = p
    BY <1>1
  <1>10. \A p \in OpensAt(g) .. E : p - N \in 1 .. E - N /\ added[p - N] = all[p]
    BY <1>6, <1>9
  <1>11. QED
    BY <1>6, <1>7, <1>8, <1>10 DEF N, E, all, added

\* The positions of the assertions, revisions and questions a close adds are
\* those of the actions that are no sources, in their order.
LEMMA StatementsOfAdded ==
  ASSUME NEW g, Ready(g)
  PROVE  LET said  == Selected(AddedTo(g), Users(AddedTo(g)))
             meant == Semantics(g.draft)
         IN  [ n \in DOMAIN said |-> said[n].id ]
               = [ n \in DOMAIN meant |-> meant[n].id ]
  <1> DEFINE A == g.draft.actions
             N == Len(g.records)
             added == AddedTo(g)
             S == { n \in DOMAIN A : A[n].kind # "source" }
             T == Users(added)
             place(n) == CHOOSE p : StatementAt(g, p, n)
             f == [ n \in S |-> place(n) - N ]
             said == Selected(added, T)
             meant == Semantics(g.draft)
  <1>1. /\ IsSequence(A) /\ DOMAIN A = 1 .. Len(A) /\ Len(A) \in Nat
        /\ N \in Nat
    BY ReadyFacts
  <1>2. /\ IsSequence(added)
        /\ \A p \in OpensAt(g) .. EndsAt(g) :
              p - N \in DOMAIN added /\ added[p - N] = Staged(g)[p]
        /\ \A i \in DOMAIN added :
              /\ N + i \in OpensAt(g) .. EndsAt(g)
              /\ added[i] = Staged(g)[N + i]
              /\ i \in Nat
    <2>1. EndsAt(g) - N \in Int
      BY <1>1, Bounds
    <2>2. DOMAIN added = 1 .. EndsAt(g) - N /\ IsSequence(added)
      BY AddedElements
    <2>3. \A i \in 1 .. EndsAt(g) - N :
             /\ N + i \in OpensAt(g) .. EndsAt(g)
             /\ added[i] = Staged(g)[N + i]
      BY AddedElements
    <2>4. \A p \in OpensAt(g) .. EndsAt(g) :
             p - N \in DOMAIN added /\ added[p - N] = Staged(g)[p]
      BY AddedElements
    <2> HIDE DEF added, N
    <2>5. \A i \in DOMAIN added : i \in 1 .. EndsAt(g) - N /\ i \in Nat
      BY <2>1, <2>2
    <2>6. QED
      BY <2>2, <2>3, <2>4, <2>5
  <1>3. S \in SUBSET Int /\ IsFiniteSet(S)
    <2>1. S \in SUBSET DOMAIN A
      OBVIOUS
    <2>2. IsFiniteSet(S)
      BY <1>1, <2>1, PositionsAreFinite
    <2> HIDE DEF S
    <2>3. QED
      BY <1>1, <2>1, <2>2
  <1>4. T \in SUBSET Int /\ IsFiniteSet(T) /\ T \in SUBSET DOMAIN added
    <2>1. T \in SUBSET DOMAIN added
      BY DEF Users, Positions
    <2> HIDE DEF T, added
    <2>2. QED
      BY <1>2, <2>1, PositionsAreFinite
  <1>5. ASSUME NEW n \in S
        PROVE  StatementAt(g, place(n), n)
    <2>1. n \in 1 .. Len(A) /\ Recorded(g.draft, n)
      BY <1>1 DEF Recorded
    <2>2. \E p : StatementAt(g, p, n)
      BY <2>1, StatementsArePlaced
    <2>3. QED
      BY <2>2
  <1> HIDE DEF place
  <1>6. ASSUME NEW n \in S, NEW p, StatementAt(g, p, n)
        PROVE  /\ n \in 1 .. Len(A)
               /\ p \in OpensAt(g) .. EndsAt(g) /\ p \in Nat
               /\ p - N \in T
               /\ added[p - N].id = A[n].id
    <2>1. /\ n \in 1 .. Len(A)
          /\ Staged(g)[p].kind \in { "QuestionOpened", "AssertionRevision" }
          /\ Staged(g)[p].id = A[n].id
      BY <1>6, StatementRecordAt
    <2>2. p \in OpensAt(g) .. EndsAt(g) /\ p \in Nat
      BY <1>6, StatementIsInHorizon, Bounds
    <2>3. p - N \in DOMAIN added /\ added[p - N] = Staged(g)[p]
      BY <1>2, <2>2
    <2>4. p - N \in T
      BY <2>1, <2>3 DEF Users, Positions
    <2>5. QED
      BY <2>1, <2>2, <2>3, <2>4
  <1>7. f \in [ S -> T ]
    BY <1>5, <1>6
  <1>8. ASSUME NEW m \in S, NEW n \in S, m < n
        PROVE  f[m] < f[n]
    <2>1. StatementAt(g, place(m), m) /\ StatementAt(g, place(n), n)
      BY <1>5
    <2>2. m \in 1 .. Len(A) /\ n \in 1 .. Len(A)
      BY <1>1
    <2>3. place(m) \in Nat /\ place(n) \in Nat /\ place(m) < place(n)
      BY <1>8, <2>1, <2>2, StatementsAreOrdered
    <2>4. f[m] = place(m) - N /\ f[n] = place(n) - N
      OBVIOUS
    <2> HIDE DEF f, N
    <2>5. QED
      BY <1>1, <2>3, <2>4
  <1>9. ASSUME NEW t \in T
        PROVE  \E n \in S : f[n] = t
    <2>1. /\ t \in DOMAIN added
          /\ added[t].kind \in { "QuestionOpened", "AssertionRevision" }
      BY DEF Users, Positions
    <2>2. /\ N + t \in OpensAt(g) .. EndsAt(g)
          /\ Staged(g)[N + t].kind \in { "QuestionOpened", "AssertionRevision" }
          /\ t \in Nat
      BY <1>2, <2>1
    <2>3. PICK n \in 1 .. Len(A) : StatementAt(g, N + t, n)
      BY <2>2, AddedByKind
    <2>4. n \in S
      BY <1>1, <2>3 DEF StatementAt, Recorded
    <2>5. StatementAt(g, place(n), n)
      BY <1>5, <2>4
    <2> DEFINE q == N + t
    <2>6. place(n) = N + t
      <3>1. StatementAt(g, q, n) /\ StatementAt(g, place(n), n)
        BY <2>3, <2>5
      <3> HIDE DEF q
      <3>2. place(n) = q
        BY <3>1, StatementsAreOrdered
      <3>3. QED
        BY <3>2 DEF q
    <2>7. f[n] = (N + t) - N
      BY <2>4, <2>6
    <2> HIDE DEF N, f
    <2>8. f[n] = t
      BY <1>1, <2>2, <2>7
    <2>9. QED
      BY <2>4, <2>8
  <1>10. \A n \in S : added[f[n]].id = A[n].id
    BY <1>5, <1>6
  <1>11. meant = Selected(A, S)
    BY DEF Semantics
  <1>12. S \in SUBSET DOMAIN A
    OBVIOUS
  <1> HIDE DEF S, T, f, A, added, said, meant
  <1>13. /\ Cardinality(S) = Cardinality(T)
         /\ \A k \in 1 .. Cardinality(S) : Ascending(T)[k] = f[Ascending(S)[k]]
    BY <1>3, <1>4, <1>7, <1>8, <1>9, AscendingOfImage
  <1>14. /\ DOMAIN said = 1 .. Cardinality(T)
         /\ \A k \in 1 .. Cardinality(T) : said[k] = added[Ascending(T)[k]]
    BY <1>4, SelectedElements DEF said
  <1>15. /\ DOMAIN meant = 1 .. Cardinality(S)
         /\ \A k \in 1 .. Cardinality(S) : meant[k] = A[Ascending(S)[k]]
    BY <1>3, <1>11, SelectedElements
  <1>16. ASSUME NEW k \in 1 .. Cardinality(S)
         PROVE  said[k].id = meant[k].id
    <2>1. Ascending(S)[k] \in S
      BY <1>3, AscendingRank
    <2>2. added[f[Ascending(S)[k]]].id = A[Ascending(S)[k]].id
      BY <1>10, <2>1
    <2>3. said[k] = added[f[Ascending(S)[k]]] /\ meant[k] = A[Ascending(S)[k]]
      BY <1>13, <1>14, <1>15
    <2>4. QED
      BY <2>2, <2>3
  <1>17. [ n \in DOMAIN said |-> said[n].id ] = [ n \in DOMAIN meant |-> meant[n].id ]
    BY <1>13, <1>14, <1>15, <1>16
  <1>18. QED
    BY <1>17 DEF said, meant, T, added

\* The sources a close adds are the captured files, with their bytes, and the
\* close retains these.
LEMMA SourcesOfAdded ==
  ASSUME NEW g, Ready(g)
  PROVE  /\ { r.id : r \in { x \in ToSet(AddedTo(g)) : x.kind = "SourceSnapshot" } }
              = DOMAIN g.captured
         /\ \A r \in ToSet(AddedTo(g)) : r.kind = "SourceSnapshot" =>
              /\ r.content = g.captured[r.id]
              /\ r.content \in Closed(g).snapshots
  <1> DEFINE added == AddedTo(g)
             snapshots == { x \in ToSet(added) : x.kind = "SourceSnapshot" }
  <1>1. /\ DOMAIN g.captured = { a.id : a \in SourceSet(g.draft) }
        /\ \A a \in SourceSet(g.draft) : g.captured[a.id] = a.content
    BY DEF Ready, Verified, ValidDraft
  <1>2. Closed(g).snapshots = g.snapshots \cup { g.captured[a.id] : a \in SourceSet(g.draft) }
    BY ClosedExtendsJournal DEF Ready
  <1>3. ASSUME NEW r \in ToSet(added), r.kind = "SourceSnapshot"
        PROVE  \E a \in SourceSet(g.draft) : r.id = a.id /\ r.content = a.content
    <2>1. PICK i \in DOMAIN added : added[i] = r
      BY DEF ToSet
    <2>2. /\ Len(g.records) + i \in OpensAt(g) .. EndsAt(g)
          /\ r = Staged(g)[Len(g.records) + i]
      BY <2>1, AddedElements
    <2>3. PICK a \in SourceSet(g.draft) : SourceAt(g, Len(g.records) + i, a)
      BY <1>3, <2>2, AddedByKind
    <2>4. QED
      BY <2>2, <2>3, SourceRecordAt
  <1>4. ASSUME NEW a \in SourceSet(g.draft)
        PROVE  \E r \in snapshots : r.id = a.id
    <2>1. PICK p \in (OpensAt(g) + 1) .. SourcesEnd(g) : SourceAt(g, p, a)
      BY SourcesArePlaced
    <2>2. p \in OpensAt(g) .. EndsAt(g)
      BY Bounds
    <2>3. Staged(g)[p] \in ToSet(added)
      BY <2>2, AddedElements DEF ToSet
    <2>4. Staged(g)[p].kind = "SourceSnapshot" /\ Staged(g)[p].id = a.id
      BY <2>1, SourceRecordAt
    <2>5. QED
      BY <2>3, <2>4
  <1>5. { r.id : r \in snapshots } = DOMAIN g.captured
    BY <1>1, <1>3, <1>4
  <1> HIDE DEF added
  <1>6. ASSUME NEW r \in ToSet(added), r.kind = "SourceSnapshot"
        PROVE  r.content = g.captured[r.id] /\ r.content \in Closed(g).snapshots
    <2>1. PICK a \in SourceSet(g.draft) : r.id = a.id /\ r.content = a.content
      BY <1>3, <1>6
    <2>2. r.content = g.captured[a.id] /\ r.content = g.captured[r.id]
      BY <1>1, <2>1
    <2>3. QED
      BY <1>2, <2>2
  <1>7. QED
    BY <1>5, <1>6 DEF added

\* Only a close adds records, and it adds all of the draft.
LEMMA CloseKeepsWholeDraft ==
  ASSUME WorkbenchInv, [Next]_vars, active'.records # active.records
  PROVE  LET added == SubSeq(active'.records, Len(active.records) + 1,
                             Len(active'.records))
             said  == Selected(added, Positions(added, "AssertionRevision")
                                        \cup Positions(added, "QuestionOpened"))
             meant == Semantics(active.draft)
         IN  /\ [ n \in DOMAIN said |-> said[n].id ]
                  = [ n \in DOMAIN meant |-> meant[n].id ]
             /\ { r.id : r \in { x \in ToSet(added) : x.kind = "SourceSnapshot" } }
                  = DOMAIN active.captured
             /\ \A r \in ToSet(added) : r.kind = "SourceSnapshot" =>
                  /\ r.content = active.captured[r.id]
                  /\ r.content \in active'.snapshots
  <1> DEFINE added == SubSeq(active'.records, Len(active.records) + 1,
                             Len(active'.records))
  <1>1. active.draft # NoDraft /\ active' = Closed(active)
    BY OnlyCloseWrites
  <1>2. Ready(active)
    BY <1>1 DEF Ready, WorkbenchInv
  <1>3. active'.records = Staged(active)
    BY <1>1, ClosedExtendsJournal DEF Staged, WorkbenchInv
  <1>4. added = AddedTo(active)
    BY <1>3 DEF AddedTo
  <1> HIDE DEF added
  <1>5. [ n \in DOMAIN Selected(added, Users(added)) |->
            Selected(added, Users(added))[n].id ]
          = [ n \in DOMAIN Semantics(active.draft) |->
                Semantics(active.draft)[n].id ]
    BY <1>2, <1>4, StatementsOfAdded
  <1>6. /\ { r.id : r \in { x \in ToSet(added) : x.kind = "SourceSnapshot" } }
             = DOMAIN active.captured
        /\ \A r \in ToSet(added) : r.kind = "SourceSnapshot" =>
             /\ r.content = active.captured[r.id]
             /\ r.content \in active'.snapshots
    BY <1>1, <1>2, <1>4, SourcesOfAdded
  <1>7. Users(added) = Positions(added, "AssertionRevision")
                         \cup Positions(added, "QuestionOpened")
    BY DEF Users
  <1>8. QED
    BY <1>5, <1>6, <1>7 DEF added

\* However long the draft and the journal: a close publishes every captured
\* source with its bytes and, in the order they were made, every assertion,
\* revision and question that was not undone, and nothing else of the kind.
THEOREM WholeDraftIsPublished == Spec => ClosePublishesWholeDraft
  <1>1. WorkbenchInv /\ [Next]_vars =>
          [active'.records # active.records =>
             LET added == SubSeq(active'.records, Len(active.records) + 1,
                                 Len(active'.records))
                 said  == Selected(added, Positions(added, "AssertionRevision")
                                            \cup Positions(added, "QuestionOpened"))
                 meant == Semantics(active.draft)
             IN  /\ [ n \in DOMAIN said |-> said[n].id ]
                      = [ n \in DOMAIN meant |-> meant[n].id ]
                 /\ { r.id : r \in { x \in ToSet(added) : x.kind = "SourceSnapshot" } }
                      = DOMAIN active.captured
                 /\ \A r \in ToSet(added) : r.kind = "SourceSnapshot" =>
                      /\ r.content = active.captured[r.id]
                      /\ r.content \in active'.snapshots]_active
    BY CloseKeepsWholeDraft
  <1>2. QED
    BY <1>1, InvariantHolds, PTL DEF Spec, ClosePublishesWholeDraft
=============================================================================
