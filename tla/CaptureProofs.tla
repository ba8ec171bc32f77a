---------------------------- MODULE CaptureProofs ----------------------------
(* The incremental capture store, for any number of clients, commands and kills, any
   sources and any records.

   The argument.  A log that replays closes its horizons in their order, and what comes
   after the closing of a horizon is not visible as of it: a record of the horizon itself
   is refused, so is going back to it, and what is later is later.  So all the logs that
   go on behind a closing, verified or not, show the same of it (ClosedViews), and the log
   only grows, whatever a command is killed at (RecordsGrow).

   A view that is placed was derived from a beginning of the log that verified (ViewsInv);
   the view a rebuild removes is of a beginning no longer than that of the view it builds.

   While nothing happened that can break the store, at most one command writes, and what
   it is about to write goes with what it has placed already (Whole).  Whatever happened,
   the snapshots a command names are placed before it appends the records (NamedInv).  If
   no two wrote at once, the records replay with all that the one that writes is about to
   append, and so with any part of it a kill leaves (ReplayInv, BeginningReplays).      *)
EXTENDS IncrementalCapture, FunctionTheorems, SequenceTheorems, FiniteSetTheorems,
        WellFoundedInduction, TLAPS

-----------------------------------------------------------------------------
\* A set of natural numbers has a least one.
LEMMA LeastNumber ==
  ASSUME NEW T \in SUBSET Nat, T # {}
  PROVE  \E n \in T : \A m \in T : n <= m
  <1>1. IsWellFoundedOn(OpToRel(<, Nat), Nat)
    BY NatLessThanWellFounded
  <1> DEFINE R == OpToRel(<, Nat)
  <1> HIDE DEF R
  <1>2. \E n \in T : \A m \in T : ~(<<m, n>> \in R)
    BY <1>1, WFMin DEF R
  <1>3. \A m, n \in Nat : m < n => <<m, n>> \in R
    BY DEF R, OpToRel
  <1> HIDE DEF R
  <1>4. PICK n \in T : \A m \in T : ~(<<m, n>> \in R)
    BY <1>2
  <1>5. \A m \in T : ~(m < n)
    BY <1>3, <1>4
  <1>6. \A m \in T : n <= m
    <2> TAKE m \in T
    <2>1. m \in Nat /\ n \in Nat /\ ~(m < n)
      BY <1>5
    <2> QED BY <2>1
  <1> QED BY <1>6

\* The positions of a log with the records of the kinds, before the i-th.
LEMMA EarlierRecords ==
  ASSUME NEW S, NEW log \in Seq(S), NEW i \in 1..Len(log), NEW kinds
  PROVE  Earlier(log, i, kinds) = {j \in 1..Len(log) : j < i /\ log[j].rec.kind \in kinds}
  BY DEF Earlier

\* Horizons are closed in their order: the number of a closing is one more than those that
\* were closed before it.
LEMMA HorizonsCloseInOrder ==
  ASSUME NEW S, NEW log \in Seq(S), WellFormed(log),
         \A i \in 1..Len(log) : log[i].rec.horizon \in 0..2,
         NEW a \in 1..Len(log), NEW b \in 1..Len(log), a < b,
         log[a].rec.kind = "HorizonClosed", log[b].rec.kind = "HorizonClosed"
  PROVE  log[a].rec.horizon < log[b].rec.horizon
  <1> DEFINE H(i) == log[i].rec.horizon
             Closing(i) == log[i].rec.kind = "HorizonClosed"
             Bad == {k \in 1..Len(log) : Closing(k) /\ \E j \in 1..Len(log) :
                                           j < k /\ Closing(j) /\ H(j) >= H(k)}
             C(i) == ClosedBefore(log, i)
  <1>1. \A i \in 1..Len(log) : C(i) = {H(j) : j \in {j \in 1..Len(log) : j < i /\ Closing(j)}}
    <2> TAKE i \in 1..Len(log)
    <2>1. Earlier(log, i, {"HorizonClosed"}) = {j \in 1..Len(log) : j < i /\ Closing(j)}
      BY EarlierRecords
    <2> QED BY <2>1 DEF ClosedBefore
  <1>2. \A i \in 1..Len(log) : C(i) \subseteq 0..2
    BY <1>1
  <1>3. \A i \in 1..Len(log) : IsFiniteSet(C(i)) /\ Cardinality(C(i)) \in Nat
    <2> TAKE i \in 1..Len(log)
    <2>0. 0 \in Int /\ 2 \in Int
      OBVIOUS
    <2>1. IsFiniteSet(0..2)
      BY <2>0, FS_Interval
    <2> QED BY <1>2, <2>1, FS_Subset, FS_CardinalityType
  <1>4. \A i \in 1..Len(log) : Closing(i) => H(i) = Cardinality(C(i)) + 1
    BY DEF WellFormed, AdmittedBody
  <1>5. SUFFICES Bad = {}
    OBVIOUS
  <1>6. SUFFICES ASSUME Bad # {} PROVE FALSE
    OBVIOUS
  <1>7. PICK k \in Bad : \A m \in Bad : k <= m
    <2>1. Bad \in SUBSET Nat
      OBVIOUS
    <2> HIDE DEF Bad
    <2> QED BY <1>6, <2>1, LeastNumber
  <1>8. PICK j \in 1..Len(log) : j < k /\ Closing(j) /\ H(j) >= H(k)
    OBVIOUS
  <1>9. k \in 1..Len(log) /\ Closing(k)
    OBVIOUS
  <1>10. C(j) \subseteq C(k) /\ H(j) \in C(k)
    BY <1>1, <1>8, <1>9
  <1>11. Cardinality(C(k)) <= Cardinality(C(j))
    BY <1>3, <1>4, <1>8, <1>9, SMTT(30)
  <1>12. C(j) = C(k)
    <2> HIDE DEF C
    <2>1. C(j) \in SUBSET C(k)
      BY <1>10
    <2>2. Cardinality(C(j)) <= Cardinality(C(k)) /\ (Cardinality(C(k)) = Cardinality(C(j)) => C(k) = C(j))
      BY <1>3, <1>9, <2>1, FS_Subset
    <2> QED BY <1>3, <1>8, <1>9, <1>11, <2>2
  <1>13. PICK i \in 1..Len(log) : i < j /\ Closing(i) /\ H(i) = H(j)
    BY <1>1, <1>8, <1>10, <1>12
  <1>14. j \in Bad
    <2>1. H(i) >= H(j)
      BY <1>13
    <2> QED BY <1>8, <1>13, <2>1
  <1> HIDE DEF Bad
  <1> QED BY <1>7, <1>8, <1>9, <1>14

\* What comes after the closing of a horizon is not visible as of it.
LEMMA WhatFollowsAClosing ==
  ASSUME NEW S, NEW log \in Seq(S), WellFormed(log),
         \A i \in 1..Len(log) :
           /\ log[i].rec.horizon \in 0..2
           /\ log[i].rec.kind = "CorpusClosed" => log[i].rec.horizon = 0,
         NEW a \in 1..Len(log), NEW b \in 1..Len(log), a < b,
         log[a].rec.kind = "HorizonClosed"
  PROVE  ~IsVisible(log[b].rec, log[a].rec.horizon)
  <1> DEFINE h == log[a].rec.horizon
             k == log[b].rec.horizon
  <1>0. /\ b # 1 /\ NotReopened(log, b) /\ NotClosed(log, b) /\ b \in DOMAIN log
        /\ (log[b].rec.kind = "CorpusOpened") = (b = 1)
        /\ h \in 0..2 /\ k \in 0..2
    BY DEF WellFormed
  <1>1. CASE k = 0
    BY <1>0, <1>1 DEF IsVisible
  <1>2. CASE k # 0 /\ log[b].rec.kind = "HorizonClosed"
    BY <1>0, <1>2, HorizonsCloseInOrder DEF IsVisible
  <1>3. CASE k # 0 /\ log[b].rec.kind # "HorizonClosed"
    <2>1. h <= k
      BY <1>0, <1>3 DEF NotReopened
    <2>2. h \in ClosedBefore(log, b)
      BY EarlierRecords DEF ClosedBefore
    <2>3. log[b].rec.kind \notin {"CorpusOpened", "HorizonClosed"}
      BY <1>0, <1>3
    <2>4. CASE log[b].rec.kind = "CorpusClosed"
      BY <1>0, <1>3, <2>4 
    <2>5. CASE log[b].rec.kind # "CorpusClosed"
      BY <1>0, <1>3, <2>1, <2>2, <2>3, <2>5 DEF NotClosed, IsVisible
    <2> QED BY <2>4, <2>5
  <1> QED BY <1>1, <1>2, <1>3

\* The beginning of a sequence.
LEMMA BeginningOfASequence ==
  ASSUME NEW S, NEW log \in Seq(S), NEW n \in 0..Len(log)
  PROVE  /\ SubSeq(log, 1, n) \in Seq(S) /\ Len(SubSeq(log, 1, n)) = n
         /\ DOMAIN SubSeq(log, 1, n) = 1..n
         /\ \A i \in 1..n : SubSeq(log, 1, n)[i] = log[i]
  <1>1. \A i \in 1..n : log[i] \in S
    OBVIOUS
  <1>2. /\ SubSeq(log, 1, n) \in Seq(S)
        /\ Len(SubSeq(log, 1, n)) = IF 1 <= n THEN n - 1 + 1 ELSE 0
        /\ \A i \in 1..(n - 1 + 1) : SubSeq(log, 1, n)[i] = log[1 + i - 1]
    BY <1>1, SubSeqProperties
  <1> QED BY <1>2

HorizonsOfRecords(log) ==
  \A i \in 1..Len(log) :
    /\ log[i].rec.horizon \in 0..2
    /\ log[i].rec.kind = "CorpusClosed" => log[i].rec.horizon = 0

\* What is visible in a beginning of the log.
LEMMA ViewOfABeginning ==
  ASSUME NEW S, NEW log \in Seq(S), NEW n \in 0..Len(log), NEW h
  PROVE  Visible(SubSeq(log, 1, n), h) = {log[i] : i \in {j \in 1..n : IsVisible(log[j].rec, h)}}
  <1> DEFINE part == SubSeq(log, 1, n)
  <1>1. DOMAIN part = 1..n /\ \A i \in 1..n : part[i] = log[i]
    BY BeginningOfASequence
  <1> HIDE DEF part
  <1>2. Visible(part, h) = {log[i] : i \in {j \in 1..n : IsVisible(log[j].rec, h)}}
    BY <1>1 DEF Visible
  <1> QED BY <1>2 DEF part

\* Once a horizon was closed its view does not change any more.
LEMMA ClosedViews ==
  ASSUME NEW S, NEW log \in Seq(S), HorizonsOfRecords(log),
         NEW m \in 1..Len(log), WellFormed(SubSeq(log, 1, m)),
         NEW a \in 1..m, log[a].rec.kind = "HorizonClosed", NEW n \in a..m
  PROVE  Visible(SubSeq(log, 1, n), log[a].rec.horizon) = Visible(SubSeq(log, 1, m), log[a].rec.horizon)
  <1> DEFINE part == SubSeq(log, 1, m)
             h == log[a].rec.horizon
  <1>1. part \in Seq(S) /\ Len(part) = m /\ \A i \in 1..m : part[i] = log[i]
    BY BeginningOfASequence
  <1>2. WellFormed(part)
    OBVIOUS
  <1> HIDE DEF part
  <1>3. \A i \in 1..m : i > n => ~IsVisible(log[i].rec, h)
    <2> TAKE i \in 1..m
    <2> HAVE i > n
    <2>0. \A j \in 1..Len(part) : /\ part[j].rec.horizon \in 0..2
                                  /\ part[j].rec.kind = "CorpusClosed" => part[j].rec.horizon = 0
      BY <1>1 DEF HorizonsOfRecords
    <2>1. i \in 1..Len(part) /\ a \in 1..Len(part) /\ a < i
      BY <1>1
    <2>2. part[a].rec.kind = "HorizonClosed"
      BY <1>1
    <2>3. ~IsVisible(part[i].rec, part[a].rec.horizon)
      BY <1>1, <1>2, <2>0, <2>1, <2>2, WhatFollowsAClosing
    <2> QED BY <1>1, <2>3
  <1>4. {j \in 1..n : IsVisible(log[j].rec, h)} = {j \in 1..m : IsVisible(log[j].rec, h)}
    BY <1>3
  <1>5. n \in 0..Len(log) /\ m \in 0..Len(log)
    OBVIOUS
  <1> HIDE DEF h
  <1>6. Visible(SubSeq(log, 1, n), h) = Visible(SubSeq(log, 1, m), h)
    <2>1. Visible(SubSeq(log, 1, n), h) = {log[i] : i \in {j \in 1..n : IsVisible(log[j].rec, h)}}
      BY <1>5, ViewOfABeginning
    <2>2. Visible(SubSeq(log, 1, m), h) = {log[i] : i \in {j \in 1..m : IsVisible(log[j].rec, h)}}
      BY <1>5, ViewOfABeginning
    <2> QED BY <1>4, <2>1, <2>2
  <1> QED BY <1>6 DEF h

-----------------------------------------------------------------------------
(* What the commands write and hold.                                           *)

AnyRecord ==
  {CorpusOpened, CorpusClosed} \cup {HorizonClosed(h) : h \in Horizons}
    \cup {Source(h, p) : h \in Horizons, p \in SourcePaths}
    \cup {EvidenceSpan(h, p, s) : h \in Horizons, p \in SourcePaths, s \in Spans}
    \cup {AssertionRevision(h, r, pred, ev) : h \in Horizons, r \in Revisions,
            pred \in Revisions \cup {"null"}, ev \in SUBSET Spans}
    \cup {QuestionOpened(h, q, ev) : h \in Horizons, q \in Questions, ev \in SUBSET Spans}

Entry == [seq : Nat, rec : AnyRecord]

Writing ==
  [at : {"stage", "rename", "append", "closing", "corpus"}, h : 0..2, out : Seq(Entry)]
Building ==
  [at : {"remove", "build", "place", "compare"}, h : Horizons, out : SUBSET Entry,
   before : SUBSET Entry]

AnyCommand == {Idle} \cup Writing \cup Building

CaptureTypes ==
  /\ records \in Seq(Entry)
  /\ command \in [CaptureClients -> AnyCommand]
  /\ projections \in [Horizons -> (SUBSET Entry) \cup {Partial}]
  /\ snapshots \in [Horizons -> SUBSET SourcePaths]

\* Records by their kinds.
LEMMA AnyRecords ==
  ASSUME NEW r \in AnyRecord
  PROVE  /\ r.horizon \in 0..2
         /\ r.kind = "CorpusClosed" => r.horizon = 0
         /\ r.kind = "HorizonClosed" => r = HorizonClosed(r.horizon)
         /\ r.kind = "SourceSnapshot" => r.body.path \in SourcePaths
  <1>1. CASE r \in {CorpusOpened, CorpusClosed}
    BY <1>1 DEF CorpusOpened, CorpusClosed, Record
  <1>2. CASE \E h \in Horizons : r = HorizonClosed(h)
    BY <1>2 DEF HorizonClosed, Record, Horizons
  <1>3. CASE \E h \in Horizons, p \in SourcePaths : r = Source(h, p)
    BY <1>3 DEF Source, Record, Horizons
  <1>4. CASE \E h \in Horizons, p \in SourcePaths, s \in Spans : r = EvidenceSpan(h, p, s)
    BY <1>4 DEF EvidenceSpan, Record, Horizons
  <1>5. CASE \E h \in Horizons, q \in Revisions, pred \in Revisions \cup {"null"}, ev \in SUBSET Spans :
               r = AssertionRevision(h, q, pred, ev)
    BY <1>5 DEF AssertionRevision, Record, Horizons
  <1>6. CASE \E h \in Horizons, q \in Questions, ev \in SUBSET Spans : r = QuestionOpened(h, q, ev)
    BY <1>6 DEF QuestionOpened, Record, Horizons
  <1> QED BY <1>1, <1>2, <1>3, <1>4, <1>5, <1>6 DEF AnyRecord

\* The records of a log are of a horizon, or of none.
LEMMA RecordsHaveHorizons ==
  ASSUME NEW log \in Seq(Entry)
  PROVE  HorizonsOfRecords(log)
  <1>1. SUFFICES ASSUME NEW i \in 1..Len(log)
                 PROVE  /\ log[i].rec.horizon \in 0..2
                        /\ log[i].rec.kind = "CorpusClosed" => log[i].rec.horizon = 0
    BY DEF HorizonsOfRecords
  <1>2. log[i] \in Entry
    BY ElementOfSeq
  <1>3. log[i].rec \in AnyRecord
    BY <1>2 DEF Entry
  <1> QED BY <1>3, AnyRecords

\* Numbering makes entries of records.
LEMMA NumberedRecords ==
  ASSUME NEW from \in Nat, NEW rs \in Seq(AnyRecord)
  PROVE  /\ Numbered(from, rs) \in Seq(Entry) /\ Len(Numbered(from, rs)) = Len(rs)
         /\ \A i \in 1..Len(rs) : Numbered(from, rs)[i] = [seq |-> from + i, rec |-> rs[i]]
  <1> DEFINE e == Numbered(from, rs)
             n == Len(rs)
  <1>1. n \in Nat /\ DOMAIN rs = 1..n /\ \A i \in 1..n : rs[i] \in AnyRecord
    OBVIOUS
  <1>2. e = [i \in 1..n |-> [seq |-> from + i, rec |-> rs[i]]]
    BY <1>1 DEF Numbered
  <1>3. \A i \in 1..n : [seq |-> from + i, rec |-> rs[i]] \in Entry
    BY <1>1 DEF Entry
  <1> HIDE DEF n, e
  <1>4. e \in [1..n -> Entry]
    BY <1>2, <1>3
  <1>5. e \in Seq(Entry) /\ DOMAIN e = 1..n
    BY <1>1, <1>4, SeqDef
  <1>6. Len(e) = n
    BY <1>1, <1>5
  <1> QED BY <1>2, <1>5, <1>6 DEF e, n

\* Every path is among the sources of a horizon.
LEMMA SourcesOfAHorizon ==
  ASSUME NEW h \in Horizons
  PROVE  /\ SourcesOf(h) \in Seq(AnyRecord)
         /\ \A i \in DOMAIN SourcesOf(h) : \E p \in SourcePaths : SourcesOf(h)[i] = Source(h, p)
         /\ \A p \in SourcePaths : \E i \in DOMAIN SourcesOf(h) : SourcesOf(h)[i] = Source(h, p)
  <1> DEFINE n == Cardinality(SourcePaths)
             Injective(f) == \A i, j \in DOMAIN f : f[i] = f[j] => i = j
             order == CHOOSE f \in [1..n -> SourcePaths] : Injective(f)
  <1>1. n \in Nat /\ ExistsBijection(1..n, SourcePaths) /\ IsFiniteSet(SourcePaths)
    BY CaptureAssumption, FS_CardinalityType
  <1> HIDE DEF n
  <1>2. \E f \in [1..n -> SourcePaths] : Injective(f)
    BY <1>1 DEF ExistsBijection, Bijection, Injection, IsInjective
  <1>3. order \in [1..n -> SourcePaths] /\ Injective(order)
    BY <1>2
  <1> HIDE DEF order
  <1>4. order \in Injection(1..n, SourcePaths)
    BY <1>3, Fun_IsInj
  <1>5. IsFiniteSet(1..n) /\ Cardinality(1..n) = n
    <2>1. 1 \in Int /\ n \in Int
      BY <1>1
    <2> QED BY <1>1, <2>1, FS_Interval
  <1>6. order \in Surjection(1..n, SourcePaths)
    <2>1. Cardinality(1..n) = Cardinality(SourcePaths)
      BY <1>5 DEF n
    <2> QED BY <1>1, <1>4, <2>1, FS_Injection
  <1>7. \A p \in SourcePaths : \E i \in 1..n : order[i] = p
    BY <1>6 DEF Surjection
  <1>8. SourcesOf(h) = [i \in 1..n |-> Source(h, order[i])]
    <2>1. DOMAIN order = 1..n
      BY <1>3
    <2> QED BY <2>1 DEF SourcesOf, order, n
  <1>9. \A i \in 1..n : Source(h, order[i]) \in AnyRecord
    BY <1>3 DEF AnyRecord
  <1>10. SourcesOf(h) \in Seq(AnyRecord)
    <2>1. SourcesOf(h) \in [1..n -> AnyRecord]
      BY <1>8, <1>9
    <2> QED BY <1>1, <2>1, SeqDef
  <1> QED BY <1>3, <1>7, <1>8, <1>10

-----------------------------------------------------------------------------
(* Types.                                                                       *)

\* What a command holds is told by how far it is.
LEMMA KindsOfCommands ==
  ASSUME NEW k \in AnyCommand
  PROVE  /\ k.at \in {"stage", "rename", "append", "closing", "corpus"} => k \in Writing
         /\ k.at \in {"remove", "build", "place", "compare"} => k \in Building
         /\ k.at = "idle" => k = Idle
  BY DEF AnyCommand, Writing, Building, Idle

\* A command that writes is at one of the steps of writing, with its records.
LEMMA StatesOfWriting ==
  ASSUME NEW at \in {"stage", "rename", "append", "closing", "corpus"}, NEW h \in 0..2,
         NEW out \in Seq(Entry)
  PROVE  [at |-> at, h |-> h, out |-> out] \in AnyCommand
  <1> DEFINE T == Seq(Entry)
  <1> HIDE DEF T
  <1>1. out \in T
    BY DEF T
  <1>2. [at |-> at, h |-> h, out |-> out] \in
          [at : {"stage", "rename", "append", "closing", "corpus"}, h : 0..2, out : T]
    BY <1>1
  <1> QED BY <1>2 DEF AnyCommand, Writing, T

\* A command that builds is at one of the steps of building, with its views.
LEMMA StatesOfBuilding ==
  ASSUME NEW at \in {"remove", "build", "place", "compare"}, NEW h \in Horizons,
         NEW out \in SUBSET Entry, NEW before \in SUBSET Entry
  PROVE  [at |-> at, h |-> h, out |-> out, before |-> before] \in AnyCommand
  BY DEF AnyCommand, Building

\* What a command that writes, and one that builds, holds.
LEMMA WritingHolds ==
  ASSUME NEW k \in Writing
  PROVE  k.h \in 0..2 /\ k.out \in Seq(Entry)
  <1> DEFINE T == Seq(Entry)
  <1>0. k \in [at : {"stage", "rename", "append", "closing", "corpus"}, h : 0..2, out : T]
    BY DEF Writing
  <1> HIDE DEF T
  <1>1. k.h \in 0..2 /\ k.out \in T
    BY <1>0
  <1> QED BY <1>1 DEF T

LEMMA BuildingHolds ==
  ASSUME NEW k \in Building
  PROVE  k.h \in Horizons /\ k.out \in SUBSET Entry /\ k.before \in SUBSET Entry
  BY DEF Building

\* A command goes on to a state, and with what it writes or builds there.
GoneOn(k, at) == [k EXCEPT !.at = at]
GoneOnWith(k, at, out) == [k EXCEPT !.at = at, !.out = out]

\* They go on to another step, and keep what they hold or are given it.
LEMMA WritingGoesOn ==
  ASSUME NEW k \in Writing, NEW a \in {"stage", "rename", "append", "closing", "corpus"},
         NEW o \in Seq(Entry)
  PROVE  /\ GoneOn(k, a) \in AnyCommand /\ GoneOn(k, a).at = a
         /\ GoneOn(k, a).h = k.h /\ GoneOn(k, a).out = k.out
         /\ GoneOnWith(k, a, o) \in AnyCommand
         /\ GoneOnWith(k, a, o).at = a /\ GoneOnWith(k, a, o).out = o
  <1> DEFINE T == Seq(Entry)
             K == {"stage", "rename", "append", "closing", "corpus"}
  <1>0. k \in [at : K, h : 0..2, out : T] /\ a \in K /\ o \in T
    BY DEF Writing
  <1> HIDE DEF T, K
  <1>1. /\ GoneOn(k, a) \in [at : K, h : 0..2, out : T] /\ GoneOn(k, a).at = a
        /\ GoneOn(k, a).h = k.h /\ GoneOn(k, a).out = k.out
    BY <1>0 DEF GoneOn
  <1>2. /\ GoneOnWith(k, a, o) \in [at : K, h : 0..2, out : T]
        /\ GoneOnWith(k, a, o).at = a /\ GoneOnWith(k, a, o).out = o
    BY <1>0 DEF GoneOnWith
  <1>3. [at : K, h : 0..2, out : T] \subseteq AnyCommand
    BY DEF K, T, AnyCommand, Writing
  <1> QED BY <1>1, <1>2, <1>3

LEMMA BuildingGoesOn ==
  ASSUME NEW k \in Building, NEW a \in {"remove", "build", "place", "compare"},
         NEW o \in SUBSET Entry
  PROVE  /\ GoneOn(k, a) \in AnyCommand /\ GoneOn(k, a).at = a
         /\ GoneOn(k, a).h = k.h /\ GoneOn(k, a).out = k.out /\ GoneOn(k, a).before = k.before
         /\ GoneOnWith(k, a, o) \in AnyCommand
         /\ GoneOnWith(k, a, o).at = a /\ GoneOnWith(k, a, o).h = k.h
         /\ GoneOnWith(k, a, o).out = o /\ GoneOnWith(k, a, o).before = k.before
  <1> DEFINE T == SUBSET Entry
             K == {"remove", "build", "place", "compare"}
  <1>0. k \in [at : K, h : Horizons, out : T, before : T] /\ a \in K /\ o \in T
    BY DEF Building
  <1> HIDE DEF T, K
  <1>1. /\ GoneOn(k, a) \in [at : K, h : Horizons, out : T, before : T]
        /\ GoneOn(k, a).at = a /\ GoneOn(k, a).before = k.before
        /\ GoneOn(k, a).h = k.h /\ GoneOn(k, a).out = k.out
    BY <1>0 DEF GoneOn
  <1>2. /\ GoneOnWith(k, a, o) \in [at : K, h : Horizons, out : T, before : T]
        /\ GoneOnWith(k, a, o).at = a /\ GoneOnWith(k, a, o).h = k.h
        /\ GoneOnWith(k, a, o).out = o /\ GoneOnWith(k, a, o).before = k.before
    BY <1>0 DEF GoneOnWith
  <1>3. [at : K, h : Horizons, out : T, before : T] \subseteq AnyCommand
    BY DEF K, T, AnyCommand, Building
  <1> QED BY <1>1, <1>2, <1>3

LEMMA EmptyLogs ==
  << >> \in Seq(Entry) /\ {} \in SUBSET Entry
  OBVIOUS

\* A view shows entries of the log.
LEMMA ViewsShowEntries ==
  ASSUME NEW log \in Seq(Entry), NEW h
  PROVE  Visible(log, h) \in SUBSET Entry
  <1>1. \A i \in DOMAIN log : log[i] \in Entry
    BY ElementOfSeq
  <1> QED BY <1>1 DEF Visible

\* A log goes on behind what it held.
LEMMA LogsGoOn ==
  ASSUME NEW S, NEW log \in Seq(S), NEW out \in Seq(S)
  PROVE  /\ log \o out \in Seq(S) /\ Len(log \o out) = Len(log) + Len(out)
         /\ \A i \in 1..Len(log) : (log \o out)[i] = log[i]
         /\ \A i \in 1..Len(out) : (log \o out)[Len(log) + i] = out[i]
         /\ \A n \in 0..Len(log) : SubSeq(log \o out, 1, n) = SubSeq(log, 1, n)
  <1> DEFINE all == log \o out
  <1>1. all \in Seq(S) /\ Len(all) = Len(log) + Len(out) /\ \A i \in 1..Len(log) : all[i] = log[i]
    BY ConcatProperties
  <1>2. \A i \in 1..Len(out) : all[Len(log) + i] = out[i]
    BY ConcatProperties
  <1>3. ASSUME NEW n \in 0..Len(log) PROVE SubSeq(all, 1, n) = SubSeq(log, 1, n)
    <2> HIDE DEF all
    <2>1. n \in 0..Len(all)
      BY <1>1
    <2>2. /\ SubSeq(all, 1, n) \in Seq(S) /\ Len(SubSeq(all, 1, n)) = n
          /\ \A i \in 1..n : SubSeq(all, 1, n)[i] = all[i]
      BY <1>1, <2>1, BeginningOfASequence
    <2>3. /\ SubSeq(log, 1, n) \in Seq(S) /\ Len(SubSeq(log, 1, n)) = n
          /\ \A i \in 1..n : SubSeq(log, 1, n)[i] = log[i]
      BY BeginningOfASequence
    <2>4. \A i \in 1..n : SubSeq(all, 1, n)[i] = SubSeq(log, 1, n)[i]
      BY <1>1, <2>2, <2>3
    <2> DEFINE s == SubSeq(all, 1, n)
               t == SubSeq(log, 1, n)
    <2> HIDE DEF s, t
    <2>5. s \in Seq(S) /\ t \in Seq(S) /\ Len(s) = Len(t) /\ \A i \in 1..Len(s) : s[i] = t[i]
      BY <2>2, <2>3, <2>4 DEF s, t
    <2>6. s = t
      BY <2>5, SeqEqual
    <2> QED BY <2>6 DEF s, t
  <1> QED BY <1>1, <1>2, <1>3

\* A step of one client leaves the commands of the others.
LEMMA BecomesTyped ==
  ASSUME CaptureTypes, NEW c \in CaptureClients, NEW x \in AnyCommand, Becomes(c, x)
  PROVE  command' \in [CaptureClients -> AnyCommand]
  BY DEF CaptureTypes, Becomes

\* The records of the commands of one record.
LEMMA RecordsOfCommands ==
  /\ CorpusOpened \in AnyRecord /\ CorpusClosed \in AnyRecord
  /\ \A h \in Horizons : HorizonClosed(h) \in AnyRecord
  /\ {EvidenceSpan(h, p, s) : h \in Horizons, p \in SourcePaths, s \in Spans} \subseteq AnyRecord
  /\ {AssertionRevision(h, r, pred, ev) : h \in Horizons, r \in Revisions,
        pred \in Revisions \cup {"null"}, ev \in SUBSET Spans} \subseteq AnyRecord
  /\ {QuestionOpened(h, q, ev) : h \in Horizons, q \in Questions, ev \in SUBSET Spans}
       \subseteq AnyRecord
  BY DEF AnyRecord

\* One record makes one entry.
LEMMA OneRecordNumbered ==
  ASSUME NEW from \in Nat, NEW rec \in AnyRecord
  PROVE  /\ <<rec>> \in Seq(AnyRecord)
         /\ Numbered(from, <<rec>>) \in Seq(Entry) /\ Len(Numbered(from, <<rec>>)) = 1
         /\ Numbered(from, <<rec>>)[1] = [seq |-> from + 1, rec |-> rec]
  <1>1. <<rec>> \in Seq(AnyRecord) /\ Len(<<rec>>) = 1 /\ <<rec>>[1] = rec
    OBVIOUS
  <1> DEFINE rs == <<rec>>
  <1> HIDE DEF rs
  <1>2. rs \in Seq(AnyRecord) /\ Len(rs) = 1 /\ rs[1] = rec
    BY <1>1 DEF rs
  <1>3. /\ Numbered(from, rs) \in Seq(Entry) /\ Len(Numbered(from, rs)) = 1
        /\ \A i \in 1..1 : Numbered(from, rs)[i] = [seq |-> from + i, rec |-> rs[i]]
    BY <1>2, NumberedRecords
  <1>4. 1 \in 1..1
    OBVIOUS
  <1> QED BY <1>1, <1>2, <1>3, <1>4 DEF rs

\* A step of a command leaves what is of a type.
LEMMA TypesGoOn ==
  ASSUME CaptureTypes, CaptureNext
  PROVE  CaptureTypes'
  <1>1. PICK c \in CaptureClients : CaptureStep(c)
    BY DEF CaptureNext
  <1> DEFINE k == command[c]
  <1>2. /\ command \in [CaptureClients -> AnyCommand] /\ k \in AnyCommand
        /\ records \in Seq(Entry) /\ Len(records) \in Nat
        /\ projections \in [Horizons -> (SUBSET Entry) \cup {Partial}]
        /\ snapshots \in [Horizons -> SUBSET SourcePaths]
        /\ Idle \in AnyCommand /\ NoView \in SUBSET Entry
    BY DEF CaptureTypes, AnyCommand, NoView
  <1>3. SUFFICES /\ records' \in Seq(Entry) /\ command' \in [CaptureClients -> AnyCommand]
                 /\ projections' \in [Horizons -> (SUBSET Entry) \cup {Partial}]
                 /\ snapshots' \in [Horizons -> SUBSET SourcePaths]
    BY DEF CaptureTypes
  <1>4. k.at # "idle" => k # Idle
    BY DEF Idle
  <1>5. \A h \in Horizons : Visible(records, h) \in SUBSET Entry
    BY <1>2, ViewsShowEntries
  <1>6. \A h \in Horizons : h \in 0..2
    BY DEF Horizons
  <1>7. CASE InitializeStore(c)
    <2>1. Numbered(0, <<CorpusOpened>>) \in Seq(Entry)
      <3>1. CorpusOpened \in AnyRecord /\ 0 \in Nat
        BY RecordsOfCommands
      <3> QED BY <3>1, OneRecordNumbered
    <2> QED BY <1>2, <1>7, <2>1 DEF InitializeStore, OnlyLog
  <1>8. CASE AppendSourceHorizon(c)
    <2>1. PICK h \in NextHorizons :
            Becomes(c, [at |-> "stage", h |-> h, out |-> Numbered(Len(records), SourcesOf(h))])
      BY <1>8 DEF AppendSourceHorizon
    <2>2. h \in Horizons
      BY DEF NextHorizons
    <2>3. Numbered(Len(records), SourcesOf(h)) \in Seq(Entry)
      BY <1>2, <2>2, SourcesOfAHorizon, NumberedRecords
    <2>4. [at |-> "stage", h |-> h, out |-> Numbered(Len(records), SourcesOf(h))] \in AnyCommand
      BY <1>6, <2>2, <2>3, StatesOfWriting
    <2> QED BY <1>2, <1>8, <2>1, <2>4, BecomesTyped DEF AppendSourceHorizon, OnlyLog
  <1>9. CASE WriteStage(c)
    <2>1. k \in Writing
      BY <1>2, <1>9, KindsOfCommands DEF WriteStage
    <2>2. GoneOn(k, "rename") \in AnyCommand
      BY <2>1, EmptyLogs, WritingGoesOn
    <2> QED BY <1>2, <1>9, <2>2, BecomesTyped DEF WriteStage, OnlyLog, GoneOn
  <1>10. CASE RenameStage(c)
    <2>1. k \in Writing
      BY <1>2, <1>10, KindsOfCommands DEF RenameStage
    <2>2. GoneOn(k, "append") \in AnyCommand
      BY <2>1, EmptyLogs, WritingGoesOn
    <2>3. command' \in [CaptureClients -> AnyCommand]
      BY <1>2, <1>10, <2>2, BecomesTyped DEF RenameStage, GoneOn
    <2>4. \A h \in Horizons : PresentAt[h] \in SUBSET SourcePaths
      BY CaptureAssumption DEF Horizons
    <2>5. snapshots' \in [Horizons -> SUBSET SourcePaths]
      BY <1>2, <1>10, <2>4 DEF RenameStage
    <2> QED BY <1>2, <1>10, <2>3, <2>5 DEF RenameStage, OnlySnapshots
  <1>11. ASSUME NEW candidates \in SUBSET AnyRecord, NEW next \in {"append", "closing"},
                AppendRecord(c, candidates, next)
         PROVE  CaptureTypes'
    <2>1. PICK rec \in candidates :
            Becomes(c, [at |-> next, h |-> rec.horizon, out |-> Numbered(Len(records), <<rec>>)])
      BY <1>11 DEF AppendRecord
    <2>2. rec \in AnyRecord /\ rec.horizon \in 0..2
      BY AnyRecords
    <2>3. Numbered(Len(records), <<rec>>) \in Seq(Entry)
      BY <1>2, <2>2, OneRecordNumbered
    <2>4. [at |-> next, h |-> rec.horizon, out |-> Numbered(Len(records), <<rec>>)] \in AnyCommand
      BY <2>2, <2>3, StatesOfWriting
    <2> QED BY <1>2, <1>11, <2>1, <2>4, BecomesTyped DEF AppendRecord, OnlyLog, CaptureTypes
  <1>12. CASE AppendEvidenceSpan(c) \/ AppendAssertion(c) \/ AppendQuestion(c)
    <2> DEFINE E == {EvidenceSpan(h, p, s) : h \in Horizons, p \in SourcePaths, s \in Spans}
               A == {AssertionRevision(h, r, pred, ev) : h \in Horizons, r \in Revisions,
                       pred \in Revisions \cup {"null"}, ev \in SUBSET Spans}
               Q == {QuestionOpened(h, q, ev) : h \in Horizons, q \in Questions, ev \in SUBSET Spans}
    <2>1. E \in SUBSET AnyRecord /\ A \in SUBSET AnyRecord /\ Q \in SUBSET AnyRecord
      BY RecordsOfCommands
    <2>2. AppendRecord(c, E, "append") \/ AppendRecord(c, A, "append") \/ AppendRecord(c, Q, "append")
      BY <1>12 DEF AppendEvidenceSpan, AppendAssertion, AppendQuestion
    <2> HIDE DEF E, A, Q
    <2>3. CaptureTypes'
      BY <1>11, <2>1, <2>2
    <2> QED BY <2>3 DEF CaptureTypes
  <1>13. CASE CloseHorizon(c)
    <2> DEFINE Z == {HorizonClosed(h) : h \in Horizons}
    <2>1. Z \in SUBSET AnyRecord
      BY RecordsOfCommands
    <2>2. AppendRecord(c, Z, "append") \/ AppendRecord(c, Z, "closing")
      BY <1>13 DEF CloseHorizon
    <2> HIDE DEF Z
    <2>3. CaptureTypes'
      BY <1>11, <2>1, <2>2
    <2> QED BY <2>3 DEF CaptureTypes
  <1>14. CASE AppendPreparedRecords(c)
    <2>1. k \in Writing
      BY <1>2, <1>14, KindsOfCommands DEF AppendPreparedRecords
    <2>2. records \o k.out \in Seq(Entry)
      <3>1. k.out \in Seq(Entry)
        BY <2>1, WritingHolds
      <3> QED BY <1>2, <3>1, LogsGoOn
    <2> QED BY <1>2, <1>14, <2>2, BecomesTyped DEF AppendPreparedRecords, OnlyLog
  <1>15. CASE AppendHorizonClosed(c)
    <2>1. k \in Writing
      BY <1>2, <1>15, KindsOfCommands DEF AppendHorizonClosed
    <2>2. records \o k.out \in Seq(Entry)
      <3>1. k.out \in Seq(Entry)
        BY <2>1, WritingHolds
      <3> QED BY <1>2, <3>1, LogsGoOn
    <2>3. [at |-> "corpus", h |-> k.h, out |-> << >>] \in AnyCommand
      <3>1. k.h \in 0..2
        BY <2>1, WritingHolds
      <3> QED BY <3>1, EmptyLogs, StatesOfWriting
    <2> QED BY <1>2, <1>15, <2>2, <2>3, BecomesTyped DEF AppendHorizonClosed, OnlyLog
  <1>16. CASE CloseCorpus(c)
    <2>1. k \in Writing
      BY <1>2, <1>16, KindsOfCommands DEF CloseCorpus
    <2>2. Numbered(Len(records), <<CorpusClosed>>) \in Seq(Entry)
      <3>1. CorpusClosed \in AnyRecord /\ Len(records) \in Nat
        BY <1>2, RecordsOfCommands
      <3> QED BY <3>1, OneRecordNumbered
    <2>3. GoneOnWith(k, "append", Numbered(Len(records), <<CorpusClosed>>)) \in AnyCommand
      BY <2>1, <2>2, WritingGoesOn
    <2> QED BY <1>2, <1>16, <2>3, BecomesTyped DEF CloseCorpus, OnlyLog, GoneOnWith
  <1>17. CASE \E h \in Horizons : BuildProjection(c, h)
    <2>1. PICK h \in Horizons : BuildProjection(c, h)
      BY <1>17
    <2>2. [at |-> "place", h |-> h, out |-> Visible(records, h), before |-> NoView] \in AnyCommand
      BY <1>2, <1>5, StatesOfBuilding
    <2> QED BY <1>2, <2>1, <2>2, BecomesTyped DEF BuildProjection, OnlyProjections
  <1>18. CASE \E h \in Horizons : RebuildProjection(c, h)
    <2>1. PICK h \in Horizons : RebuildProjection(c, h)
      BY <1>18
    <2>2. projections[h] \in SUBSET Entry
      BY <1>2, <2>1 DEF RebuildProjection
    <2>3. [at |-> "remove", h |-> h, out |-> NoView, before |-> projections[h]] \in AnyCommand
      BY <1>2, <2>2, StatesOfBuilding
    <2> QED BY <1>2, <2>1, <2>3, BecomesTyped DEF RebuildProjection, OnlyProjections
  <1>19. CASE RemoveProjection(c)
    <2>1. k \in Building
      BY <1>2, <1>19, KindsOfCommands DEF RemoveProjection
    <2>2. GoneOn(k, "build") \in AnyCommand
      BY <2>1, EmptyLogs, BuildingGoesOn
    <2>3. projections' \in [Horizons -> (SUBSET Entry) \cup {Partial}]
      BY <1>2, <1>19 DEF RemoveProjection
    <2> QED BY <1>2, <1>19, <2>2, <2>3, BecomesTyped DEF RemoveProjection, OnlyProjections, GoneOn
  <1>20. CASE BuildAgain(c)
    <2>1. k \in Building
      BY <1>2, <1>20, KindsOfCommands DEF BuildAgain
    <2>2. GoneOnWith(k, "place", Visible(records, k.h)) \in AnyCommand
      BY <1>5, <2>1, BuildingHolds, BuildingGoesOn
    <2> QED BY <1>2, <1>20, <2>2, BecomesTyped DEF BuildAgain, OnlyProjections, GoneOnWith
  <1>21. CASE PlaceProjection(c)
    <2>1. k \in Building
      BY <1>2, <1>21, KindsOfCommands DEF PlaceProjection
    <2>2. GoneOn(k, "compare") \in AnyCommand
      BY <2>1, EmptyLogs, BuildingGoesOn
    <2>3. k.out \in SUBSET Entry
      BY <2>1, BuildingHolds
    <2>4. projections' \in [Horizons -> (SUBSET Entry) \cup {Partial}]
      BY <1>2, <1>21, <2>3 DEF PlaceProjection
    <2>5. command' \in [CaptureClients -> AnyCommand]
      BY <1>2, <1>21, <2>2, BecomesTyped DEF PlaceProjection, GoneOn
    <2> QED BY <1>2, <1>21, <2>4, <2>5 DEF PlaceProjection, OnlyProjections
  <1>22. CASE CompareProjections(c)
    BY <1>2, <1>22, BecomesTyped DEF CompareProjections, OnlyProjections
  <1>23. Abandons(c) => command' \in [CaptureClients -> AnyCommand]
    BY <1>2 DEF Abandons
  <1>24. CASE AbandonStage(c)
    BY <1>2, <1>23, <1>24 DEF AbandonStage
  <1>25. CASE AbandonAppend(c)
    <2>1. k \in Writing
      BY <1>2, <1>25, KindsOfCommands DEF AbandonAppend
    <2>2. PICK n \in 0..Len(k.out) : records' = records \o SubSeq(k.out, 1, n)
      BY <1>25 DEF AbandonAppend
    <2>3. SubSeq(k.out, 1, n) \in Seq(Entry)
      <3>1. k.out \in Seq(Entry)
        BY <2>1, WritingHolds
      <3> QED BY <3>1, BeginningOfASequence
    <2>4. records \o SubSeq(k.out, 1, n) \in Seq(Entry)
      BY <1>2, <2>3, LogsGoOn
    <2> QED BY <1>2, <1>23, <1>25, <2>2, <2>4 DEF AbandonAppend
  <1>26. CASE AbandonProjection(c)
    <2>1. projections' \in [Horizons -> (SUBSET Entry) \cup {Partial}]
      BY <1>2, <1>26 DEF AbandonProjection
    <2> QED BY <1>2, <1>23, <1>26, <2>1 DEF AbandonProjection
  <1> QED BY <1>1, <1>7, <1>8, <1>9, <1>10, <1>12, <1>13, <1>14, <1>15, <1>16, <1>17, <1>18,
             <1>19, <1>20, <1>21, <1>22, <1>24, <1>25, <1>26 DEF CaptureStep

-----------------------------------------------------------------------------
(* Closed views.                                                                *)

\* What the commands write and hold, at every step.
THEOREM RecordsAreTyped == CaptureSpec => []CaptureTypes
  <1>1. CaptureInit => CaptureTypes
    BY EmptyLogs DEF CaptureInit, CaptureTypes, AnyCommand, NoView
  <1>2. CaptureTypes /\ [CaptureNext]_captureVars => CaptureTypes'
    <2>1. CaptureTypes /\ UNCHANGED captureVars => CaptureTypes'
      BY DEF CaptureTypes, captureVars
    <2> QED BY <2>1, TypesGoOn
  <1> QED BY <1>1, <1>2, PTL DEF CaptureSpec

\* A verified store shows for a closed horizon what it showed when it was closed.
THEOREM ClosedStaysClosed == CaptureSpec => []ClosedViewsAreFrozen
  <1>1. CaptureTypes => ClosedViewsAreFrozen
    <2>1. SUFFICES ASSUME CaptureTypes, WellFormed(records), NEW i \in DOMAIN records,
                          records[i].rec.kind = "HorizonClosed"
                   PROVE  Visible(records, records[i].rec.horizon) =
                            Visible(SubSeq(records, 1, i), records[i].rec.horizon)
      BY DEF ClosedViewsAreFrozen
    <2> DEFINE n == Len(records)
    <2>2. records \in Seq(Entry) /\ n \in Nat /\ i \in 1..n
      BY <2>1 DEF CaptureTypes
    <2>3. SubSeq(records, 1, n) = records
      BY <2>2, SubSeqFull
    <2>4. HorizonsOfRecords(records)
      BY <2>2, RecordsHaveHorizons
    <2>5. n \in 1..n /\ i \in i..n
      BY <2>2
    <2>5a. WellFormed(SubSeq(records, 1, n))
      BY <2>1, <2>3
    <2>6. Visible(SubSeq(records, 1, i), records[i].rec.horizon) =
            Visible(SubSeq(records, 1, n), records[i].rec.horizon)
      BY <2>1, <2>2, <2>4, <2>5, <2>5a, ClosedViews
    <2> QED BY <2>3, <2>6
  <1> QED BY <1>1, RecordsAreTyped, PTL

-----------------------------------------------------------------------------
(* The views of projections, and of the commands that build them.              *)

\* The view was derived, as of h, from the first n records, which formed a log.
GoodView(log, v, h, n) ==
  /\ n \in 1..Len(log)
  /\ WellFormed(SubSeq(log, 1, n))
  /\ v = Visible(SubSeq(log, 1, n), h)

IsView(log, v, h) == \E n \in 1..Len(log) : GoodView(log, v, h, n)

\* The view before is as old as the view built, or older.
GoodPair(log, before, built, h) ==
  \E n, m \in 1..Len(log) : n <= m /\ GoodView(log, before, h, n) /\ GoodView(log, built, h, m)

\* What a command holds of views.
HeldViews(log, k) ==
  /\ k.at \in {"remove", "build"} => IsView(log, k.before, k.h)
  /\ k.at = "place" =>
       \/ k.before = NoView /\ IsView(log, k.out, k.h)
       \/ GoodPair(log, k.before, k.out, k.h)
  /\ k.at = "compare" => GoodPair(log, k.before, k.out, k.h)

Compared(log, r) ==
  r = Nothing \/ (r.h \in Horizons /\ GoodPair(log, r.before, r.built, r.h) /\ IsView(log, r.after, r.h))

ViewsInv ==
  /\ \A h \in Horizons : projections[h] \in {NoView, Partial} \/ IsView(records, projections[h], h)
  /\ \A c \in CaptureClients : HeldViews(records, command[c])
  /\ Compared(records, rebuilt)

\* A view stays one of a log that goes on.
LEMMA ViewsGoOn ==
  ASSUME NEW log \in Seq(Entry), NEW out \in Seq(Entry)
  PROVE  /\ \A v, h, n : GoodView(log, v, h, n) => GoodView(log \o out, v, h, n)
         /\ \A v, h : IsView(log, v, h) => IsView(log \o out, v, h)
         /\ \A v, w, h : GoodPair(log, v, w, h) => GoodPair(log \o out, v, w, h)
  <1> DEFINE all == log \o out
  <1>1. /\ all \in Seq(Entry) /\ Len(all) \in Nat /\ Len(log) \in Nat /\ Len(out) \in Nat
        /\ Len(all) = Len(log) + Len(out)
        /\ \A n \in 0..Len(log) : SubSeq(all, 1, n) = SubSeq(log, 1, n)
    BY LogsGoOn
  <1> HIDE DEF all
  <1>2. 1..Len(log) \subseteq 1..Len(all)
    BY <1>1
  <1>3. \A v, h, n : GoodView(log, v, h, n) => GoodView(all, v, h, n)
    <2> TAKE v, h, n
    <2> HAVE GoodView(log, v, h, n)
    <2>1. n \in 1..Len(log) /\ WellFormed(SubSeq(log, 1, n)) /\ v = Visible(SubSeq(log, 1, n), h)
      BY DEF GoodView
    <2>2. SubSeq(all, 1, n) = SubSeq(log, 1, n)
      BY <1>1, <2>1
    <2> QED BY <1>2, <2>1, <2>2 DEF GoodView
  <1>4. \A v, h : IsView(log, v, h) => IsView(all, v, h)
    BY <1>2, <1>3 DEF IsView
  <1>5. \A v, w, h : GoodPair(log, v, w, h) => GoodPair(all, v, w, h)
    BY <1>2, <1>3 DEF GoodPair
  <1> QED BY <1>3, <1>4, <1>5 DEF all

\* What is held of views, and what was compared, stays so.
LEMMA HeldViewsGoOn ==
  ASSUME NEW log \in Seq(Entry), NEW out \in Seq(Entry)
  PROVE  /\ \A k : HeldViews(log, k) => HeldViews(log \o out, k)
         /\ \A r : Compared(log, r) => Compared(log \o out, r)
  BY ViewsGoOn DEF HeldViews, Compared

\* A log that verifies gives a view.
LEMMA VerifiedView ==
  ASSUME NEW log \in Seq(Entry), WellFormed(log), NEW h
  PROVE  /\ GoodView(log, Visible(log, h), h, Len(log))
         /\ IsView(log, Visible(log, h), h)
         /\ \A v : IsView(log, v, h) => GoodPair(log, v, Visible(log, h), h)
  <1>1. Len(log) \in 1..Len(log) /\ SubSeq(log, 1, Len(log)) = log
    <2>1. log # << >> /\ Len(log) \in Nat
      BY DEF WellFormed
    <2>2. Len(log) # 0
      BY <2>1
    <2> QED BY <2>1, <2>2, SubSeqFull
  <1>2. GoodView(log, Visible(log, h), h, Len(log))
    BY <1>1 DEF GoodView
  <1>3. IsView(log, Visible(log, h), h)
    BY <1>1, <1>2 DEF IsView
  <1>4. ASSUME NEW v, IsView(log, v, h) PROVE GoodPair(log, v, Visible(log, h), h)
    <2>1. PICK n \in 1..Len(log) : GoodView(log, v, h, n)
      BY <1>4 DEF IsView
    <2>2. n <= Len(log)
      OBVIOUS
    <2> QED BY <1>1, <1>2, <2>1, <2>2 DEF GoodPair
  <1> QED BY <1>2, <1>3, <1>4

\* The log only grows.
LEMMA RecordsGrow ==
  ASSUME CaptureTypes, CaptureNext
  PROVE  \E out \in Seq(Entry) : records' = records \o out
  <1>1. PICK c \in CaptureClients : CaptureStep(c)
    BY DEF CaptureNext
  <1>2. records \in Seq(Entry) /\ command[c] \in AnyCommand /\ << >> \in Seq(Entry)
    BY EmptyLogs DEF CaptureTypes
  <1>3. records \o << >> = records
    BY <1>2, ConcatEmptySeq
  <1>4. records' = records => \E out \in Seq(Entry) : records' = records \o out
    BY <1>2, <1>3
  <1>5. CASE InitializeStore(c)
    <2>1. Numbered(0, <<CorpusOpened>>) \in Seq(Entry)
      <3>1. CorpusOpened \in AnyRecord /\ 0 \in Nat
        BY RecordsOfCommands
      <3> QED BY <3>1, OneRecordNumbered
    <2>2. << >> \o Numbered(0, <<CorpusOpened>>) = Numbered(0, <<CorpusOpened>>)
      BY <2>1, ConcatEmptySeq
    <2> QED BY <1>5, <2>1, <2>2 DEF InitializeStore
  <1>6. CASE AppendPreparedRecords(c) \/ AppendHorizonClosed(c)
    <2>1. command[c].out \in Seq(Entry) /\ records' = records \o command[c].out
      BY <1>2, <1>6, KindsOfCommands, WritingHolds DEF AppendPreparedRecords, AppendHorizonClosed
    <2> QED BY <2>1
  <1>7. CASE AbandonAppend(c)
    <2>1. command[c].out \in Seq(Entry)
      BY <1>2, <1>7, KindsOfCommands, WritingHolds DEF AbandonAppend
    <2>2. PICK n \in 0..Len(command[c].out) : records' = records \o SubSeq(command[c].out, 1, n)
      BY <1>7 DEF AbandonAppend
    <2>3. SubSeq(command[c].out, 1, n) \in Seq(Entry)
      BY <2>1, BeginningOfASequence
    <2> QED BY <2>2, <2>3
  <1>8. CASE AppendSourceHorizon(c) \/ WriteStage(c) \/ RenameStage(c) \/ AppendEvidenceSpan(c)
               \/ AppendAssertion(c) \/ AppendQuestion(c) \/ CloseHorizon(c) \/ CloseCorpus(c)
               \/ AbandonStage(c) \/ AbandonProjection(c)
    <2>1. CASE AppendSourceHorizon(c) \/ WriteStage(c) \/ RenameStage(c) \/ CloseCorpus(c)
      BY <1>4, <2>1 DEF AppendSourceHorizon, WriteStage, RenameStage, CloseCorpus, OnlySnapshots
    <2>3. CASE AppendEvidenceSpan(c) \/ AppendAssertion(c) \/ AppendQuestion(c) \/ CloseHorizon(c)
      <3>1. AppendEvidenceSpan(c) => records' = records
        BY DEF AppendEvidenceSpan, AppendRecord
      <3>2. AppendAssertion(c) => records' = records
        BY DEF AppendAssertion, AppendRecord
      <3>3. AppendQuestion(c) => records' = records
        BY DEF AppendQuestion, AppendRecord
      <3>4. CloseHorizon(c) => records' = records
        BY DEF CloseHorizon, AppendRecord
      <3> QED BY <1>4, <2>3, <3>1, <3>2, <3>3, <3>4
    <2>4. CASE AbandonStage(c) \/ AbandonProjection(c)
      BY <1>4, <2>4 DEF AbandonStage, AbandonProjection
    <2> QED BY <1>8, <2>1, <2>3, <2>4
  <1>9. CASE \/ \E h \in Horizons : BuildProjection(c, h) \/ RebuildProjection(c, h)
             \/ RemoveProjection(c) \/ BuildAgain(c) \/ PlaceProjection(c) \/ CompareProjections(c)
    BY <1>4, <1>9 DEF BuildProjection, RebuildProjection, RemoveProjection, BuildAgain,
         PlaceProjection, CompareProjections, OnlyProjections
  <1> QED BY <1>1, <1>5, <1>6, <1>7, <1>8, <1>9 DEF CaptureStep

\* A command that writes, and one that ended, holds no view.
LEMMA NothingHeld ==
  ASSUME NEW log, NEW k, k.at \in {"idle", "stage", "rename", "append", "closing", "corpus"}
  PROVE  HeldViews(log, k)
  BY DEF HeldViews

\* Each step leaves views that were derived from the log.
LEMMA ViewsKept ==
  ASSUME CaptureTypes, ViewsInv, CaptureNext
  PROVE  ViewsInv'
  <1>1. PICK c \in CaptureClients : CaptureStep(c)
    BY DEF CaptureNext
  <1> DEFINE k == command[c]
             ToldViews == \A h \in Horizons : projections[h] \in {NoView, Partial}
                                                \/ IsView(records', projections[h], h)
             ProjectedViews == \A h \in Horizons : projections'[h] \in {NoView, Partial}
                                                \/ IsView(records', projections'[h], h)
             CommandsHold == \A d \in CaptureClients : HeldViews(records', command'[d])
             Goal == ProjectedViews /\ CommandsHold /\ Compared(records', rebuilt')
  <1>2. /\ command \in [CaptureClients -> AnyCommand] /\ k \in AnyCommand
        /\ records \in Seq(Entry)
        /\ projections \in [Horizons -> (SUBSET Entry) \cup {Partial}]
    BY DEF CaptureTypes
  <1>3. /\ \A v, h : IsView(records, v, h) => IsView(records', v, h)
        /\ \A v, w, h : GoodPair(records, v, w, h) => GoodPair(records', v, w, h)
        /\ \A x : HeldViews(records, x) => HeldViews(records', x)
        /\ \A r : Compared(records, r) => Compared(records', r)
    <2>1. PICK out \in Seq(Entry) : records' = records \o out
      BY RecordsGrow
    <2> QED BY <1>2, <2>1, ViewsGoOn, HeldViewsGoOn
  <1>4. ToldViews /\ (\A d \in CaptureClients : HeldViews(records', command[d]))
          /\ Compared(records', rebuilt)
    BY <1>3 DEF ViewsInv
  <1>5. SUFFICES Goal
    BY DEF ViewsInv
  <1>6. ASSUME NEW x, Becomes(c, x), HeldViews(records', x) PROVE CommandsHold
    <2> SUFFICES ASSUME NEW d \in CaptureClients PROVE HeldViews(records', command'[d])
      OBVIOUS
    <2>1. CASE d = c
      BY <1>2, <1>6, <2>1 DEF Becomes
    <2>2. CASE d # c
      BY <1>2, <1>4, <1>6, <2>2 DEF Becomes
    <2> QED BY <2>1, <2>2
  <1>7. Becomes(c, Idle) => CommandsHold
    <2>1. HeldViews(records', Idle)
      BY NothingHeld DEF Idle
    <2> QED BY <1>6, <2>1
  <1>8. ASSUME projections' = projections PROVE ProjectedViews
    BY <1>4, <1>8
  <1>9. ASSUME rebuilt' = rebuilt PROVE Compared(records', rebuilt')
    BY <1>4, <1>9
  <1>10. ASSUME NEW at \in {"stage", "append", "closing"}, NEW h, NEW out,
                Becomes(c, [at |-> at, h |-> h, out |-> out])
         PROVE  CommandsHold
    <2>1. HeldViews(records', [at |-> at, h |-> h, out |-> out])
      BY NothingHeld
    <2> QED BY <1>6, <1>10, <2>1
  <1> HIDE DEF ToldViews, ProjectedViews, CommandsHold
  <1>11. CASE InitializeStore(c)
    <2>1. command' = command /\ projections' = projections /\ rebuilt' = rebuilt
      BY <1>11 DEF InitializeStore, OnlyLog
    <2> QED BY <1>4, <1>8, <1>9, <2>1 DEF CommandsHold
  <1>12. CASE AppendSourceHorizon(c)
    <2>1. projections' = projections /\ rebuilt' = rebuilt
      BY <1>12 DEF AppendSourceHorizon, OnlyLog
    <2>2. PICK h \in NextHorizons :
            Becomes(c, [at |-> "stage", h |-> h, out |-> Numbered(Len(records), SourcesOf(h))])
      BY <1>12 DEF AppendSourceHorizon
    <2>3. CommandsHold
      BY <1>10, <2>2
    <2> QED BY <1>8, <1>9, <2>1, <2>3
  <1>13. CASE WriteStage(c)
    <2>1. /\ projections' = projections /\ rebuilt' = rebuilt /\ Becomes(c, GoneOn(k, "rename"))
          /\ k \in Writing
      BY <1>2, <1>13, KindsOfCommands DEF WriteStage, OnlyLog, GoneOn
    <2>2. GoneOn(k, "rename").at = "rename"
      BY <2>1, EmptyLogs, WritingGoesOn
    <2>3. CommandsHold
      BY <1>6, <2>1, <2>2, NothingHeld
    <2> QED BY <1>8, <1>9, <2>1, <2>3
  <1>14. CASE RenameStage(c)
    <2>1. /\ projections' = projections /\ rebuilt' = rebuilt /\ k \in Writing
          /\ Becomes(c, GoneOn(k, "append")) \/ Becomes(c, Idle)
      BY <1>2, <1>14, KindsOfCommands DEF RenameStage, OnlySnapshots, GoneOn
    <2>2. GoneOn(k, "append").at = "append"
      BY <2>1, EmptyLogs, WritingGoesOn
    <2>3. CommandsHold
      BY <1>6, <1>7, <2>1, <2>2, NothingHeld
    <2> QED BY <1>8, <1>9, <2>1, <2>3
  <1>15. ASSUME NEW candidates, NEW next \in {"append", "closing"}, AppendRecord(c, candidates, next)
         PROVE  Goal
    <2>1. projections' = projections /\ rebuilt' = rebuilt
      BY <1>15 DEF AppendRecord, OnlyLog
    <2>2. \E rec \in candidates :
            Becomes(c, [at |-> next, h |-> rec.horizon, out |-> Numbered(Len(records), <<rec>>)])
      BY <1>15 DEF AppendRecord
    <2>3. CommandsHold
      BY <1>10, <2>2
    <2> QED BY <1>8, <1>9, <2>1, <2>3
  <1>16. CASE AppendEvidenceSpan(c)
    BY <1>15, <1>16 DEF AppendEvidenceSpan
  <1>17. CASE AppendAssertion(c)
    BY <1>15, <1>17 DEF AppendAssertion
  <1>18. CASE AppendQuestion(c)
    BY <1>15, <1>18 DEF AppendQuestion
  <1>19. CASE CloseHorizon(c)
    <2>1. \/ AppendRecord(c, {HorizonClosed(h) : h \in Horizons}, "append")
          \/ AppendRecord(c, {HorizonClosed(h) : h \in Horizons}, "closing")
      BY <1>19 DEF CloseHorizon
    <2> QED BY <1>15, <2>1
  <1>20. CASE AppendPreparedRecords(c)
    <2>1. projections' = projections /\ rebuilt' = rebuilt /\ Becomes(c, Idle)
      BY <1>20 DEF AppendPreparedRecords, OnlyLog
    <2> QED BY <1>7, <1>8, <1>9, <2>1
  <1>21. CASE AppendHorizonClosed(c)
    <2>1. /\ projections' = projections /\ rebuilt' = rebuilt
          /\ Becomes(c, [at |-> "corpus", h |-> k.h, out |-> << >>])
      BY <1>21 DEF AppendHorizonClosed, OnlyLog
    <2>2. HeldViews(records', [at |-> "corpus", h |-> k.h, out |-> << >>])
      BY NothingHeld
    <2>3. CommandsHold
      BY <1>6, <2>1, <2>2
    <2> QED BY <1>8, <1>9, <2>1, <2>3
  <1>22. CASE CloseCorpus(c)
    <2> DEFINE out == Numbered(Len(records), <<CorpusClosed>>)
    <2>1. /\ projections' = projections /\ rebuilt' = rebuilt /\ k \in Writing
          /\ Becomes(c, GoneOnWith(k, "append", out)) \/ Becomes(c, Idle)
      BY <1>2, <1>22, KindsOfCommands DEF CloseCorpus, OnlyLog, GoneOnWith
    <2>2. out \in Seq(Entry)
      <3>1. CorpusClosed \in AnyRecord /\ Len(records) \in Nat
        BY <1>2, RecordsOfCommands
      <3> QED BY <3>1, OneRecordNumbered
    <2> HIDE DEF out
    <2>3. GoneOnWith(k, "append", out).at = "append"
      BY <2>1, <2>2, WritingGoesOn
    <2>4. CommandsHold
      BY <1>6, <1>7, <2>1, <2>3, NothingHeld
    <2> QED BY <1>8, <1>9, <2>1, <2>4
  <1>23. CASE \E h \in Horizons : BuildProjection(c, h)
    <2>1. PICK h \in Horizons : BuildProjection(c, h)
      BY <1>23
    <2> DEFINE x == [at |-> "place", h |-> h, out |-> Visible(records, h), before |-> NoView]
    <2>2. projections' = projections /\ rebuilt' = rebuilt /\ Becomes(c, x) /\ WellFormed(records)
      BY <2>1 DEF BuildProjection, Status, StoreVerifies
    <2>3. IsView(records', Visible(records, h), h)
      BY <1>2, <1>3, <2>2, VerifiedView
    <2>4. HeldViews(records', x)
      BY <2>3 DEF HeldViews
    <2> HIDE DEF x
    <2>5. CommandsHold
      BY <1>6, <2>2, <2>4
    <2> QED BY <1>8, <1>9, <2>2, <2>5
  <1>24. CASE \E h \in Horizons : RebuildProjection(c, h)
    <2>1. PICK h \in Horizons : RebuildProjection(c, h)
      BY <1>24
    <2> DEFINE x == [at |-> "remove", h |-> h, out |-> NoView, before |-> projections[h]]
    <2>2. /\ projections' = projections /\ rebuilt' = rebuilt /\ Becomes(c, x)
          /\ projections[h] \notin {NoView, Partial}
      BY <2>1 DEF RebuildProjection
    <2>3. IsView(records', projections[h], h)
      BY <1>4, <2>2 DEF ToldViews
    <2>4. HeldViews(records', x)
      BY <2>3 DEF HeldViews
    <2> HIDE DEF x
    <2>5. CommandsHold
      BY <1>6, <2>2, <2>4
    <2> QED BY <1>8, <1>9, <2>2, <2>5
  <1>25. CASE RemoveProjection(c)
    <2>1. /\ rebuilt' = rebuilt /\ Becomes(c, GoneOn(k, "build")) /\ k \in Building /\ k.at = "remove"
          /\ projections' = [projections EXCEPT ![k.h] = NoView]
      BY <1>2, <1>25, KindsOfCommands DEF RemoveProjection, GoneOn
    <2>2. ProjectedViews
      BY <1>2, <1>4, <2>1 DEF ProjectedViews, ToldViews
    <2>3. GoneOn(k, "build").at = "build" /\ GoneOn(k, "build").before = k.before /\ GoneOn(k, "build").h = k.h
      BY <2>1, EmptyLogs, BuildingGoesOn
    <2>4. IsView(records', k.before, k.h)
      BY <1>4, <2>1 DEF HeldViews
    <2>5. HeldViews(records', GoneOn(k, "build"))
      BY <2>3, <2>4 DEF HeldViews
    <2>6. CommandsHold
      BY <1>6, <2>1, <2>5
    <2> QED BY <1>9, <2>1, <2>2, <2>6
  <1>26. CASE BuildAgain(c)
    <2> DEFINE x == GoneOnWith(k, "place", Visible(records, k.h))
    <2>1. /\ projections' = projections /\ rebuilt' = rebuilt /\ k \in Building /\ k.at = "build"
      BY <1>2, <1>26, KindsOfCommands DEF BuildAgain
    <2>2. CASE Becomes(c, Idle)
      BY <1>7, <1>8, <1>9, <2>1, <2>2
    <2>3. CASE Becomes(c, x) /\ StoreVerifies
      <3>1. WellFormed(records) /\ IsView(records, k.before, k.h)
        BY <2>1, <2>3 DEF StoreVerifies, ViewsInv, HeldViews
      <3>2. GoodPair(records', k.before, Visible(records, k.h), k.h)
        BY <1>2, <1>3, <3>1, VerifiedView
      <3>3. Visible(records, k.h) \in SUBSET Entry
        BY <1>2, ViewsShowEntries
      <3>4. x.at = "place" /\ x.h = k.h /\ x.out = Visible(records, k.h) /\ x.before = k.before
        BY <2>1, <3>3, BuildingGoesOn
      <3> HIDE DEF x
      <3>5. HeldViews(records', x)
        BY <3>2, <3>4 DEF HeldViews
      <3>6. CommandsHold
        BY <1>6, <2>3, <3>5
      <3> QED BY <1>8, <1>9, <2>1, <3>6
    <2> QED BY <1>26, <2>2, <2>3 DEF BuildAgain, GoneOnWith
  <1>27. CASE PlaceProjection(c)
    <2> DEFINE x == GoneOn(k, "compare")
    <2>1. rebuilt' = rebuilt /\ k \in Building /\ k.at = "place"
      BY <1>2, <1>27, KindsOfCommands DEF PlaceProjection
    <2>2. \/ projections' = projections
          \/ projections' = [projections EXCEPT ![k.h] = k.out]
      BY <1>27 DEF PlaceProjection
    <2>3. Becomes(c, Idle) \/ (k.before # NoView /\ Becomes(c, x))
      BY <1>27 DEF PlaceProjection, GoneOn
    <2>4. \/ k.before = NoView /\ IsView(records', k.out, k.h)
          \/ GoodPair(records', k.before, k.out, k.h)
      BY <1>4, <2>1 DEF HeldViews
    <2>5. IsView(records', k.out, k.h)
      BY <2>4 DEF GoodPair, IsView
    <2>6. ProjectedViews
      BY <1>2, <1>4, <2>2, <2>5 DEF ProjectedViews, ToldViews
    <2>7. x.at = "compare" /\ x.h = k.h /\ x.out = k.out /\ x.before = k.before
      BY <2>1, EmptyLogs, BuildingGoesOn
    <2> HIDE DEF x
    <2>8. k.before # NoView => HeldViews(records', x)
      BY <2>4, <2>7 DEF HeldViews
    <2>9. CommandsHold
      BY <1>6, <1>7, <2>3, <2>8
    <2> QED BY <1>9, <2>1, <2>6, <2>9
  <1>28. CASE CompareProjections(c)
    <2>1. projections' = projections /\ Becomes(c, Idle) /\ k \in Building /\ k.at = "compare"
      BY <1>2, <1>28, KindsOfCommands DEF CompareProjections
    <2>2. GoodPair(records', k.before, k.out, k.h) /\ k.h \in Horizons
      BY <1>4, <2>1, BuildingHolds DEF HeldViews
    <2>3. CASE rebuilt' = Nothing
      BY <1>7, <1>8, <2>1, <2>3 DEF Compared
    <2>4. CASE /\ projections[k.h] \notin {NoView, Partial}
               /\ rebuilt' = [h |-> k.h, before |-> k.before, built |-> k.out,
                              after |-> projections[k.h]]
      <3>1. IsView(records', projections[k.h], k.h)
        BY <1>4, <2>2, <2>4 DEF ToldViews
      <3>2. Compared(records', rebuilt')
        BY <2>2, <2>4, <3>1 DEF Compared
      <3> QED BY <1>7, <1>8, <2>1, <3>2
    <2> QED BY <1>28, <2>3, <2>4 DEF CompareProjections
  <1>29. ASSUME Abandons(c) PROVE CommandsHold /\ Compared(records', rebuilt')
    <2>1. rebuilt' = rebuilt /\ command' = [command EXCEPT ![c] = Idle]
      BY <1>29 DEF Abandons
    <2>2. HeldViews(records', Idle)
      BY NothingHeld DEF Idle
    <2>3. CommandsHold
      BY <1>2, <1>4, <2>1, <2>2 DEF CommandsHold
    <2> QED BY <1>9, <2>1, <2>3
  <1>30. CASE AbandonStage(c) \/ AbandonAppend(c)
    BY <1>8, <1>29, <1>30 DEF AbandonStage, AbandonAppend
  <1>31. CASE AbandonProjection(c)
    <2>1. \/ projections' = projections
          \/ projections' = [projections EXCEPT ![k.h] = Partial]
      BY <1>31 DEF AbandonProjection
    <2>2. ProjectedViews
      BY <1>2, <1>4, <2>1 DEF ProjectedViews, ToldViews
    <2> QED BY <1>29, <1>31, <2>2 DEF AbandonProjection
  <1> QED BY <1>1, <1>11, <1>12, <1>13, <1>14, <1>16, <1>17, <1>18, <1>19, <1>20, <1>21, <1>22,
             <1>23, <1>24, <1>25, <1>26, <1>27, <1>28, <1>30, <1>31 DEF CaptureStep

\* What a view shows was a record of the log.
LEMMA ShownByAView ==
  ASSUME NEW log \in Seq(Entry), NEW v, NEW h \in Horizons, NEW n, GoodView(log, v, h, n),
         ShowsClosed(v, h)
  PROVE  \E a \in 1..n : log[a].rec.kind = "HorizonClosed" /\ log[a].rec.horizon = h
  <1>1. n \in 1..Len(log) /\ v = Visible(SubSeq(log, 1, n), h)
    BY DEF GoodView
  <1>2. v = {log[i] : i \in {j \in 1..n : IsVisible(log[j].rec, h)}}
    BY <1>1, ViewOfABeginning
  <1>3. PICK r \in v : r.rec = HorizonClosed(h)
    BY DEF ShowsClosed
  <1>4. PICK a \in 1..n : r = log[a]
    BY <1>2
  <1>5. log[a].rec.kind = "HorizonClosed" /\ log[a].rec.horizon = h
    BY <1>3, <1>4 DEF HorizonClosed, Record
  <1> QED BY <1>5

\* Two views that were derived after the horizon was closed are the same.
LEMMA ClosedViewsAgree ==
  ASSUME NEW log \in Seq(Entry), NEW v, NEW w, NEW h \in Horizons, NEW n, NEW m,
         GoodView(log, v, h, n), GoodView(log, w, h, m), n <= m, ShowsClosed(v, h)
  PROVE  v = w
  <1>1. PICK a \in 1..n : log[a].rec.kind = "HorizonClosed" /\ log[a].rec.horizon = h
    BY ShownByAView
  <1>2. n \in 1..Len(log) /\ m \in 1..Len(log)
    BY DEF GoodView
  <1>3. WellFormed(SubSeq(log, 1, m))
    BY DEF GoodView
  <1>4. a \in 1..m /\ n \in a..m
    BY <1>2
  <1>5. Visible(SubSeq(log, 1, n), log[a].rec.horizon) = Visible(SubSeq(log, 1, m), log[a].rec.horizon)
    BY <1>1, <1>2, <1>3, <1>4, RecordsHaveHorizons, ClosedViews
  <1> QED BY <1>1, <1>5 DEF GoodView

\* A rebuild gives the view of a closed horizon that was there.
THEOREM RebuildsReproduce == CaptureSpec => []RebuildReproduces
  <1>1. CaptureInit => CaptureTypes /\ ViewsInv
    <2>1. CaptureInit => CaptureTypes
      BY EmptyLogs DEF CaptureInit, CaptureTypes, AnyCommand, NoView
    <2>2. CaptureInit => ViewsInv
      BY NothingHeld DEF CaptureInit, ViewsInv, Idle, Compared
    <2> QED BY <2>1, <2>2
  <1>2. CaptureTypes /\ ViewsInv /\ [CaptureNext]_captureVars => CaptureTypes' /\ ViewsInv'
    <2>1. CaptureTypes /\ ViewsInv /\ UNCHANGED captureVars => CaptureTypes' /\ ViewsInv'
      BY DEF CaptureTypes, ViewsInv, captureVars
    <2> QED BY <2>1, TypesGoOn, ViewsKept
  <1>3. CaptureTypes /\ ViewsInv => RebuildReproduces
    <2> SUFFICES ASSUME CaptureTypes, ViewsInv, ShowsClosed(rebuilt.before, rebuilt.h)
                 PROVE  /\ rebuilt.built = rebuilt.before
                        /\ ShowsClosed(rebuilt.after, rebuilt.h) => rebuilt.after = rebuilt.before
      BY DEF RebuildReproduces
    <2>1. records \in Seq(Entry)
      BY DEF CaptureTypes
    <2> DEFINE r == rebuilt
    <2>2. GoodPair(records, r.before, r.built, r.h) /\ IsView(records, r.after, r.h)
            /\ r.h \in Horizons
      <3>1. rebuilt # Nothing
        BY DEF ShowsClosed, Nothing, NoView
      <3> QED BY <3>1 DEF ViewsInv, Compared
    <2>3. PICK n, m \in 1..Len(records) :
            n <= m /\ GoodView(records, r.before, r.h, n) /\ GoodView(records, r.built, r.h, m)
      BY <2>2 DEF GoodPair
    <2>4. PICK l \in 1..Len(records) : GoodView(records, r.after, r.h, l)
      BY <2>2 DEF IsView
    <2>5. r.before = r.built
      BY <2>2, <2>1, <2>3, ClosedViewsAgree
    <2>6. ASSUME ShowsClosed(r.after, r.h) PROVE r.after = r.before
      <3>1. CASE n <= l
        <4>1. r.before = r.after
          BY <2>2, <2>1, <2>3, <2>4, <3>1, ClosedViewsAgree
        <4> QED BY <4>1
      <3>2. CASE l <= n
        BY <2>2, <2>1, <2>3, <2>4, <2>6, <3>2, ClosedViewsAgree
      <3> QED BY <3>1, <3>2
    <2> QED BY <2>5, <2>6
  <1> QED BY <1>1, <1>2, <1>3, PTL DEF CaptureSpec

-----------------------------------------------------------------------------
(* The store while nothing happened that can break it.                         *)

\* The snapshots are those that the log names.
Matches(log, files) == \A h \in Horizons : files[h] = SnapshotsOf(log, h)

\* Between commands there is no store, or one that verifies.
AtRest(log, files) ==
  \/ log = << >> /\ \A h \in Horizons : files[h] = {}
  \/ WellFormed(log) /\ Matches(log, files)

\* A command that writes: with its records the log is well formed and names what the
\* snapshots are, once the stage has become that of its horizon.
Prepared(log, files, k) ==
  /\ log # << >> /\ WellFormed(log \o k.out)
  /\ k.at \in {"append", "closing"} => Matches(log \o k.out, files)
  /\ k.at \in {"stage", "rename"} =>
       /\ k.h \in Horizons /\ files[k.h] = {}
       /\ \A x \in Horizons : SnapshotsOf(log \o k.out, x) =
                                IF x = k.h THEN PresentAt[x] ELSE files[x]

Whole ==
  /\ ~torn /\ ~strays
  /\ \A c, d \in CaptureClients : Writes(command[c].at) /\ Writes(command[d].at) => c = d
  /\ (\A c \in CaptureClients : ~Writes(command[c].at)) => AtRest(records, snapshots)
  /\ \A c \in CaptureClients : Writes(command[c].at) => Prepared(records, snapshots, command[c])

CauseInv == causes = {} => Whole

\* A log names what its parts name.
LEMMA NamedByALongerLog ==
  ASSUME NEW log \in Seq(Entry), NEW out \in Seq(Entry), NEW x
  PROVE  SnapshotsOf(log \o out, x) = SnapshotsOf(log, x) \cup SnapshotsOf(out, x)
  <1> DEFINE all == log \o out
             Names(s, j) == s[j].rec.kind = "SourceSnapshot" /\ s[j].rec.horizon = x
             n == Len(log)
             m == Len(out)
  <1>1. /\ n \in Nat /\ m \in Nat /\ DOMAIN all = 1..(n + m) /\ DOMAIN log = 1..n
        /\ DOMAIN out = 1..m
        /\ \A i \in 1..n : all[i] = log[i]
        /\ \A i \in 1..m : all[n + i] = out[i]
    BY LogsGoOn
  <1> DEFINE A == {i \in 1..(n + m) : Names(all, i)}
             L == {i \in 1..n : Names(log, i)}
             O == {i \in 1..m : Names(out, i)}
  <1>2. /\ SnapshotsOf(all, x) = {all[i].rec.body.path : i \in A}
        /\ SnapshotsOf(log, x) = {log[i].rec.body.path : i \in L}
        /\ SnapshotsOf(out, x) = {out[i].rec.body.path : i \in O}
    BY <1>1 DEF SnapshotsOf
  <1> HIDE DEF all, n, m
  <1>3. \A i \in L : i \in A /\ all[i] = log[i]
    BY <1>1
  <1>4. \A i \in O : n + i \in A /\ all[n + i] = out[i]
    BY <1>1
  <1>5. ASSUME NEW i \in A PROVE (i \in L /\ all[i] = log[i]) \/ \E j \in O : all[i] = out[j]
    <2>1. CASE i <= n
      BY <1>1, <2>1
    <2>2. CASE i > n
      <3>1. i - n \in 1..m /\ n + (i - n) = i
        BY <1>1, <2>2
      <3>2. all[i] = out[i - n]
        BY <1>1, <3>1
      <3>3. i - n \in O
        BY <3>1, <3>2
      <3> QED BY <3>2, <3>3
    <2> QED BY <1>1, <2>1, <2>2
  <1> HIDE DEF A, L, O
  <1>6. {all[i].rec.body.path : i \in A} =
          {log[i].rec.body.path : i \in L} \cup {out[i].rec.body.path : i \in O}
    BY <1>3, <1>4, <1>5
  <1> QED BY <1>2, <1>6 DEF all

\* The records of a horizon's sources name the files that are present.
LEMMA NamedBySources ==
  ASSUME NEW h \in Horizons, NEW from \in Nat, NEW x \in Horizons
  PROVE  SnapshotsOf(Numbered(from, SourcesOf(h)), x) = IF x = h THEN PresentAt[x] ELSE {}
  <1> DEFINE rs == SourcesOf(h)
             e == Numbered(from, rs)
             n == Len(rs)
  <1>1. /\ rs \in Seq(AnyRecord) /\ n \in Nat /\ DOMAIN rs = 1..n
        /\ \A i \in 1..n : \E p \in SourcePaths : rs[i] = Source(h, p)
        /\ \A p \in SourcePaths : \E i \in 1..n : rs[i] = Source(h, p)
    BY SourcesOfAHorizon
  <1> HIDE DEF rs
  <1>2. DOMAIN e = 1..n /\ \A i \in 1..n : e[i].rec = rs[i]
    <2>1. /\ e \in Seq(Entry) /\ Len(e) = n
          /\ \A i \in 1..n : e[i] = [seq |-> from + i, rec |-> rs[i]]
      BY <1>1, NumberedRecords
    <2>2. DOMAIN e = 1..n
      BY <2>1
    <2> QED BY <2>1, <2>2
  <1> HIDE DEF e, n
  <1>3. SnapshotsOf(e, x) =
          {rs[i].body.path : i \in {j \in 1..n : rs[j].kind = "SourceSnapshot" /\ rs[j].horizon = x}}
    BY <1>2 DEF SnapshotsOf
  <1>4. \A p \in SourcePaths : /\ Source(h, p).horizon = h /\ Source(h, p).body.path = p
                               /\ (Source(h, p).kind = "SourceSnapshot") = (p \in PresentAt[h])
    BY DEF Source, Record
  <1>5. PresentAt[h] \subseteq SourcePaths
    BY CaptureAssumption DEF Horizons
  <1>6. CASE x = h
    <2>1. ASSUME NEW p \in PresentAt[h] PROVE p \in SnapshotsOf(e, x)
      <3>1. PICK i \in 1..n : rs[i] = Source(h, p)
        BY <1>1, <1>5
      <3>2. rs[i].kind = "SourceSnapshot" /\ rs[i].horizon = x /\ rs[i].body.path = p
        BY <1>4, <1>5, <1>6, <3>1
      <3> QED BY <1>3, <3>2
    <2>2. ASSUME NEW p \in SnapshotsOf(e, x) PROVE p \in PresentAt[h]
      <3>1. PICK i \in 1..n : rs[i].kind = "SourceSnapshot" /\ rs[i].body.path = p
        BY <1>3
      <3>2. PICK q \in SourcePaths : rs[i] = Source(h, q)
        BY <1>1
      <3> QED BY <1>4, <3>1, <3>2
    <2> QED BY <1>6, <2>1, <2>2 DEF e, rs
  <1>7. CASE x # h
    <2>1. \A i \in 1..n : rs[i].horizon # x
      BY <1>1, <1>4, <1>7
    <2>2. SnapshotsOf(e, x) = {}
      BY <1>3, <2>1
    <2> QED BY <1>7, <2>2 DEF e, rs
  <1> QED BY <1>6, <1>7

\* A record of another kind names none.
LEMMA NamedByOneRecord ==
  ASSUME NEW from \in Nat, NEW rec \in AnyRecord, rec.kind # "SourceSnapshot", NEW x
  PROVE  SnapshotsOf(Numbered(from, <<rec>>), x) = {}
  <1> DEFINE e == Numbered(from, <<rec>>)
  <1>1. DOMAIN e = 1..1 /\ e[1].rec = rec
    <2>1. e \in Seq(Entry) /\ Len(e) = 1 /\ e[1] = [seq |-> from + 1, rec |-> rec]
      BY OneRecordNumbered
    <2>2. DOMAIN e = 1..Len(e)
      BY <2>1
    <2> QED BY <2>1, <2>2
  <1> HIDE DEF e
  <1>2. \A j \in DOMAIN e : e[j].rec.kind # "SourceSnapshot"
    <2>1. \A j \in 1..1 : j = 1
      OBVIOUS
    <2> QED BY <1>1, <2>1
  <1>3. SnapshotsOf(e, x) = {}
    BY <1>2 DEF SnapshotsOf
  <1> QED BY <1>3 DEF e

\* The log of a new store.
LEMMA NewLog ==
  /\ WellFormed(Numbered(0, <<CorpusOpened>>))
  /\ \A x : SnapshotsOf(Numbered(0, <<CorpusOpened>>), x) = {}
  <1> DEFINE e == Numbered(0, <<CorpusOpened>>)
  <1>0. CorpusOpened \in AnyRecord /\ 0 \in Nat
    BY RecordsOfCommands
  <1>1. e \in Seq(Entry) /\ Len(e) = 1 /\ e[1] = [seq |-> 1, rec |-> CorpusOpened]
    <2>1. 0 + 1 = 1
      OBVIOUS
    <2> QED BY <1>0, <2>1, OneRecordNumbered
  <1>2. CorpusOpened.kind = "CorpusOpened" /\ CorpusOpened.horizon = 0
    BY DEF CorpusOpened, Record
  <1>3. \A x : SnapshotsOf(e, x) = {}
    BY <1>0, <1>2, NamedByOneRecord
  <1> HIDE DEF e
  <1>4. DOMAIN e = 1..1 /\ e # << >>
    <2>1. Len(<< >>) = 0
      OBVIOUS
    <2>2. DOMAIN e = 1..Len(e)
      BY <1>1
    <2>3. e # << >>
      <3>1. SUFFICES ASSUME e = << >> PROVE FALSE
        OBVIOUS
      <3>2. Len(e) = Len(<< >>)
        BY <3>1
      <3>3. Len(e) = 1
        BY <1>1
      <3> QED BY <2>1, <3>2, <3>3
    <2> QED BY <1>1, <2>2, <2>3
  <1>5. ASSUME NEW i \in 1..1
        PROVE  /\ e[i].seq = i
               /\ (e[i].rec.kind = "CorpusOpened") = (i = 1)
               /\ Earlier(e, i, {"CorpusClosed"}) = {}
               /\ NotReopened(e, i)
               /\ NotClosed(e, i)
               /\ AdmittedBody(e, i)
    <2>1. i = 1 /\ e[i].seq = 1 /\ e[i].rec.kind = "CorpusOpened" /\ e[i].rec.horizon = 0
      BY <1>1, <1>2
    <2>2. Earlier(e, i, {"CorpusClosed"}) = {}
      BY <2>1 DEF Earlier
    <2>3. NotReopened(e, i)
      BY <2>1 DEF NotReopened
    <2>4. NotClosed(e, i)
      BY <2>1 DEF NotClosed
    <2>5. AdmittedBody(e, i)
      BY <2>1 DEF AdmittedBody
    <2> QED BY <2>1, <2>2, <2>3, <2>4, <2>5
  <1>6. WellFormed(e)
    BY <1>4, <1>5 DEF WellFormed
  <1> QED BY <1>3, <1>6 DEF e

\* The three ways in which the commands go on: one that writes and is alone, none that
\* writes, and one that does not write beside the others.
LEMMA WriterAlone ==
  ASSUME CaptureTypes, NEW c \in CaptureClients, NEW x, command' = [command EXCEPT ![c] = x],
         Writes(x.at), \A d \in CaptureClients \ {c} : ~Writes(command[d].at),
         ~torn', ~strays', Prepared(records', snapshots', x)
  PROVE  Whole'
  <1>1. command'[c] = x /\ \A d \in CaptureClients \ {c} : command'[d] = command[d]
    BY DEF CaptureTypes
  <1>2. \A d \in CaptureClients : Writes(command'[d].at) => d = c
    BY <1>1
  <1> QED BY <1>1, <1>2 DEF Whole

LEMMA NoWriter ==
  ASSUME CaptureTypes, NEW c \in CaptureClients, NEW x, command' = [command EXCEPT ![c] = x],
         ~Writes(x.at), \A d \in CaptureClients \ {c} : ~Writes(command[d].at),
         ~torn', ~strays', AtRest(records', snapshots')
  PROVE  Whole'
  <1>1. command'[c] = x /\ \A d \in CaptureClients \ {c} : command'[d] = command[d]
    BY DEF CaptureTypes
  <1>2. \A d \in CaptureClients : ~Writes(command'[d].at)
    BY <1>1
  <1> QED BY <1>2 DEF Whole

LEMMA Bystander ==
  ASSUME CaptureTypes, Whole, NEW c \in CaptureClients, NEW x,
         command' = [command EXCEPT ![c] = x], ~Writes(x.at), ~Writes(command[c].at),
         UNCHANGED <<records, snapshots, torn, strays>>
  PROVE  Whole'
  <1>1. command'[c] = x /\ \A d \in CaptureClients \ {c} : command'[d] = command[d]
    BY DEF CaptureTypes
  <1>2. \A d \in CaptureClients : /\ Writes(command'[d].at) = Writes(command[d].at)
                                  /\ Writes(command'[d].at) => command'[d] = command[d]
    <2> TAKE d \in CaptureClients
    <2>1. CASE d = c
      BY <1>1, <2>1 DEF Writes
    <2>2. CASE d # c
      BY <1>1, <2>2
    <2> QED BY <2>1, <2>2
  <1>3. ~torn' /\ ~strays'
    BY DEF Whole
  <1>4. \A d, e \in CaptureClients : Writes(command'[d].at) /\ Writes(command'[e].at) => d = e
    BY <1>2 DEF Whole
  <1>5. (\A d \in CaptureClients : ~Writes(command'[d].at)) => AtRest(records', snapshots')
    BY <1>2 DEF Whole
  <1>6. \A d \in CaptureClients : Writes(command'[d].at) => Prepared(records', snapshots', command'[d])
    BY <1>2 DEF Whole
  <1> QED BY <1>3, <1>4, <1>5, <1>6 DEF Whole

\* Verified, the store can take records: they are prepared.
LEMMA VerifiedPreparesSources ==
  ASSUME CaptureTypes, StoreVerifies, NEW out \in Seq(Entry), WellFormed(records \o out),
         NEW k, k.out = out, k.at = "stage", NEW h \in Horizons, k.h = h, snapshots[h] = {},
         \A x \in Horizons : SnapshotsOf(out, x) = IF x = h THEN PresentAt[x] ELSE {}
  PROVE  Prepared(records, snapshots, k)
  <1>1. records \in Seq(Entry) /\ records # << >> /\ Matches(records, snapshots)
    BY DEF CaptureTypes, StoreVerifies, WellFormed, Matches
  <1>2. \A x \in Horizons : SnapshotsOf(records \o out, x) = snapshots[x] \cup SnapshotsOf(out, x)
    BY <1>1, NamedByALongerLog DEF Matches
  <1>3. \A x \in Horizons : SnapshotsOf(records \o out, x) = IF x = h THEN PresentAt[x] ELSE snapshots[x]
    <2> TAKE x \in Horizons
    <2>0. SnapshotsOf(records \o out, x) = snapshots[x] \cup SnapshotsOf(out, x)
      BY <1>2
    <2>1. CASE x = h
      <3>1. SnapshotsOf(out, x) = PresentAt[x] /\ snapshots[x] = {}
        BY <2>1
      <3>2. SnapshotsOf(records \o out, x) = PresentAt[x]
        BY <2>0, <3>1
      <3> QED BY <2>1, <3>2
    <2>2. CASE x # h
      <3>1. SnapshotsOf(out, x) = {}
        BY <2>2
      <3>2. SnapshotsOf(records \o out, x) = snapshots[x]
        BY <2>0, <3>1
      <3> QED BY <2>2, <3>2
    <2> QED BY <2>1, <2>2
  <1> QED BY <1>1, <1>3 DEF Prepared

LEMMA VerifiedPreparesOne ==
  ASSUME CaptureTypes, StoreVerifies, NEW out \in Seq(Entry), WellFormed(records \o out),
         NEW k, k.out = out, k.at \in {"append", "closing"},
         \A x \in Horizons : SnapshotsOf(out, x) = {}
  PROVE  Prepared(records, snapshots, k)
  <1>1. records \in Seq(Entry) /\ records # << >> /\ Matches(records, snapshots)
    BY DEF CaptureTypes, StoreVerifies, WellFormed, Matches
  <1>2. \A x \in Horizons : SnapshotsOf(records \o out, x) = snapshots[x] \cup SnapshotsOf(out, x)
    BY <1>1, NamedByALongerLog DEF Matches
  <1>3. Matches(records \o out, snapshots)
    BY <1>2 DEF Matches
  <1> QED BY <1>1, <1>3 DEF Prepared

\* Each step that gives no cause leaves the store whole.
LEMMA CauseKept ==
  ASSUME CaptureTypes, CauseInv, CaptureNext
  PROVE  CauseInv'
  <1>1. SUFFICES ASSUME causes' = {} PROVE Whole'
    BY DEF CauseInv
  <1>2. PICK c \in CaptureClients : CaptureStep(c)
    BY DEF CaptureNext
  <1> DEFINE k == command[c]
             Goes(x) == command' = [command EXCEPT ![c] = x]
             Alone == \A d \in CaptureClients \ {c} : ~Writes(command[d].at)
  <1>3. /\ command \in [CaptureClients -> AnyCommand] /\ k \in AnyCommand
        /\ records \in Seq(Entry) /\ Len(records) \in Nat
        /\ snapshots \in [Horizons -> SUBSET SourcePaths]
    BY DEF CaptureTypes
  <1>4. ~Writes("idle") /\ Idle.at = "idle" /\ ~Writes("corpus")
    BY DEF Writes, Idle
  <1>5. ASSUME NEW x, Becomes(c, x)
        PROVE  Goes(x) /\ causes = {} /\ (Writes(x.at) => Alone)
    BY <1>1, <1>5 DEF Becomes
  <1>6. ASSUME Abandons(c) PROVE Goes(Idle) /\ causes = {} /\ ~Writes(k.at)
    BY <1>1, <1>6 DEF Abandons
  <1>7. ASSUME causes = {} PROVE Whole /\ (Writes(k.at) => Alone)
    BY <1>7 DEF CauseInv, Whole
  <1> HIDE DEF Goes, Alone
  <1>8. CASE InitializeStore(c)
    <2> DEFINE e == Numbered(0, <<CorpusOpened>>)
    <2>1. causes = {} /\ command' = command /\ records' = e /\ UNCHANGED <<torn, snapshots, strays>>
            /\ records = << >>
      BY <1>1, <1>8 DEF InitializeStore, OnlyLog
    <2>2. WellFormed(e) /\ \A x : SnapshotsOf(e, x) = {}
      BY NewLog
    <2> HIDE DEF e
    <2>3. Whole
      BY <1>7, <2>1
    <2>4. \A d \in CaptureClients : ~Writes(command[d].at)
      BY <2>1, <2>3 DEF Whole, Prepared
    <2>5. \A h \in Horizons : snapshots[h] = {}
      BY <2>1, <2>3, <2>4 DEF Whole, AtRest, WellFormed
    <2>6. AtRest(records', snapshots')
      BY <2>1, <2>2, <2>5 DEF AtRest, Matches
    <2>7. ~torn' /\ ~strays'
      BY <2>1, <2>3 DEF Whole
    <2> QED BY <2>1, <2>4, <2>6, <2>7 DEF Whole
  <1>9. CASE AppendSourceHorizon(c)
    <2>1. PICK h \in NextHorizons :
            Becomes(c, [at |-> "stage", h |-> h, out |-> Numbered(Len(records), SourcesOf(h))])
      BY <1>9 DEF AppendSourceHorizon
    <2> DEFINE out == Numbered(Len(records), SourcesOf(h))
               x == [at |-> "stage", h |-> h, out |-> out]
    <2>2. h \in Horizons /\ snapshots[h] = {} /\ WellFormed(records \o out)
      BY DEF NextHorizons, Prepares
    <2>3. out \in Seq(Entry)
      BY <1>3, <2>2, SourcesOfAHorizon, NumberedRecords
    <2>4. \A y \in Horizons : SnapshotsOf(out, y) = IF y = h THEN PresentAt[y] ELSE {}
      BY <1>3, <2>2, NamedBySources
    <2> HIDE DEF out
    <2>5. StoreVerifies
      BY <1>9 DEF AppendSourceHorizon, Status
    <2>6. x.out = out /\ x.at = "stage" /\ x.h = h
      OBVIOUS
    <2>7. Becomes(c, x)
      BY <2>1 DEF out
    <2> HIDE DEF x
    <2>8. Prepared(records, snapshots, x)
      BY <2>2, <2>3, <2>4, <2>5, <2>6, VerifiedPreparesSources
    <2>9. Writes(x.at) /\ UNCHANGED <<records, torn, snapshots, strays>>
      BY <1>9, <2>6 DEF AppendSourceHorizon, OnlyLog, Writes
    <2>10. ~torn /\ ~strays
      BY <2>5 DEF StoreVerifies
    <2>11. command' = [command EXCEPT ![c] = x] /\ \A d \in CaptureClients \ {c} : ~Writes(command[d].at)
      BY <1>5, <2>7, <2>9 DEF Goes, Alone
    <2> QED BY <2>8, <2>9, <2>10, <2>11, WriterAlone
  <1>10. CASE WriteStage(c)
    <2> DEFINE x == GoneOn(k, "rename")
    <2>1. k.at = "stage" /\ k \in Writing /\ Becomes(c, x) /\ UNCHANGED <<records, torn, snapshots, strays>>
      BY <1>3, <1>10, KindsOfCommands DEF WriteStage, OnlyLog, GoneOn
    <2>2. x.at = "rename" /\ x.out = k.out /\ x.h = k.h
      BY <2>1, EmptyLogs, WritingGoesOn
    <2> HIDE DEF x
    <2>3. Writes(x.at) /\ Writes(k.at)
      BY <2>1, <2>2 DEF Writes
    <2>4. Whole
      BY <1>5, <1>7, <2>1
    <2>5. Prepared(records, snapshots, k)
      BY <2>3, <2>4 DEF Whole
    <2>6. Prepared(records', snapshots', x)
      BY <2>1, <2>2, <2>5 DEF Prepared
    <2>7. ~torn' /\ ~strays'
      BY <2>1, <2>4 DEF Whole
    <2>8. command' = [command EXCEPT ![c] = x] /\ \A d \in CaptureClients \ {c} : ~Writes(command[d].at)
      BY <1>5, <2>1, <2>3 DEF Goes, Alone
    <2> QED BY <2>3, <2>6, <2>7, <2>8, WriterAlone
  <1>11. CASE RenameStage(c)
    <2> DEFINE x == GoneOn(k, "append")
    <2>1. k.at = "rename" /\ k \in Writing /\ Writes(k.at) /\ UNCHANGED <<records, torn>>
      BY <1>3, <1>11, KindsOfCommands DEF RenameStage, OnlySnapshots, Writes
    <2>2. causes = {}
      BY <1>5, <1>11 DEF RenameStage
    <2>3. Whole /\ Prepared(records, snapshots, k)
      BY <1>7, <2>1, <2>2 DEF Whole
    <2>4. k.h \in Horizons /\ snapshots[k.h] = {}
      BY <2>1, <2>3 DEF Prepared
    <2>5. snapshots' = [snapshots EXCEPT ![k.h] = PresentAt[k.h]] /\ Becomes(c, x) /\ UNCHANGED strays
      BY <1>11, <2>4 DEF RenameStage, GoneOn
    <2>6. x.at = "append" /\ x.out = k.out
      BY <2>1, EmptyLogs, WritingGoesOn
    <2> HIDE DEF x
    <2>7. \A y \in Horizons : snapshots'[y] = IF y = k.h THEN PresentAt[y] ELSE snapshots[y]
      BY <1>3, <2>5
    <2>8. Matches(records \o k.out, snapshots')
      BY <2>1, <2>3, <2>7 DEF Prepared, Matches
    <2>9. Prepared(records', snapshots', x)
      BY <2>1, <2>3, <2>6, <2>8 DEF Prepared
    <2>10. Writes(x.at) /\ ~torn' /\ ~strays'
      BY <2>1, <2>3, <2>5, <2>6 DEF Writes, Whole
    <2>11. command' = [command EXCEPT ![c] = x] /\ \A d \in CaptureClients \ {c} : ~Writes(command[d].at)
      BY <1>5, <2>5, <2>10 DEF Goes, Alone
    <2> QED BY <2>9, <2>10, <2>11, WriterAlone
  <1>12. ASSUME NEW candidates \in SUBSET AnyRecord, NEW next \in {"append", "closing"},
                \A r \in candidates : r.kind # "SourceSnapshot",
                AppendRecord(c, candidates, next)
         PROVE  Whole'
    <2>1. PICK rec \in {r \in candidates : Prepares(<<r>>)} :
            Becomes(c, [at |-> next, h |-> rec.horizon, out |-> Numbered(Len(records), <<rec>>)])
      BY <1>12 DEF AppendRecord
    <2> DEFINE out == Numbered(Len(records), <<rec>>)
               x == [at |-> next, h |-> rec.horizon, out |-> out]
    <2>2. rec \in AnyRecord /\ rec.kind # "SourceSnapshot" /\ WellFormed(records \o out)
      BY <1>12 DEF Prepares
    <2>3. out \in Seq(Entry)
      BY <1>3, <2>2, OneRecordNumbered
    <2>4. \A y \in Horizons : SnapshotsOf(out, y) = {}
      BY <1>3, <2>2, NamedByOneRecord
    <2> HIDE DEF out
    <2>5. StoreVerifies
      BY <1>12 DEF AppendRecord, Status
    <2>6. x.out = out /\ x.at = next
      OBVIOUS
    <2>7. Becomes(c, x)
      BY <2>1 DEF out
    <2> HIDE DEF x
    <2>8. Prepared(records, snapshots, x)
      BY <2>2, <2>3, <2>4, <2>5, <2>6, VerifiedPreparesOne
    <2>9. Writes(x.at) /\ UNCHANGED <<records, torn, snapshots, strays>>
      BY <1>12, <2>6 DEF AppendRecord, OnlyLog, Writes
    <2>10. ~torn /\ ~strays
      BY <2>5 DEF StoreVerifies
    <2>11. command' = [command EXCEPT ![c] = x] /\ \A d \in CaptureClients \ {c} : ~Writes(command[d].at)
      BY <1>5, <2>7, <2>9 DEF Goes, Alone
    <2> QED BY <2>8, <2>9, <2>10, <2>11, WriterAlone
  <1>13. CASE AppendEvidenceSpan(c) \/ AppendAssertion(c) \/ AppendQuestion(c)
    <2> DEFINE E == {EvidenceSpan(h, p, s) : h \in Horizons, p \in SourcePaths, s \in Spans}
               A == {AssertionRevision(h, r, pred, ev) : h \in Horizons, r \in Revisions,
                       pred \in Revisions \cup {"null"}, ev \in SUBSET Spans}
               Q == {QuestionOpened(h, q, ev) : h \in Horizons, q \in Questions, ev \in SUBSET Spans}
    <2>1. E \in SUBSET AnyRecord /\ A \in SUBSET AnyRecord /\ Q \in SUBSET AnyRecord
      BY RecordsOfCommands
    <2>2. AppendRecord(c, E, "append") \/ AppendRecord(c, A, "append") \/ AppendRecord(c, Q, "append")
      BY <1>13 DEF AppendEvidenceSpan, AppendAssertion, AppendQuestion
    <2>3. \A r \in E : r.kind # "SourceSnapshot"
      BY DEF EvidenceSpan, Record
    <2>4. \A r \in A : r.kind # "SourceSnapshot"
      BY DEF AssertionRevision, Record
    <2>5. \A r \in Q : r.kind # "SourceSnapshot"
      BY DEF QuestionOpened, Record
    <2> HIDE DEF E, A, Q
    <2> QED BY <1>12, <2>1, <2>2, <2>3, <2>4, <2>5
  <1>14. CASE CloseHorizon(c)
    <2> DEFINE Z == {HorizonClosed(h) : h \in Horizons}
    <2>1. Z \in SUBSET AnyRecord
      BY RecordsOfCommands
    <2>2. AppendRecord(c, Z, "append") \/ AppendRecord(c, Z, "closing")
      BY <1>14 DEF CloseHorizon
    <2>3. \A r \in Z : r.kind # "SourceSnapshot"
      BY DEF HorizonClosed, Record
    <2> HIDE DEF Z
    <2> QED BY <1>12, <2>1, <2>2, <2>3
  <1>15. ASSUME NEW x, k.at \in {"append", "closing"}, Becomes(c, x), ~Writes(x.at),
                records' = records \o k.out, UNCHANGED <<torn, snapshots, strays>>
         PROVE  Whole'
    <2>1. Writes(k.at)
      BY <1>15 DEF Writes
    <2>2. Whole /\ Prepared(records, snapshots, k)
      BY <1>5, <1>7, <1>15, <2>1 DEF Whole
    <2>3. AtRest(records', snapshots')
      BY <1>15, <2>2 DEF Prepared, AtRest
    <2>4. ~torn' /\ ~strays'
      BY <1>15, <2>2 DEF Whole
    <2>5. command' = [command EXCEPT ![c] = x] /\ \A d \in CaptureClients \ {c} : ~Writes(command[d].at)
      BY <1>5, <1>7, <1>15, <2>1 DEF Goes, Alone
    <2> QED BY <1>15, <2>3, <2>4, <2>5, NoWriter
  <1>16. CASE AppendPreparedRecords(c)
    <2>1. /\ k.at = "append" /\ Becomes(c, Idle) /\ records' = records \o k.out
          /\ UNCHANGED <<torn, snapshots, strays>>
      BY <1>16 DEF AppendPreparedRecords, OnlyLog
    <2> QED BY <1>4, <1>15, <2>1
  <1>17. CASE AppendHorizonClosed(c)
    <2> DEFINE x == [at |-> "corpus", h |-> k.h, out |-> << >>]
    <2>1. /\ k.at = "closing" /\ Becomes(c, x) /\ records' = records \o k.out
          /\ UNCHANGED <<torn, snapshots, strays>>
      BY <1>17 DEF AppendHorizonClosed, OnlyLog
    <2>2. ~Writes(x.at)
      BY <1>4
    <2> HIDE DEF x
    <2> QED BY <1>15, <2>1, <2>2
  <1>18. ASSUME NEW x, Becomes(c, x), ~Writes(x.at), ~Writes(k.at),
                UNCHANGED <<records, snapshots, torn, strays>>
         PROVE  Whole'
    BY <1>5, <1>7, <1>18, Bystander DEF Goes
  <1>19. CASE CloseCorpus(c)
    <2> DEFINE out == Numbered(Len(records), <<CorpusClosed>>)
               x == GoneOnWith(k, "append", out)
    <2>1. k.at = "corpus" /\ k \in Writing /\ UNCHANGED <<records, snapshots, torn, strays>>
      BY <1>3, <1>19, KindsOfCommands DEF CloseCorpus, OnlyLog
    <2>2. CASE Becomes(c, Idle)
      BY <1>4, <1>18, <2>1, <2>2
    <2>3. CASE StoreVerifies /\ Prepares(<<CorpusClosed>>) /\ Becomes(c, x)
      <3>1. CorpusClosed \in AnyRecord /\ CorpusClosed.kind # "SourceSnapshot"
        BY RecordsOfCommands DEF CorpusClosed, Record
      <3>2. out \in Seq(Entry)
        BY <1>3, <3>1, OneRecordNumbered
      <3>3. \A y \in Horizons : SnapshotsOf(out, y) = {}
        BY <1>3, <3>1, NamedByOneRecord
      <3>4. WellFormed(records \o out)
        BY <2>3 DEF Prepares
      <3> HIDE DEF out
      <3>5. x.at = "append" /\ x.out = out
        BY <2>1, <3>2, WritingGoesOn
      <3> HIDE DEF x
      <3>6. Prepared(records, snapshots, x)
        BY <2>3, <3>2, <3>3, <3>4, <3>5, VerifiedPreparesOne
      <3>7. Writes(x.at)
        BY <3>5 DEF Writes
      <3>8. ~torn /\ ~strays
        BY <2>3 DEF StoreVerifies
      <3>9. command' = [command EXCEPT ![c] = x] /\ \A d \in CaptureClients \ {c} : ~Writes(command[d].at)
        BY <1>5, <2>3, <3>7 DEF Goes, Alone
      <3> QED BY <2>1, <3>6, <3>7, <3>8, <3>9, WriterAlone
    <2> QED BY <1>19, <2>2, <2>3 DEF CloseCorpus, GoneOnWith
  <1>20. CASE \E h \in Horizons : BuildProjection(c, h) \/ RebuildProjection(c, h)
    <2>1. PICK h \in Horizons : BuildProjection(c, h) \/ RebuildProjection(c, h)
      BY <1>20
    <2>2. k = Idle /\ UNCHANGED <<records, snapshots, torn, strays>>
      BY <2>1 DEF BuildProjection, RebuildProjection, Begins, OnlyProjections
    <2>3. \E x : Becomes(c, x) /\ x.at \in {"place", "remove"}
      BY <2>1 DEF BuildProjection, RebuildProjection
    <2>4. \A at \in {"place", "remove"} : ~Writes(at)
      BY DEF Writes
    <2> QED BY <1>4, <1>18, <2>2, <2>3, <2>4
  <1>21. CASE RemoveProjection(c) \/ BuildAgain(c) \/ PlaceProjection(c) \/ CompareProjections(c)
    <2>1. k.at \in {"remove", "build", "place", "compare"} /\ UNCHANGED <<records, snapshots, torn, strays>>
      BY <1>21 DEF RemoveProjection, BuildAgain, PlaceProjection, CompareProjections, OnlyProjections
    <2>2. k \in Building
      BY <1>3, <2>1, KindsOfCommands
    <2>3. \/ Becomes(c, Idle) \/ Becomes(c, GoneOn(k, "build")) \/ Becomes(c, GoneOn(k, "compare"))
          \/ Becomes(c, GoneOnWith(k, "place", Visible(records, k.h)))
      BY <1>21 DEF RemoveProjection, BuildAgain, PlaceProjection, CompareProjections, GoneOn, GoneOnWith
    <2>4. Visible(records, k.h) \in SUBSET Entry
      BY <1>3, ViewsShowEntries
    <2>5. /\ GoneOn(k, "build").at = "build" /\ GoneOn(k, "compare").at = "compare"
          /\ GoneOnWith(k, "place", Visible(records, k.h)).at = "place"
      BY <2>2, <2>4, BuildingGoesOn
    <2>6. ~Writes(k.at) /\ ~Writes("build") /\ ~Writes("compare") /\ ~Writes("place")
      BY <2>1 DEF Writes
    <2> QED BY <1>4, <1>18, <2>1, <2>3, <2>5, <2>6
  <1>22. CASE AbandonStage(c) \/ AbandonAppend(c)
    <2>1. Abandons(c) /\ Writes(k.at)
      BY <1>22 DEF AbandonStage, AbandonAppend, Writes
    <2> QED BY <1>6, <2>1
  <1>23. CASE AbandonProjection(c)
    <2>1. Abandons(c) /\ UNCHANGED <<records, snapshots, torn, strays>>
      BY <1>23 DEF AbandonProjection
    <2>2. Whole /\ command' = [command EXCEPT ![c] = Idle] /\ ~Writes(k.at)
      BY <1>6, <1>7, <2>1 DEF Goes
    <2> QED BY <1>4, <2>1, <2>2, Bystander
  <1> QED BY <1>2, <1>8, <1>9, <1>10, <1>11, <1>13, <1>14, <1>16, <1>17, <1>19, <1>20, <1>21,
             <1>22, <1>23 DEF CaptureStep

-----------------------------------------------------------------------------
(* The store whatever happened, and while only kills happened.                  *)

\* There is a greatest number below a bound.
LEMMA GreatestNumber ==
  ASSUME NEW n \in Nat, NEW T \in SUBSET (0..n), T # {}
  PROVE  \E m \in T : \A k \in T : k <= m
  <1> DEFINE U == {n - t : t \in T}
  <1>1. U \in SUBSET Nat /\ U # {}
    <2>1. \A t \in T : n - t \in Nat
      OBVIOUS
    <2> QED BY <2>1
  <1>2. PICK u \in U : \A v \in U : u <= v
    <2> HIDE DEF U
    <2> QED BY <1>1, LeastNumber
  <1>3. PICK m \in T : u = n - m
    OBVIOUS
  <1>4. \A k \in T : n - m <= n - k
    BY <1>2, <1>3
  <1>5. \A k \in T : k <= m
    BY <1>4
  <1> QED BY <1>5

\* The beginning of a log that replays replays.
LEMMA BeginningReplays ==
  ASSUME NEW S, NEW all \in Seq(S), WellFormed(all),
         NEW log \in Seq(S), log # << >>, Len(log) <= Len(all),
         \A i \in 1..Len(log) : log[i] = all[i]
  PROVE  WellFormed(log)
  <1> DEFINE n == Len(log)
  <1>1. n \in Nat /\ DOMAIN log = 1..n /\ 1..n \subseteq DOMAIN all
    OBVIOUS
  <1>2. \A i \in 1..n : log[i] = all[i]
    OBVIOUS
  <1> HIDE DEF n
  <1>3. SUFFICES ASSUME NEW i \in 1..n
                 PROVE  /\ log[i].seq = i
                        /\ (log[i].rec.kind = "CorpusOpened") = (i = 1)
                        /\ Earlier(log, i, {"CorpusClosed"}) = {}
                        /\ NotReopened(log, i)
                        /\ NotClosed(log, i)
                        /\ AdmittedBody(log, i)
    BY <1>1 DEF WellFormed
  <1>4. /\ all[i].seq = i
        /\ (all[i].rec.kind = "CorpusOpened") = (i = 1)
        /\ Earlier(all, i, {"CorpusClosed"}) = {}
        /\ NotReopened(all, i)
        /\ NotClosed(all, i)
        /\ AdmittedBody(all, i)
    BY <1>1 DEF WellFormed
  <1>5. i \in Nat /\ log[i] = all[i] /\ \A j \in 1..(i - 1) : j \in 1..n /\ log[j] = all[j]
    BY <1>1, <1>2
  <1>6. \A K : /\ Earlier(log, i, K) = Earlier(all, i, K)
               /\ Earlier(log, i, K) \subseteq 1..(i - 1)
    BY <1>5 DEF Earlier
  <1>7. ClosedBefore(log, i) = ClosedBefore(all, i)
    BY <1>5, <1>6 DEF ClosedBefore
  <1>8. CurrentRevision(log, i) = CurrentRevision(all, i)
    <2> DEFINE revs == Earlier(all, i, {"AssertionRevision"})
               last == CHOOSE j \in revs : \A k \in revs : k =< j
    <2>1. CASE revs = {}
      BY <1>6, <2>1 DEF CurrentRevision
    <2>2. CASE revs # {}
      <3>1. i - 1 \in Nat /\ revs \in SUBSET (1..(i - 1)) /\ revs \in SUBSET (0..(i - 1))
        BY <1>5, <1>6
      <3>2. \E j \in revs : \A k \in revs : k =< j
        <4> HIDE DEF revs
        <4> QED BY <2>2, <3>1, GreatestNumber
      <3>3. last \in revs
        BY <3>2
      <3>4. log[last] = all[last]
        BY <1>5, <3>1, <3>3
      <3>5. Earlier(log, i, {"AssertionRevision"}) = revs
        BY <1>6
      <3>6. CurrentRevision(log, i) = IF revs = {} THEN "null" ELSE log[last].rec.body.revision
        <4> DEFINE same == Earlier(log, i, {"AssertionRevision"})
                   latest == CHOOSE j \in same : \A k \in same : k =< j
        <4>1. CurrentRevision(log, i) = IF same = {} THEN "null" ELSE log[latest].rec.body.revision
          BY DEF CurrentRevision
        <4>2. same = revs
          BY <3>5
        <4> HIDE DEF same, revs
        <4>3. latest = last
          BY <4>2
        <4> QED BY <4>1, <4>2, <4>3
      <3>7. CurrentRevision(all, i) = IF revs = {} THEN "null" ELSE all[last].rec.body.revision
        BY DEF CurrentRevision
      <3> HIDE DEF revs, last
      <3> QED BY <3>4, <3>6, <3>7
    <2> QED BY <2>1, <2>2
  <1>9. NotReopened(log, i) /\ NotClosed(log, i)
    BY <1>4, <1>5, <1>7 DEF NotReopened, NotClosed
  <1>10. \A cited : CitesVisible(log, i, cited) = CitesVisible(all, i, cited)
    <2> DEFINE J == Earlier(all, i, {"EvidenceSpan"})
    <2>1. Earlier(log, i, {"EvidenceSpan"}) = J /\ \A j \in J : log[j] = all[j]
      BY <1>5, <1>6
    <2>2. log[i] = all[i]
      BY <1>5
    <2> HIDE DEF J
    <2> QED BY <2>1, <2>2 DEF CitesVisible, J
  <1>11. AdmittedBody(log, i)
    <2> DEFINE kind == all[i].rec.kind
    <2>1. \A K : \A j \in Earlier(log, i, K) : log[j] = all[j]
      BY <1>5, <1>6
    <2>2. CASE kind \in {"SourceSnapshot", "SourceAbsence"}
      <3> DEFINE New(l) == \A j \in Earlier(l, i, {"SourceSnapshot", "SourceAbsence"}) :
                   <<l[j].rec.horizon, l[j].rec.body>> # <<l[i].rec.horizon, l[i].rec.body>>
      <3>1. New(all) /\ (New(log) => AdmittedBody(log, i))
        BY <1>4, <1>5, <2>2 DEF AdmittedBody
      <3>2. New(log)
        BY <1>5, <1>6, <2>1, <3>1
      <3> QED BY <3>1, <3>2
    <2>3. CASE kind = "EvidenceSpan"
      <3> DEFINE New(l) == \A j \in Earlier(l, i, {"EvidenceSpan"}) :
                   l[j].rec.body.span # l[i].rec.body.span
                 Backed(l) == \E j \in Earlier(l, i, {"SourceSnapshot"}) :
                   l[j].rec.horizon = l[i].rec.horizon /\ l[j].rec.body.path = l[i].rec.body.path
      <3>1. New(all) /\ Backed(all) /\ (New(log) /\ Backed(log) => AdmittedBody(log, i))
        BY <1>4, <1>5, <2>3 DEF AdmittedBody
      <3>2. New(log) /\ Backed(log)
        BY <1>5, <1>6, <2>1, <3>1
      <3> QED BY <3>1, <3>2
    <2>4. CASE kind = "AssertionRevision"
      BY <1>4, <1>5, <1>6, <1>8, <1>10, <2>1, <2>4 DEF AdmittedBody
    <2>5. CASE kind = "QuestionOpened"
      BY <1>4, <1>5, <1>6, <1>10, <2>1, <2>5 DEF AdmittedBody
    <2>6. CASE kind = "HorizonClosed"
      BY <1>4, <1>5, <1>6, <1>7, <2>1, <2>6 DEF AdmittedBody
    <2>7. CASE kind = "CorpusClosed"
      BY <1>4, <1>5, <1>7, <2>7 DEF AdmittedBody
    <2>8. CASE kind \notin {"SourceSnapshot", "SourceAbsence", "EvidenceSpan",
                            "AssertionRevision", "QuestionOpened", "HorizonClosed",
                            "CorpusClosed"}
      BY <1>5, <2>8 DEF AdmittedBody
    <2> QED BY <2>2, <2>3, <2>4, <2>5, <2>6, <2>7, <2>8
  <1> QED BY <1>4, <1>5, <1>6, <1>9, <1>11

\* What a beginning of some records names, all of them name.
LEMMA NamedByABeginning ==
  ASSUME NEW out \in Seq(Entry), NEW n \in 0..Len(out), NEW x
  PROVE  SnapshotsOf(SubSeq(out, 1, n), x) \subseteq SnapshotsOf(out, x)
  <1> DEFINE part == SubSeq(out, 1, n)
  <1>1. DOMAIN part = 1..n /\ (\A i \in 1..n : part[i] = out[i]) /\ 1..n \subseteq DOMAIN out
    BY BeginningOfASequence
  <1> HIDE DEF part
  <1>2. SnapshotsOf(part, x) \subseteq SnapshotsOf(out, x)
    BY <1>1 DEF SnapshotsOf
  <1> QED BY <1>2 DEF part

\* The six things a step of client c, which then is at x, may be for the log and the
\* snapshots.
Creates(x) ==
  /\ records = << >> /\ records' = Numbered(0, <<CorpusOpened>>) /\ snapshots' = snapshots
  /\ ~Writes(x.at)

BeginsWriting(x) ==
  /\ StoreVerifies /\ x.out \in Seq(Entry) /\ WellFormed(records \o x.out)
  /\ UNCHANGED <<records, snapshots>>
  /\ \/ /\ x.at = "stage" /\ x.h \in Horizons
        /\ \A y \in Horizons : SnapshotsOf(x.out, y) = IF y = x.h THEN PresentAt[y] ELSE {}
     \/ x.at \in {"append", "closing"} /\ \A y \in Horizons : SnapshotsOf(x.out, y) = {}

HasStaged(k, x) ==
  /\ k.at = "stage" /\ x.at = "rename" /\ x.out = k.out /\ x.h = k.h
  /\ UNCHANGED <<records, snapshots>>

HasRenamed(k, x) ==
  /\ k.at = "rename" /\ x.at = "append" /\ x.out = k.out
  /\ snapshots[k.h] = {} /\ snapshots' = [snapshots EXCEPT ![k.h] = PresentAt[k.h]]
  /\ UNCHANGED records

HasAppended(k, x) ==
  /\ k.at \in {"append", "closing"} /\ k.out \in Seq(Entry) /\ ~Writes(x.at)
  /\ \E n \in 0..Len(k.out) : records' = records \o SubSeq(k.out, 1, n)
  /\ UNCHANGED snapshots

LooksOnly(x) == ~Writes(x.at) /\ UNCHANGED <<records, snapshots>>

OthersWrite(c) == \E d \in CaptureClients \ {c} : Writes(command[d].at)

Steps(c, x) ==
  /\ command' = [command EXCEPT ![c] = x]
  /\ "overlap" \in causes => "overlap" \in causes'
  /\ Writes(x.at) /\ OthersWrite(c) => "overlap" \in causes'
  /\ \/ Creates(x)
     \/ BeginsWriting(x)
     \/ HasStaged(command[c], x)
     \/ HasRenamed(command[c], x)
     \/ HasAppended(command[c], x)
     \/ LooksOnly(x)

LEMMA EveryStep ==
  ASSUME CaptureTypes, NEW c \in CaptureClients, CaptureStep(c)
  PROVE  \E x : Steps(c, x)
  <1> DEFINE k == command[c]
  <1>1. /\ command \in [CaptureClients -> AnyCommand] /\ k \in AnyCommand
        /\ records \in Seq(Entry) /\ Len(records) \in Nat
    BY DEF CaptureTypes
  <1>2. ~Writes("idle") /\ Idle.at = "idle" /\ ~Writes("corpus")
    BY DEF Writes, Idle
  <1>3. ASSUME NEW x, Becomes(c, x)
        PROVE  /\ command' = [command EXCEPT ![c] = x]
               /\ "overlap" \in causes => "overlap" \in causes'
               /\ Writes(x.at) /\ OthersWrite(c) => "overlap" \in causes'
    BY <1>3 DEF Becomes, OthersWrite
  <1>4. ASSUME Abandons(c)
        PROVE  /\ command' = [command EXCEPT ![c] = Idle]
               /\ "overlap" \in causes => "overlap" \in causes'
    BY <1>4 DEF Abandons
  <1>5. CASE InitializeStore(c)
    <2>1. command' = [command EXCEPT ![c] = Idle] /\ causes' = causes /\ Creates(Idle)
      BY <1>1, <1>2, <1>5 DEF InitializeStore, OnlyLog, Creates
    <2>2. Steps(c, Idle)
      BY <1>2, <2>1 DEF Steps
    <2> QED BY <2>2
  <1>6. CASE AppendSourceHorizon(c)
    <2>1. PICK h \in NextHorizons :
            Becomes(c, [at |-> "stage", h |-> h, out |-> Numbered(Len(records), SourcesOf(h))])
      BY <1>6 DEF AppendSourceHorizon
    <2> DEFINE out == Numbered(Len(records), SourcesOf(h))
               x == [at |-> "stage", h |-> h, out |-> out]
    <2>2. h \in Horizons /\ WellFormed(records \o out)
      BY DEF NextHorizons, Prepares
    <2>3. out \in Seq(Entry)
      BY <1>1, <2>2, SourcesOfAHorizon, NumberedRecords
    <2>4. \A y \in Horizons : SnapshotsOf(out, y) = IF y = h THEN PresentAt[y] ELSE {}
      BY <1>1, <2>2, NamedBySources
    <2>5. StoreVerifies /\ UNCHANGED <<records, snapshots>>
      BY <1>6 DEF AppendSourceHorizon, Status, OnlyLog
    <2> HIDE DEF out
    <2>6. x.out = out /\ x.at = "stage" /\ x.h = h
      OBVIOUS
    <2>7. Becomes(c, x)
      BY <2>1 DEF out
    <2> HIDE DEF x
    <2>8. BeginsWriting(x)
      BY <2>2, <2>3, <2>4, <2>5, <2>6 DEF BeginsWriting
    <2> QED BY <1>3, <2>7, <2>8 DEF Steps
  <1>7. CASE WriteStage(c)
    <2> DEFINE x == GoneOn(k, "rename")
    <2>1. k.at = "stage" /\ k \in Writing /\ Becomes(c, x) /\ UNCHANGED <<records, snapshots>>
      BY <1>1, <1>7, KindsOfCommands DEF WriteStage, OnlyLog, GoneOn
    <2>2. x.at = "rename" /\ x.out = k.out /\ x.h = k.h
      BY <2>1, EmptyLogs, WritingGoesOn
    <2> HIDE DEF x
    <2>3. HasStaged(k, x)
      BY <2>1, <2>2 DEF HasStaged
    <2> QED BY <1>3, <2>1, <2>3 DEF Steps
  <1>8. CASE RenameStage(c)
    <2> DEFINE x == GoneOn(k, "append")
    <2>1. k.at = "rename" /\ k \in Writing /\ UNCHANGED records
      BY <1>1, <1>8, KindsOfCommands DEF RenameStage, OnlySnapshots
    <2>2. CASE snapshots[k.h] = {}
      <3>1. snapshots' = [snapshots EXCEPT ![k.h] = PresentAt[k.h]] /\ Becomes(c, x)
        BY <1>8, <2>2 DEF RenameStage, GoneOn
      <3>2. x.at = "append" /\ x.out = k.out
        BY <2>1, EmptyLogs, WritingGoesOn
      <3> HIDE DEF x
      <3>3. HasRenamed(k, x)
        BY <2>1, <2>2, <3>1, <3>2 DEF HasRenamed
      <3> QED BY <1>3, <3>1, <3>3 DEF Steps
    <2>3. CASE snapshots[k.h] # {}
      <3>1. Becomes(c, Idle) /\ UNCHANGED snapshots
        BY <1>8, <2>3 DEF RenameStage
      <3>2. LooksOnly(Idle)
        BY <1>2, <2>1, <3>1 DEF LooksOnly
      <3> QED BY <1>3, <3>1, <3>2 DEF Steps
    <2> QED BY <2>2, <2>3
  <1>9. ASSUME NEW candidates \in SUBSET AnyRecord, NEW next \in {"append", "closing"},
               \A r \in candidates : r.kind # "SourceSnapshot",
               AppendRecord(c, candidates, next)
        PROVE  \E x : Steps(c, x)
    <2>1. PICK rec \in {r \in candidates : Prepares(<<r>>)} :
            Becomes(c, [at |-> next, h |-> rec.horizon, out |-> Numbered(Len(records), <<rec>>)])
      BY <1>9 DEF AppendRecord
    <2> DEFINE out == Numbered(Len(records), <<rec>>)
               x == [at |-> next, h |-> rec.horizon, out |-> out]
    <2>2. rec \in AnyRecord /\ rec.kind # "SourceSnapshot" /\ WellFormed(records \o out)
      BY <1>9 DEF Prepares
    <2>3. out \in Seq(Entry)
      BY <1>1, <2>2, OneRecordNumbered
    <2>4. \A y \in Horizons : SnapshotsOf(out, y) = {}
      BY <1>1, <2>2, NamedByOneRecord
    <2>5. StoreVerifies /\ UNCHANGED <<records, snapshots>>
      BY <1>9 DEF AppendRecord, Status, OnlyLog
    <2> HIDE DEF out
    <2>6. x.out = out /\ x.at = next
      OBVIOUS
    <2>7. Becomes(c, x)
      BY <2>1 DEF out
    <2> HIDE DEF x
    <2>8. BeginsWriting(x)
      BY <2>2, <2>3, <2>4, <2>5, <2>6 DEF BeginsWriting
    <2> QED BY <1>3, <2>7, <2>8 DEF Steps
  <1>10. CASE AppendEvidenceSpan(c) \/ AppendAssertion(c) \/ AppendQuestion(c)
    <2> DEFINE E == {EvidenceSpan(h, p, s) : h \in Horizons, p \in SourcePaths, s \in Spans}
               A == {AssertionRevision(h, r, pred, ev) : h \in Horizons, r \in Revisions,
                       pred \in Revisions \cup {"null"}, ev \in SUBSET Spans}
               Q == {QuestionOpened(h, q, ev) : h \in Horizons, q \in Questions, ev \in SUBSET Spans}
    <2>1. E \in SUBSET AnyRecord /\ A \in SUBSET AnyRecord /\ Q \in SUBSET AnyRecord
      BY RecordsOfCommands
    <2>2. AppendRecord(c, E, "append") \/ AppendRecord(c, A, "append") \/ AppendRecord(c, Q, "append")
      BY <1>10 DEF AppendEvidenceSpan, AppendAssertion, AppendQuestion
    <2>3. /\ \A r \in E : r.kind # "SourceSnapshot"
          /\ \A r \in A : r.kind # "SourceSnapshot"
          /\ \A r \in Q : r.kind # "SourceSnapshot"
      BY DEF EvidenceSpan, AssertionRevision, QuestionOpened, Record
    <2> HIDE DEF E, A, Q
    <2> QED BY <1>9, <2>1, <2>2, <2>3
  <1>11. CASE CloseHorizon(c)
    <2> DEFINE Z == {HorizonClosed(h) : h \in Horizons}
    <2>1. Z \in SUBSET AnyRecord
      BY RecordsOfCommands
    <2>2. AppendRecord(c, Z, "append") \/ AppendRecord(c, Z, "closing")
      BY <1>11 DEF CloseHorizon
    <2>3. \A r \in Z : r.kind # "SourceSnapshot"
      BY DEF HorizonClosed, Record
    <2> HIDE DEF Z
    <2> QED BY <1>9, <2>1, <2>2, <2>3
  <1>12. ASSUME k.at \in {"append", "closing"}, NEW n \in 0..Len(k.out),
                records' = records \o SubSeq(k.out, 1, n), UNCHANGED snapshots,
                NEW x, ~Writes(x.at)
         PROVE  HasAppended(k, x)
    <2>1. k.out \in Seq(Entry)
      BY <1>1, <1>12, KindsOfCommands, WritingHolds
    <2> QED BY <1>12, <2>1 DEF HasAppended
  <1>13. CASE AppendPreparedRecords(c) \/ AppendHorizonClosed(c)
    <2> DEFINE y == [at |-> "corpus", h |-> k.h, out |-> << >>]
    <2>1. /\ k.at \in {"append", "closing"} /\ records' = records \o k.out /\ UNCHANGED snapshots
          /\ Becomes(c, Idle) \/ Becomes(c, y)
      BY <1>13 DEF AppendPreparedRecords, AppendHorizonClosed, OnlyLog
    <2>2. k.out \in Seq(Entry)
      BY <1>1, <2>1, KindsOfCommands, WritingHolds
    <2>3. Len(k.out) \in 0..Len(k.out) /\ SubSeq(k.out, 1, Len(k.out)) = k.out
      BY <2>2
    <2>4. ~Writes(y.at)
      BY <1>2
    <2> HIDE DEF y
    <2>5. HasAppended(k, Idle) /\ HasAppended(k, y)
      BY <1>2, <1>12, <2>1, <2>3, <2>4
    <2> QED BY <1>3, <2>1, <2>5 DEF Steps
  <1>14. CASE CloseCorpus(c)
    <2> DEFINE out == Numbered(Len(records), <<CorpusClosed>>)
               x == GoneOnWith(k, "append", out)
    <2>1. k.at = "corpus" /\ k \in Writing /\ UNCHANGED <<records, snapshots>>
      BY <1>1, <1>14, KindsOfCommands DEF CloseCorpus, OnlyLog
    <2>2. CASE Becomes(c, Idle)
      <3>1. LooksOnly(Idle)
        BY <1>2, <2>1 DEF LooksOnly
      <3> QED BY <1>3, <2>2, <3>1 DEF Steps
    <2>3. CASE StoreVerifies /\ Prepares(<<CorpusClosed>>) /\ Becomes(c, x)
      <3>1. CorpusClosed \in AnyRecord /\ CorpusClosed.kind # "SourceSnapshot"
        BY RecordsOfCommands DEF CorpusClosed, Record
      <3>2. out \in Seq(Entry)
        BY <1>1, <3>1, OneRecordNumbered
      <3>3. \A y \in Horizons : SnapshotsOf(out, y) = {}
        BY <1>1, <3>1, NamedByOneRecord
      <3>4. WellFormed(records \o out)
        BY <2>3 DEF Prepares
      <3> HIDE DEF out
      <3>5. x.at = "append" /\ x.out = out
        BY <2>1, <3>2, WritingGoesOn
      <3> HIDE DEF x
      <3>6. BeginsWriting(x)
        BY <2>1, <2>3, <3>2, <3>3, <3>4, <3>5 DEF BeginsWriting
      <3> QED BY <1>3, <2>3, <3>6 DEF Steps
    <2> QED BY <1>14, <2>2, <2>3 DEF CloseCorpus, GoneOnWith
  <1>15. CASE \E h \in Horizons : BuildProjection(c, h) \/ RebuildProjection(c, h)
    <2>1. PICK h \in Horizons : BuildProjection(c, h) \/ RebuildProjection(c, h)
      BY <1>15
    <2>2. UNCHANGED <<records, snapshots>>
      BY <2>1 DEF BuildProjection, RebuildProjection, OnlyProjections
    <2>3. PICK x : Becomes(c, x) /\ x.at \in {"place", "remove"}
      BY <2>1 DEF BuildProjection, RebuildProjection
    <2>4. LooksOnly(x)
      BY <2>2, <2>3 DEF LooksOnly, Writes
    <2> QED BY <1>3, <2>3, <2>4 DEF Steps
  <1>16. CASE RemoveProjection(c) \/ BuildAgain(c) \/ PlaceProjection(c) \/ CompareProjections(c)
    <2>1. k.at \in {"remove", "build", "place", "compare"} /\ UNCHANGED <<records, snapshots>>
      BY <1>16 DEF RemoveProjection, BuildAgain, PlaceProjection, CompareProjections, OnlyProjections
    <2>2. k \in Building
      BY <1>1, <2>1, KindsOfCommands
    <2>3. \/ Becomes(c, Idle) \/ Becomes(c, GoneOn(k, "build")) \/ Becomes(c, GoneOn(k, "compare"))
          \/ Becomes(c, GoneOnWith(k, "place", Visible(records, k.h)))
      BY <1>16 DEF RemoveProjection, BuildAgain, PlaceProjection, CompareProjections, GoneOn, GoneOnWith
    <2>4. Visible(records, k.h) \in SUBSET Entry
      BY <1>1, ViewsShowEntries
    <2>5. /\ GoneOn(k, "build").at = "build" /\ GoneOn(k, "compare").at = "compare"
          /\ GoneOnWith(k, "place", Visible(records, k.h)).at = "place"
      BY <2>2, <2>4, BuildingGoesOn
    <2>6. ~Writes("build") /\ ~Writes("compare") /\ ~Writes("place")
      BY DEF Writes
    <2>7. PICK x : Becomes(c, x) /\ ~Writes(x.at)
      BY <1>2, <2>3, <2>5, <2>6
    <2>8. LooksOnly(x)
      BY <2>1, <2>7 DEF LooksOnly
    <2> QED BY <1>3, <2>7, <2>8 DEF Steps
  <1>17. CASE AbandonStage(c) \/ AbandonProjection(c)
    <2>1. Abandons(c) /\ LooksOnly(Idle)
      BY <1>2, <1>17 DEF AbandonStage, AbandonProjection, LooksOnly
    <2> QED BY <1>2, <1>4, <2>1 DEF Steps
  <1>18. CASE AbandonAppend(c)
    <2>1. /\ k.at \in {"append", "closing"} /\ Abandons(c) /\ UNCHANGED snapshots
          /\ \E n \in 0..Len(k.out) : records' = records \o SubSeq(k.out, 1, n)
      BY <1>18 DEF AbandonAppend
    <2>2. HasAppended(k, Idle)
      BY <1>2, <1>12, <2>1
    <2> QED BY <1>2, <1>4, <2>1, <2>2 DEF Steps
  <1> QED BY <1>5, <1>6, <1>7, <1>8, <1>10, <1>11, <1>13, <1>14, <1>15, <1>16, <1>17, <1>18
          DEF CaptureStep

\* The snapshots a command's records name are there, or are those it is about to place.
Backed(k, files) ==
  /\ k.at \in {"append", "closing"} =>
       k.out \in Seq(Entry) /\ \A y \in Horizons : SnapshotsOf(k.out, y) \subseteq files[y]
  /\ k.at \in {"stage", "rename"} =>
       /\ k.out \in Seq(Entry) /\ k.h \in Horizons
       /\ \A y \in Horizons :
            SnapshotsOf(k.out, y) \subseteq IF y = k.h THEN PresentAt[y] ELSE {}

NamedInv ==
  /\ \A y \in Horizons : SnapshotsOf(records, y) \subseteq snapshots[y]
  /\ \A c \in CaptureClients : Backed(command[c], snapshots)

\* While no two commands wrote at once, the records replay, alone and with those that the
\* one command that writes is about to append.
Replays ==
  /\ \A c, d \in CaptureClients : Writes(command[c].at) /\ Writes(command[d].at) => c = d
  /\ records = << >> \/ WellFormed(records)
  /\ \A c \in CaptureClients : Writes(command[c].at) =>
       records # << >> /\ command[c].out \in Seq(Entry) /\ WellFormed(records \o command[c].out)

ReplayInv == "overlap" \notin causes => Replays

\* What is there stays there, so what was backed stays backed.
LEMMA BackedByMore ==
  ASSUME NEW k, NEW files, NEW more, Backed(k, files),
         \A y \in Horizons : files[y] \subseteq more[y]
  PROVE  Backed(k, more)
  BY DEF Backed

\* No step makes a record name a snapshot that is not there.
LEMMA NamedKept ==
  ASSUME CaptureTypes, NamedInv, NEW c \in CaptureClients, NEW x, Steps(c, x)
  PROVE  NamedInv'
  <1> DEFINE k == command[c]
  <1>1. /\ command \in [CaptureClients -> AnyCommand] /\ records \in Seq(Entry)
        /\ snapshots \in [Horizons -> SUBSET SourcePaths] /\ Backed(k, snapshots)
        /\ \A y \in Horizons : SnapshotsOf(records, y) \subseteq snapshots[y]
    BY DEF CaptureTypes, NamedInv
  <1>2. command' = [command EXCEPT ![c] = x]
    BY DEF Steps
  <1>3. ~Writes(x.at) => \A files : Backed(x, files)
    BY DEF Backed, Writes
  <1>4. SUFFICES /\ \A y \in Horizons : SnapshotsOf(records', y) \subseteq snapshots'[y]
                 /\ \A y \in Horizons : snapshots[y] \subseteq snapshots'[y]
                 /\ Backed(x, snapshots')
    <2> SUFFICES ASSUME NEW d \in CaptureClients PROVE Backed(command'[d], snapshots')
      BY <1>4 DEF NamedInv, Backed
    <2>1. CASE d = c
      BY <1>1, <1>2, <1>4, <2>1
    <2>2. CASE d # c
      <3>1. command'[d] = command[d] /\ Backed(command[d], snapshots)
        BY <1>1, <1>2, <2>2 DEF NamedInv
      <3>2. Backed(command[d], snapshots')
        BY <1>4, <3>1, BackedByMore
      <3> QED BY <3>1, <3>2
    <2> QED BY <2>1, <2>2
  <1>5. CASE Creates(x)
    <2>1. \A y \in Horizons : SnapshotsOf(records', y) = {}
      BY <1>5, NewLog DEF Creates
    <2> QED BY <1>3, <1>5, <2>1 DEF Creates
  <1>6. CASE BeginsWriting(x)
    BY <1>1, <1>6 DEF BeginsWriting, Backed
  <1>7. CASE HasStaged(k, x)
    BY <1>1, <1>7 DEF HasStaged, Backed
  <1>8. CASE HasRenamed(k, x)
    <2>1. /\ k.h \in Horizons /\ k.out \in Seq(Entry) /\ x.at = "append" /\ x.out = k.out
          /\ \A y \in Horizons : SnapshotsOf(k.out, y) \subseteq IF y = k.h THEN PresentAt[y] ELSE {}
      BY <1>1, <1>8 DEF HasRenamed, Backed
    <2>2. \A y \in Horizons : snapshots'[y] = IF y = k.h THEN PresentAt[y] ELSE snapshots[y]
      BY <1>1, <1>8, <2>1 DEF HasRenamed
    <2>3. \A y \in Horizons : snapshots[y] \subseteq snapshots'[y]
      BY <1>8, <2>2 DEF HasRenamed
    <2>4. Backed(x, snapshots')
      <3>1. \A y \in Horizons : SnapshotsOf(x.out, y) \subseteq snapshots'[y]
        BY <2>1, <2>2
      <3> QED BY <2>1, <3>1 DEF Backed
    <2>5. records' = records
      BY <1>8 DEF HasRenamed
    <2> QED BY <1>1, <2>3, <2>4, <2>5
  <1>9. CASE HasAppended(k, x)
    <2>1. /\ k.out \in Seq(Entry) /\ snapshots' = snapshots /\ ~Writes(x.at)
          /\ \A y \in Horizons : SnapshotsOf(k.out, y) \subseteq snapshots[y]
      BY <1>1, <1>9 DEF HasAppended, Backed
    <2>2. PICK n \in 0..Len(k.out) : records' = records \o SubSeq(k.out, 1, n)
      BY <1>9 DEF HasAppended
    <2> DEFINE part == SubSeq(k.out, 1, n)
    <2>3. part \in Seq(Entry) /\ \A y : SnapshotsOf(part, y) \subseteq SnapshotsOf(k.out, y)
      BY <2>1, BeginningOfASequence, NamedByABeginning
    <2> HIDE DEF part
    <2>4. \A y : SnapshotsOf(records \o part, y) = SnapshotsOf(records, y) \cup SnapshotsOf(part, y)
      BY <1>1, <2>3, NamedByALongerLog
    <2>5. \A y \in Horizons : SnapshotsOf(records \o part, y) \subseteq snapshots[y]
      BY <1>1, <2>1, <2>3, <2>4
    <2>6. records' = records \o part
      BY <2>2 DEF part
    <2> QED BY <1>3, <2>1, <2>5, <2>6
  <1>10. CASE LooksOnly(x)
    BY <1>1, <1>3, <1>10 DEF LooksOnly
  <1> QED BY <1>5, <1>6, <1>7, <1>8, <1>9, <1>10 DEF Steps

\* A log that replays with what is appended to it replays with a part of it.
LEMMA PartOfAnAppend ==
  ASSUME NEW log \in Seq(Entry), log # << >>, NEW out \in Seq(Entry), WellFormed(log \o out),
         NEW n \in 0..Len(out)
  PROVE  WellFormed(log \o SubSeq(out, 1, n))
  <1> DEFINE part == SubSeq(out, 1, n)
             some == log \o part
             all == log \o out
  <1>1. part \in Seq(Entry) /\ Len(part) = n /\ \A i \in 1..n : part[i] = out[i]
    BY BeginningOfASequence
  <1> HIDE DEF part
  <1>2. /\ all \in Seq(Entry) /\ Len(all) = Len(log) + Len(out)
        /\ \A i \in 1..Len(log) : all[i] = log[i]
        /\ \A i \in 1..Len(out) : all[Len(log) + i] = out[i]
    BY LogsGoOn
  <1>3. /\ some \in Seq(Entry) /\ Len(some) = Len(log) + n
        /\ \A i \in 1..Len(log) : some[i] = log[i]
        /\ \A i \in 1..n : some[Len(log) + i] = part[i]
    <2>1. part \in Seq(Entry) /\ Len(part) = n
      BY <1>1
    <2>2. \A p \in Seq(Entry) :
            /\ log \o p \in Seq(Entry) /\ Len(log \o p) = Len(log) + Len(p)
            /\ \A i \in 1..Len(log) : (log \o p)[i] = log[i]
            /\ \A i \in 1..Len(p) : (log \o p)[Len(log) + i] = p[i]
      BY LogsGoOn
    <2> QED BY <2>1, <2>2
  <1>4. Len(log) \in Nat \ {0} /\ Len(out) \in Nat /\ n \in 0..Len(out)
    OBVIOUS
  <1>5. WellFormed(all)
    OBVIOUS
  <1> HIDE DEF some, all
  <1>6. \A i \in 1..Len(some) : some[i] = all[i]
    <2> TAKE i \in 1..Len(some)
    <2>1. CASE i <= Len(log)
      BY <1>2, <1>3, <1>4, <2>1
    <2>2. CASE i > Len(log)
      <3>1. i - Len(log) \in 1..n /\ i - Len(log) \in 1..Len(out) /\ Len(log) + (i - Len(log)) = i
        BY <1>3, <1>4, <2>2
      <3> QED BY <1>1, <1>2, <1>3, <3>1
    <2> QED BY <1>3, <1>4, <2>1, <2>2
  <1>7. some # << >> /\ Len(some) <= Len(all)
    BY <1>2, <1>3, <1>4
  <1>8. WellFormed(some)
    BY <1>2, <1>3, <1>5, <1>6, <1>7, BeginningReplays
  <1> QED BY <1>8 DEF some, part

\* No step makes the records of a store fail to replay, unless two commands wrote at once.
LEMMA ReplayKept ==
  ASSUME CaptureTypes, ReplayInv, NEW c \in CaptureClients, NEW x, Steps(c, x)
  PROVE  ReplayInv'
  <1> DEFINE k == command[c]
  <1>1. SUFFICES ASSUME "overlap" \notin causes' PROVE Replays'
    BY DEF ReplayInv
  <1>2. Replays /\ (Writes(x.at) => \A d \in CaptureClients : d # c => ~Writes(command[d].at))
    BY <1>1 DEF Steps, ReplayInv, OthersWrite
  <1>3. /\ records \in Seq(Entry)
        /\ \A d \in CaptureClients : command'[d] = IF d = c THEN x ELSE command[d]
    BY DEF CaptureTypes, Steps
  <1>4. ASSUME Writes(x.at) =>
                 records' # << >> /\ x.out \in Seq(Entry) /\ WellFormed(records' \o x.out),
               records' = << >> \/ WellFormed(records'),
               \A d \in CaptureClients : d # c /\ Writes(command[d].at) => records' = records
        PROVE  Replays'
    <2>1. \A d, e \in CaptureClients : Writes(command'[d].at) /\ Writes(command'[e].at) => d = e
      BY <1>2, <1>3 DEF Replays
    <2>2. \A d \in CaptureClients : Writes(command'[d].at) =>
            /\ records' # << >> /\ command'[d].out \in Seq(Entry)
            /\ WellFormed(records' \o command'[d].out)
      BY <1>2, <1>3, <1>4 DEF Replays
    <2> QED BY <1>4, <2>1, <2>2 DEF Replays, Writes
  <1>5. CASE Creates(x)
    <2>1. \A d \in CaptureClients : ~Writes(command[d].at)
      BY <1>2, <1>5 DEF Creates, Replays
    <2>2. WellFormed(records') /\ ~Writes(x.at)
      BY <1>5, NewLog DEF Creates
    <2> QED BY <1>4, <2>1, <2>2
  <1>6. CASE BeginsWriting(x)
    <2>1. /\ WellFormed(records) /\ records # << >> /\ records' = records
          /\ x.out \in Seq(Entry) /\ WellFormed(records \o x.out)
      BY <1>6 DEF BeginsWriting, StoreVerifies, WellFormed
    <2> QED BY <1>4, <2>1
  <1>7. CASE HasStaged(k, x) \/ HasRenamed(k, x)
    <2>1. Writes(k.at) /\ x.out = k.out /\ records' = records
      BY <1>7 DEF HasStaged, HasRenamed, Writes
    <2>2. records # << >> /\ k.out \in Seq(Entry) /\ WellFormed(records \o k.out)
      BY <1>2, <2>1 DEF Replays
    <2> QED BY <1>2, <1>4, <2>1, <2>2 DEF Replays
  <1>8. CASE HasAppended(k, x)
    <2>1. Writes(k.at) /\ ~Writes(x.at)
      BY <1>8 DEF HasAppended, Writes
    <2>2. records # << >> /\ k.out \in Seq(Entry) /\ WellFormed(records \o k.out)
      BY <1>2, <2>1 DEF Replays
    <2>3. \A d \in CaptureClients : d # c => ~Writes(command[d].at)
      BY <1>2, <2>1 DEF Replays
    <2>4. PICK n \in 0..Len(k.out) : records' = records \o SubSeq(k.out, 1, n)
      BY <1>8 DEF HasAppended
    <2>5. WellFormed(records \o SubSeq(k.out, 1, n))
      <3> HIDE DEF k
      <3> QED BY <1>3, <2>2, <2>4, PartOfAnAppend
    <2>6. WellFormed(records')
      BY <2>4, <2>5
    <2> QED BY <1>4, <2>1, <2>3, <2>6
  <1>9. CASE LooksOnly(x)
    <2>1. records' = records /\ ~Writes(x.at)
      BY <1>9 DEF LooksOnly
    <2>2. records' = << >> \/ WellFormed(records')
      BY <1>2, <2>1 DEF Replays
    <2> QED BY <1>4, <2>1, <2>2
  <1> QED BY <1>5, <1>6, <1>7, <1>8, <1>9 DEF Steps

\* Whatever clients do at once and wherever they are killed: every snapshot that a record
\* names is there; without two commands that write at once the records replay; and without
\* these and without a kill a store at rest verifies.
THEOREM DamageStaysConfined == CaptureSpec => []DamageIsConfined
  <1> DEFINE Inv == CaptureTypes /\ CauseInv /\ NamedInv /\ ReplayInv
  <1>1. CaptureInit => Inv
    <2> SUFFICES ASSUME CaptureInit PROVE Inv
      OBVIOUS
    <2>1. CaptureTypes
      BY EmptyLogs DEF CaptureInit, CaptureTypes, AnyCommand, NoView
    <2>2. CauseInv
      BY DEF CaptureInit, CauseInv, Whole, AtRest, Idle, Writes
    <2>3. NamedInv
      BY DEF CaptureInit, NamedInv, Backed, SnapshotsOf, Idle
    <2>4. ReplayInv
      BY DEF CaptureInit, ReplayInv, Replays, Idle, Writes
    <2> QED BY <2>1, <2>2, <2>3, <2>4
  <1>2. Inv /\ [CaptureNext]_captureVars => Inv'
    <2>1. Inv /\ UNCHANGED captureVars => Inv'
      BY DEF CaptureTypes, CauseInv, Whole, NamedInv, ReplayInv, Replays, captureVars
    <2>2. ASSUME Inv, NEW c \in CaptureClients, CaptureStep(c)
          PROVE  NamedInv' /\ ReplayInv'
      BY <2>2, EveryStep, NamedKept, ReplayKept
    <2> QED BY <2>1, <2>2, TypesGoOn, CauseKept DEF CaptureNext
  <1>3. Inv => DamageIsConfined
    <2> SUFFICES ASSUME Inv PROVE DamageIsConfined
      OBVIOUS
    <2>1. \A h \in Horizons : SnapshotsOf(records, h) \subseteq snapshots[h]
      BY DEF NamedInv
    <2>2. "overlap" \notin causes => records = << >> \/ WellFormed(records)
      BY DEF ReplayInv, Replays
    <2>3. ASSUME records # << >>, causes = {}, \A c \in CaptureClients : ~Writes(command[c].at)
          PROVE  StoreVerifies
      <3>1. Whole
        BY <2>3 DEF CauseInv
      <3>2. WellFormed(records) /\ Matches(records, snapshots)
        BY <2>3, <3>1 DEF Whole, AtRest
      <3>3. \A c \in CaptureClients : command[c].at # "rename"
        BY <2>3 DEF Writes
      <3> QED BY <3>1, <3>2, <3>3 DEF StoreVerifies, Whole, Matches
    <2> QED BY <2>1, <2>2, <2>3 DEF DamageIsConfined
  <1> QED BY <1>1, <1>2, <1>3, PTL DEF CaptureSpec

=============================================================================
