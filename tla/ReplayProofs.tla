---------------------------- MODULE ReplayProofs -----------------------------
(* Replay for packs of any length and any number of crashes, kills and edits.

   The argument.  A history is accepted by what its commits say of each other, so it is
   told by its last commit alone (ChainedIsTheOnlyChain), and the vault is always the chain
   of an anchored head, or of that head and the one bundle that is being published.  The
   invariant follows the worker step by step between the two (VaultInv), and the controller
   through its cases: what it has been told, what it has counted and which crash it has
   asked for (DirectInv, ControllerInv).  The last section shows every step to be one of
   the anchored log (AnchoredLog) or to leave it as it is.                              *)
EXTENDS Replay, SequenceTheorems, FiniteSetTheorems, TLAPS

-----------------------------------------------------------------------------
(* Chains of commits.                                                          *)

\* What a vault can be asked to publish, and what it holds.
Bundle ==
  [run : {RunOf(a, v) : a \in 1..4, v \in 1..(MaxEdits + 1)},
   order : 1..(PackLength + DirectOrders), source : Sources]
Commit == [bundle : Bundle, previous : Seq(Bundle), head : Seq(Bundle)]

\* The beginnings of a sequence, whose heads are these.
LEMMA Beginning ==
  ASSUME NEW S, NEW b \in Seq(S), NEW n \in 0..Len(b)
  PROVE  /\ SubSeq(b, 1, n) \in Seq(S) /\ Len(SubSeq(b, 1, n)) = n
         /\ \A i \in 1..n : SubSeq(b, 1, n)[i] = b[i]
  <1>1. \A i \in 1..n : b[i] \in S
    OBVIOUS
  <1>2. /\ SubSeq(b, 1, n) \in Seq(S)
        /\ Len(SubSeq(b, 1, n)) = IF 1 <= n THEN n - 1 + 1 ELSE 0
        /\ \A i \in 1..(n - 1 + 1) : SubSeq(b, 1, n)[i] = b[1 + i - 1]
    BY <1>1, SubSeqProperties
  <1> QED BY <1>2

LEMMA WholeBeginning ==
  ASSUME NEW S, NEW b \in Seq(S)
  PROVE  SubSeq(b, 1, Len(b)) = b
  <1>1. /\ SubSeq(b, 1, Len(b)) \in Seq(S) /\ Len(SubSeq(b, 1, Len(b))) = Len(b)
        /\ \A i \in 1..Len(b) : SubSeq(b, 1, Len(b))[i] = b[i]
    BY Beginning
  <1> QED BY <1>1, SeqEqual

LEMMA BeginningAndNext ==
  ASSUME NEW S, NEW b \in Seq(S), NEW i \in 1..Len(b)
  PROVE  Append(SubSeq(b, 1, i - 1), b[i]) = SubSeq(b, 1, i)
  <1>1. /\ SubSeq(b, 1, i - 1) \in Seq(S) /\ Len(SubSeq(b, 1, i - 1)) = i - 1
        /\ \A j \in 1..(i - 1) : SubSeq(b, 1, i - 1)[j] = b[j]
    BY Beginning
  <1>2. /\ SubSeq(b, 1, i) \in Seq(S) /\ Len(SubSeq(b, 1, i)) = i
        /\ \A j \in 1..i : SubSeq(b, 1, i)[j] = b[j]
    BY Beginning
  <1> DEFINE longer == Append(SubSeq(b, 1, i - 1), b[i])
  <1>3. /\ longer \in Seq(S) /\ Len(longer) = i
        /\ \A j \in 1..i : longer[j] = b[j]
    BY <1>1
  <1> HIDE DEF longer
  <1>4. longer = SubSeq(b, 1, i)
    BY <1>2, <1>3, SeqEqual
  <1> QED BY <1>4 DEF longer

LEMMA BeginningOfAppended ==
  ASSUME NEW S, NEW b \in Seq(S), NEW e \in S, NEW n \in 0..Len(b)
  PROVE  SubSeq(Append(b, e), 1, n) = SubSeq(b, 1, n)
  <1> DEFINE longer == Append(b, e)
  <1>1. longer \in Seq(S) /\ Len(longer) = Len(b) + 1 /\ \A i \in 1..Len(b) : longer[i] = b[i]
    OBVIOUS
  <1> HIDE DEF longer
  <1>2. /\ SubSeq(longer, 1, n) \in Seq(S) /\ Len(SubSeq(longer, 1, n)) = n
        /\ \A i \in 1..n : SubSeq(longer, 1, n)[i] = longer[i]
    BY <1>1, Beginning
  <1>3. /\ SubSeq(b, 1, n) \in Seq(S) /\ Len(SubSeq(b, 1, n)) = n
        /\ \A i \in 1..n : SubSeq(b, 1, n)[i] = b[i]
    BY Beginning
  <1>4. SubSeq(longer, 1, n) = SubSeq(b, 1, n)
    BY <1>1, <1>2, <1>3, SeqEqual
  <1> QED BY <1>4 DEF longer

LEMMA BundlesOfCommits ==
  ASSUME NEW c \in Seq(Commit)
  PROVE  /\ BundlesOf(c) \in Seq(Bundle) /\ Len(BundlesOf(c)) = Len(c)
         /\ \A i \in 1..Len(c) : BundlesOf(c)[i] = c[i].bundle /\ c[i].bundle \in Bundle
  <1>1. \A i \in 1..Len(c) : c[i] \in Commit
    OBVIOUS
  <1>2. \A i \in 1..Len(c) : c[i].bundle \in Bundle
    BY <1>1 DEF Commit
  <1> HIDE DEF Bundle
  <1> QED BY <1>2 DEF BundlesOf

\* An honest chain: every head is the beginning it ends.
LEMMA ChainedIsAChain ==
  ASSUME NEW b \in Seq(Bundle)
  PROVE  /\ Chained(b) \in Seq(Commit) /\ Len(Chained(b)) = Len(b)
         /\ \A i \in 1..Len(b) : /\ Chained(b)[i].bundle = b[i]
                                 /\ Chained(b)[i].previous = SubSeq(b, 1, i - 1)
                                 /\ Chained(b)[i].head = SubSeq(b, 1, i)
         /\ BundlesOf(Chained(b)) = b
  <1>1. \A i \in 1..Len(b) :
          /\ SubSeq(b, 1, i - 1) \in Seq(Bundle)
          /\ Append(SubSeq(b, 1, i - 1), b[i]) = SubSeq(b, 1, i)
          /\ SubSeq(b, 1, i) \in Seq(Bundle)
          /\ b[i] \in Bundle
    <2> SUFFICES ASSUME NEW i \in 1..Len(b)
                 PROVE  /\ SubSeq(b, 1, i - 1) \in Seq(Bundle)
                        /\ Append(SubSeq(b, 1, i - 1), b[i]) = SubSeq(b, 1, i)
                        /\ SubSeq(b, 1, i) \in Seq(Bundle)
                        /\ b[i] \in Bundle
      OBVIOUS
    <2>1. i - 1 \in 0..Len(b) /\ i \in 0..Len(b) /\ b[i] \in Bundle
      OBVIOUS
    <2>2. SubSeq(b, 1, i - 1) \in Seq(Bundle)
      BY <2>1, Beginning
    <2>3. SubSeq(b, 1, i) \in Seq(Bundle)
      BY <2>1, Beginning
    <2>4. Append(SubSeq(b, 1, i - 1), b[i]) = SubSeq(b, 1, i)
      BY BeginningAndNext
    <2> QED BY <2>1, <2>2, <2>3, <2>4
  <1>2. \A i \in 1..Len(b) :
          /\ Checkpoint(b[i], SubSeq(b, 1, i - 1)) \in Commit
          /\ Checkpoint(b[i], SubSeq(b, 1, i - 1)).bundle = b[i]
          /\ Checkpoint(b[i], SubSeq(b, 1, i - 1)).previous = SubSeq(b, 1, i - 1)
          /\ Checkpoint(b[i], SubSeq(b, 1, i - 1)).head = SubSeq(b, 1, i)
    BY <1>1 DEF Checkpoint, Commit
  <1>3. /\ Chained(b) \in Seq(Commit) /\ Len(Chained(b)) = Len(b)
        /\ \A i \in 1..Len(b) : Chained(b)[i] = Checkpoint(b[i], SubSeq(b, 1, i - 1))
    BY <1>2 DEF Chained
  <1>4. \A i \in 1..Len(b) : Chained(b)[i].bundle = b[i]
    BY <1>2, <1>3
  <1>5. /\ BundlesOf(Chained(b)) \in Seq(Bundle) /\ Len(BundlesOf(Chained(b))) = Len(b)
        /\ \A i \in 1..Len(b) : BundlesOf(Chained(b))[i] = b[i]
    BY <1>3, <1>4, BundlesOfCommits
  <1>6. BundlesOf(Chained(b)) = b
    BY <1>5, SeqEqual
  <1> QED BY <1>2, <1>3, <1>6

LEMMA ChainedIsTheOnlyChain ==
  ASSUME NEW b \in Seq(Bundle), NEW c \in Seq(Commit), Len(c) = Len(b),
         \A i \in 1..Len(b) : c[i] = Checkpoint(b[i], SubSeq(b, 1, i - 1))
  PROVE  c = Chained(b)
  <1>1. /\ Chained(b) \in Seq(Commit) /\ Len(Chained(b)) = Len(b)
    BY ChainedIsAChain
  <1>2. \A i \in 1..Len(b) : Chained(b)[i] = Checkpoint(b[i], SubSeq(b, 1, i - 1))
    BY DEF Chained
  <1> QED BY <1>1, <1>2, SeqEqual

LEMMA ChainedGrows ==
  ASSUME NEW b \in Seq(Bundle), NEW e \in Bundle
  PROVE  Append(Chained(b), Checkpoint(e, b)) = Chained(Append(b, e))
  <1> DEFINE l == Append(b, e)
             c == Append(Chained(b), Checkpoint(e, b))
  <1>1. /\ l \in Seq(Bundle) /\ Len(l) = Len(b) + 1 /\ l[Len(b) + 1] = e
        /\ \A i \in 1..Len(b) : l[i] = b[i]
    OBVIOUS
  <1>2. Checkpoint(e, b) \in Commit
    BY DEF Checkpoint, Commit
  <1>3. /\ c \in Seq(Commit) /\ Len(c) = Len(b) + 1 /\ c[Len(b) + 1] = Checkpoint(e, b)
        /\ \A i \in 1..Len(b) : c[i] = Chained(b)[i]
    BY <1>2, ChainedIsAChain
  <1>4. \A i \in 1..Len(b) : Chained(b)[i] = Checkpoint(b[i], SubSeq(b, 1, i - 1))
    BY DEF Chained
  <1>5. SubSeq(l, 1, Len(b)) = b /\ \A i \in 1..Len(b) : SubSeq(l, 1, i - 1) = SubSeq(b, 1, i - 1)
    BY BeginningOfAppended, WholeBeginning
  <1> HIDE DEF l, c
  <1>6. \A i \in 1..Len(l) : c[i] = Checkpoint(l[i], SubSeq(l, 1, i - 1))
    <2> SUFFICES ASSUME NEW i \in 1..Len(l) PROVE c[i] = Checkpoint(l[i], SubSeq(l, 1, i - 1))
      OBVIOUS
    <2>1. CASE i \in 1..Len(b)
      BY <2>1, <1>1, <1>3, <1>4, <1>5
    <2>2. CASE i = Len(b) + 1
      <3>1. i - 1 = Len(b)
        BY <2>2
      <3> QED BY <3>1, <2>2, <1>1, <1>3, <1>5
    <2> QED BY <2>1, <2>2, <1>1
  <1>7. c = Chained(l)
    BY <1>1, <1>3, <1>6, ChainedIsTheOnlyChain
  <1> QED BY <1>7 DEF c, l

\* The head a chain should select is the sequence of its bundles; what the loop over the
\* commits looks at, besides the digests, are their places and their run.
LEMMA HeadOfAChain ==
  ASSUME NEW b \in Seq(Bundle)
  PROVE  /\ TerminalHead(Chained(b)) = b
         /\ b # <<>> => Last(Chained(b)).previous = SubSeq(b, 1, Len(b) - 1)
         /\ b # <<>> => Last(Chained(b)).bundle = b[Len(b)]
         /\ Chained(b) = <<>> <=> b = <<>>
  <1>1. /\ Chained(b) \in Seq(Commit) /\ Len(Chained(b)) = Len(b)
        /\ \A i \in 1..Len(b) : /\ Chained(b)[i].bundle = b[i]
                                /\ Chained(b)[i].previous = SubSeq(b, 1, i - 1)
                                /\ Chained(b)[i].head = SubSeq(b, 1, i)
    BY ChainedIsAChain
  <1>2. Chained(b) = <<>> <=> b = <<>>
    BY <1>1
  <1>3. CASE b = <<>>
    BY <1>2, <1>3 DEF TerminalHead, NoHead
  <1>4. CASE b # <<>>
    <2>1. Len(b) \in 1..Len(b) /\ Chained(b) # <<>>
      BY <1>4, <1>2
    <2>2. Last(Chained(b)) = Chained(b)[Len(b)]
      BY <1>1 DEF Last
    <2> QED BY <2>1, <2>2, <1>1, <1>2, WholeBeginning DEF TerminalHead
  <1> QED BY <1>3, <1>4

LEMMA HeadsOfAChain ==
  ASSUME NEW b \in Seq(Bundle), NEW i \in 1..Len(b)
  PROVE  /\ Chained(b)[i].previous = TerminalHead(SubSeq(Chained(b), 1, i - 1))
         /\ Chained(b)[i].head = Append(Chained(b)[i].previous, Chained(b)[i].bundle)
  <1>1. /\ Chained(b) \in Seq(Commit) /\ Len(Chained(b)) = Len(b)
        /\ \A j \in 1..Len(b) : /\ Chained(b)[j].bundle = b[j]
                                /\ Chained(b)[j].previous = SubSeq(b, 1, j - 1)
                                /\ Chained(b)[j].head = SubSeq(b, 1, j)
    BY ChainedIsAChain
  <1>2. /\ SubSeq(Chained(b), 1, i - 1) \in Seq(Commit)
        /\ Len(SubSeq(Chained(b), 1, i - 1)) = i - 1
        /\ \A j \in 1..(i - 1) : SubSeq(Chained(b), 1, i - 1)[j] = Chained(b)[j]
    BY <1>1, Beginning
  <1>3. TerminalHead(SubSeq(Chained(b), 1, i - 1)) = SubSeq(b, 1, i - 1)
    <2>1. CASE i = 1
      <3>1. SubSeq(Chained(b), 1, i - 1) = <<>>
        BY <1>2, <2>1, EmptySeq
      <3>2. SubSeq(b, 1, i - 1) = <<>>
        BY <2>1, Beginning, EmptySeq
      <3> QED BY <3>1, <3>2 DEF TerminalHead, NoHead
    <2>2. CASE i # 1
      <3>1. SubSeq(Chained(b), 1, i - 1) # <<>> /\ i - 1 \in 1..Len(b)
        <4>1. Len(SubSeq(Chained(b), 1, i - 1)) # 0 /\ i - 1 \in 1..Len(b)
          BY <1>2, <2>2
        <4> QED BY <4>1, <1>2, EmptySeq
      <3> QED BY <3>1, <1>1, <1>2 DEF TerminalHead, Last
    <2> QED BY <2>1, <2>2
  <1> QED BY <1>1, <1>3, BeginningAndNext

LEMMA ChainOfOneRunHolds ==
  ASSUME NEW b \in Seq(Bundle), \A i \in 1..Len(b) : b[i].order = i /\ b[i].run = b[1].run
  PROVE  ChainHolds(Chained(b))
  <1> DEFINE c == Chained(b)
  <1>1. Len(c) = Len(b) /\ \A i \in 1..Len(b) : c[i].bundle = b[i]
    BY ChainedIsAChain
  <1>2. \A i \in 1..Len(b) : /\ c[i].previous = TerminalHead(SubSeq(c, 1, i - 1))
                             /\ c[i].head = Append(c[i].previous, c[i].bundle)
    BY HeadsOfAChain
  <1> HIDE DEF c
  <1> SUFFICES ASSUME NEW i \in 1..Len(c)
               PROVE  /\ c[i].bundle.order = i /\ c[i].bundle.run = c[1].bundle.run
                      /\ c[i].previous = TerminalHead(SubSeq(c, 1, i - 1))
                      /\ c[i].head = Append(c[i].previous, c[i].bundle)
    BY Zenon DEF ChainHolds, c
  <1>3. i \in 1..Len(b) /\ 1 \in 1..Len(b)
    BY <1>1
  <1>4. c[i].bundle = b[i] /\ c[1].bundle = b[1]
    BY <1>1, <1>3
  <1> QED BY <1>2, <1>3, <1>4, Zenon

-----------------------------------------------------------------------------
(* The projection.                                                             *)

\* What the delta of step k has to be.
RightDelta(c, k, delta) ==
  /\ delta.changed = Candidates[c[k].bundle.source]
  /\ delta.added = Candidates[c[k].bundle.source]
                     \ UNION {Candidates[c[j].bundle.source] : j \in 1..(k - 1)}
  /\ delta.removed = {}

\* The delta between the dossiers of two consecutive steps is the right one.
LEMMA DeltaOfAStep ==
  ASSUME NEW c, NEW n \in Nat \ {0}
  PROVE  RightDelta(c, n, DeltaBetween(IF n = 1 THEN NoDossier ELSE DossierFor(c, n - 1),
                                       DossierFor(c, n)))
  <1> DEFINE own(k) == Candidates[c[k].bundle.source]
             earlier == UNION {own(j) : j \in 1..(n - 1)}
             prior == IF n = 1 THEN NoDossier ELSE DossierFor(c, n - 1)
             after == DossierFor(c, n)
  <1>1. DOMAIN prior.passages = earlier
    <2>1. CASE n = 1
      <3>1. 1..(n - 1) = {}
        BY <2>1
      <3>2. earlier = {}
        BY <3>1
      <3> QED BY <2>1, <3>2 DEF NoDossier
    <2>2. CASE n # 1
      BY <2>2 DEF DossierFor
    <2> QED BY <2>1, <2>2
  <1>2. /\ DOMAIN after.passages = earlier \cup own(n)
        /\ \A id \in earlier \cup own(n) : after.passages[id] = Occurrences(c, id, n)
    <2>1. UNION {own(k) : k \in 1..n} = earlier \cup own(n)
      <3>1. 1..n = (1..(n - 1)) \cup {n}
        OBVIOUS
      <3> QED BY <3>1
    <2> QED BY <2>1 DEF DossierFor
  <1>3. \A id \in earlier : prior.passages[id] = Occurrences(c, id, n - 1)
    <2>1. CASE n = 1
      <3>1. 1..(n - 1) = {}
        BY <2>1
      <3>2. earlier = {}
        BY <3>1
      <3> QED BY <3>2
    <2>2. CASE n # 1
      BY <2>2 DEF DossierFor
    <2> QED BY <2>1, <2>2
  <1>4. ASSUME NEW id
        PROVE  /\ IsFiniteSet(Occurrences(c, id, n - 1))
               /\ n \notin Occurrences(c, id, n - 1)
               /\ Occurrences(c, id, n) = IF id \in own(n) THEN Occurrences(c, id, n - 1) \cup {n}
                                          ELSE Occurrences(c, id, n - 1)
    <2>1. Occurrences(c, id, n - 1) \subseteq 1..(n - 1) /\ IsFiniteSet(1..(n - 1))
      BY FS_Interval DEF Occurrences
    <2>2. n \notin 1..(n - 1) /\ 1..n = (1..(n - 1)) \cup {n}
      OBVIOUS
    <2>3. IsFiniteSet(Occurrences(c, id, n - 1))
      BY <2>1, FS_Subset
    <2> QED BY <2>1, <2>2, <2>3 DEF Occurrences
  <1>5. ASSUME NEW id \in earlier
        PROVE  Cardinality(prior.passages[id]) # Cardinality(after.passages[id]) <=> id \in own(n)
    <2> DEFINE was == Occurrences(c, id, n - 1)
    <2>1. prior.passages[id] = was /\ after.passages[id] = Occurrences(c, id, n)
      BY <1>2, <1>3
    <2>2. /\ IsFiniteSet(was) /\ n \notin was
          /\ Occurrences(c, id, n) = IF id \in own(n) THEN was \cup {n} ELSE was
      BY <1>4
    <2>3. Cardinality(was) \in Nat /\ Cardinality(was \cup {n}) = Cardinality(was) + 1
      BY <2>2, FS_CardinalityType, FS_AddElement
    <2>4. CASE id \in own(n)
      <3>1. Cardinality(Occurrences(c, id, n)) = Cardinality(was) + 1
        BY <2>2, <2>3, <2>4
      <3> QED BY <3>1, <2>1, <2>3, <2>4
    <2>5. CASE id \notin own(n)
      BY <2>1, <2>2, <2>5
    <2> QED BY <2>4, <2>5
  <1> DEFINE delta == DeltaBetween(prior, after)
  <1>6. /\ delta.added = own(n) \ earlier
        /\ delta.removed = {}
        /\ delta.changed = {id \in earlier \cup own(n) :
                              \/ id \notin earlier
                              \/ Cardinality(prior.passages[id])
                                   # Cardinality(after.passages[id])}
    <2> HIDE DEF prior, after, earlier, own
    <2> QED BY <1>1, <1>2 DEF DeltaBetween
  <1>7. delta.changed = own(n)
    <2> HIDE DEF prior, after, earlier, own, delta
    <2> QED BY <1>5, <1>6
  <1> QED
    <2> HIDE DEF delta
    <2>1. RightDelta(c, n, delta)
      BY <1>6, <1>7 DEF RightDelta
    <2> QED BY <2>1 DEF delta
-----------------------------------------------------------------------------
(* The invariant.

   One half is about the vault and the worker, in whatever hands: as long as nobody
   rewrote history the commits are an honest chain, whose selector is exact or one commit
   behind, and where the worker stands says which.  The other half is about the
   controller: what it anchored is the reveal bundles in their order, and history that
   was rewritten differs from the anchors until the controller, which looks at them after
   every worker, gives up.                                                      *)
WorkerPcs == {"idle", "load", "clear", "stage", "staged", "publish", "tidy", "die", "select",
              "confirm", "wipe", "project", "reply", "exited", "failed", "killed"}
ControllerPcs == {"begin", "stage", "identify", "start", "probing", "reveal", "crashing",
                  "ingesting", "redelivering", "rebuild", "rebuilding", "attempted", "report",
                  "passed", "failed"}
Preparing == worker.pc \in {"clear", "stage", "staged", "publish"}

VaultTypeOK ==
  /\ commits \in Seq(Commit)
  /\ selector \in Seq(Bundle)
  /\ worker \in [pc : WorkerPcs, action : {"none", "probe", "ingest", "rebuild"},
                 bundle : Bundle \cup {NoBundle}, fault : Faults, previous : Seq(Bundle),
                 outcome : {worker.outcome}, killedBy : {"none", "timer", "operator", "fault"},
                 reply : {worker.reply}]
  /\ projection = [asOf |-> projection.asOf, deltas |-> projection.deltas,
                   current |-> projection.current, complete |-> projection.complete]
  /\ \E S : projection.asOf \in Seq(S) /\ projection.deltas \in Seq(S)

\* What holds of the vault and the worker although history is rewritten.
Shape ==
  /\ \A i \in 1..Len(commits) :
       /\ commits[i].head = Append(commits[i].previous, commits[i].bundle)
       /\ Len(commits[i].previous) = i - 1
       /\ commits[i].bundle.order = i
  /\ Len(selector) <= Len(commits)
  /\ Preparing => /\ worker.bundle.order = Len(commits) + 1
                  /\ Len(worker.previous) = Len(commits)
  /\ worker.pc \in {"tidy", "select"} => Len(worker.previous) + 1 = Len(commits)
  /\ worker.action = "none" => worker.pc = "idle"
  /\ worker.action = "probe" => worker.pc \in {"reply", "exited", "killed"}
  /\ worker.action = "rebuild" =>
       worker.pc \in {"wipe", "project", "reply", "exited", "failed", "killed"}
  /\ worker.action = "ingest" => worker.bundle \in Bundle

ExactHead == selector = BundlesOf(commits)
LaggingHead == /\ commits # <<>>
               /\ selector = SubSeq(BundlesOf(commits), 1, Len(commits) - 1)
OfOneRun == \A i \in 1..Len(commits) : commits[i].bundle.run = commits[1].bundle.run
Published == /\ worker.bundle.order \in 1..Len(commits)
             /\ commits[worker.bundle.order].bundle = worker.bundle

\* The projection holds the first n steps, and they are right.
Projected(p, n) ==
  /\ Len(p.asOf) = n /\ Len(p.deltas) = n
  /\ \A k \in 1..n : RightDelta(commits, k, p.deltas[k])

\* What holds of an answer that is given or about to be given.
RightAnswer(p) == p.complete /\ Projected(p, Len(commits)) /\ ExactHead

Whole ==
  /\ commits = Chained(BundlesOf(commits))
  /\ OfOneRun
  /\ ExactHead \/ LaggingHead
  /\ Preparing => /\ ExactHead /\ worker.previous = selector
                  /\ commits # <<>> => commits[1].bundle.run = worker.bundle.run
  /\ worker.pc \in {"tidy", "select"} =>
       selector = worker.previous /\ BundlesOf(commits) = Append(selector, worker.bundle)
  /\ worker.pc = "confirm" => /\ ExactHead /\ commits # <<>>
                              /\ Last(commits).bundle = worker.bundle
  /\ (worker.action = "ingest" /\ worker.pc \in {"wipe", "project", "reply", "exited"}) =>
       Published
  /\ worker.pc = "project" =>
       /\ ExactHead /\ Projected(projection, Len(projection.asOf))
       /\ Len(projection.asOf) <= Len(commits)
  /\ worker.action # "probe" =>
       /\ worker.pc = "reply" =>
            RightAnswer(projection) /\ projection.current = selector
       /\ worker.pc = "exited" =>
            RightAnswer(worker.reply.projection) /\ worker.reply.head = selector

VaultInv == VaultTypeOK /\ Shape /\ (rewrites = 0 => Whole)

\* The controller's own variables.
ControllerTypeOK ==
  /\ driver \in {"controller", "direct"}
  /\ pc \in ControllerPcs \cup {"absent"}
  /\ attempt \in 1..4
  /\ step \in 1..(PackLength + 1)
  /\ anchors \in Seq(Seq(Bundle))
  /\ code \in 1..(MaxEdits + 1)
  /\ staged \in Nat
  /\ identity \in 0..(MaxEdits + 1)
  /\ timedOut \in BOOLEAN
  /\ cancelled \in BOOLEAN
  /\ rewrites \in Nat

DirectInv == driver = "direct" => pc = "absent" /\ rewrites = 0

\* Where the controller is, and what is anchored and in the vault by then.
Place ==
  /\ pc # "absent"
  /\ WorkerRuns => Waiting
  /\ pc \in {"begin", "stage", "identify", "start", "probing"} =>
       step = 1 /\ anchors = <<>> /\ commits = <<>> /\ selector = NoHead
  /\ pc \in {"start", "probing", "reveal", "crashing", "ingesting", "redelivering"} =>
       step <= PackLength
  /\ pc \in {"start", "probing", "reveal", "crashing", "ingesting", "redelivering", "rebuild",
             "rebuilding"} => identity # 0
  /\ pc \in {"reveal", "crashing", "ingesting"} => Len(anchors) = step - 1
  /\ pc = "redelivering" => Len(anchors) = step
  /\ pc \in {"rebuild", "rebuilding", "attempted"} => Len(anchors) = PackLength
  /\ pc \in {"reveal", "redelivering", "rebuild", "rebuilding", "attempted"} =>
       Len(commits) = Len(anchors)
  /\ pc \in {"crashing", "ingesting"} => Len(commits) \in {step - 1, step}
  /\ pc = "probing" => worker.action = "probe"
  /\ pc = "rebuilding" => worker.action = "rebuild"
  /\ pc \in {"crashing", "ingesting", "redelivering"} =>
       worker.action = "ingest" /\ worker.bundle = RevealBundle(step)
  /\ pc = "attempted" => rewrites = 0 /\ ExactHead

\* What is anchored, and what is in the vault unless it was rewritten.
Honest ==
  /\ \A i \in 1..Len(anchors) : anchors[i] = [k \in 1..i |-> RevealBundle(k)]
  /\ rewrites = 0 => \A i \in 1..Len(commits) : commits[i].bundle = RevealBundle(i)
  /\ rewrites > 0 =>
       \/ pc = "failed"
       \/ Waiting /\ \E i \in 1..Len(anchors) :
            i <= Len(commits) /\ commits[i].bundle.source = Forged(i)

\* The deliberate crashes up to a step.
FaultsUpTo(n) == IF n >= 4 THEN 2 ELSE IF n = 3 THEN 1 ELSE 0
\* Who may have killed a worker, and the crashes observed.
Crashes ==
  /\ worker.pc = "killed" =>
       /\ worker.killedBy \in {"timer", "operator", "fault"}
       /\ worker.killedBy = "timer" => timedOut
       /\ worker.killedBy = "operator" => cancelled
  /\ \/ \A i \in 1..Len(crashes) : crashes[i].by = "fault"
     \/ cancelled /\ pc # "attempted"
  /\ \E S : crashes \in Seq(S)
  /\ pc \in {"begin", "stage", "identify", "start", "probing"} => crashes = <<>>
  /\ pc = "crashing" => FaultAt(step) # "none"
  /\ pc \in {"ingesting", "redelivering"} =>
       Len(crashes) = IF Primary(attempt) THEN FaultsUpTo(step) ELSE 0
  /\ pc \in {"reveal", "crashing"} =>
       Len(crashes) = IF Primary(attempt) THEN FaultsUpTo(step - 1) ELSE 0
  /\ pc \in {"rebuild", "rebuilding", "attempted"} =>
       Len(crashes) = IF Primary(attempt) THEN FaultsUpTo(PackLength) ELSE 0

\* The results, and the identities compared so far.
Identities ==
  /\ \E S : results \in Seq(S)
  /\ pc # "failed" => Len(results) = (IF pc = "attempted" THEN attempt
                                      ELSE IF pc \in {"report", "passed"} THEN 4
                                      ELSE attempt - 1)
  /\ pc = "attempted" => staged = identity
  /\ (pc # "failed" /\ (attempt > 2 \/ pc \in {"report", "passed"})) =>
        results[2] = results[1]
  /\ pc \in {"report", "passed"} =>
        results[4] = results[3] /\ results[2].identity = session
                                /\ results[4].identity = session

ControllerInv == driver = "controller" => Place /\ Honest /\ Crashes /\ Identities

Inv == VaultInv /\ ControllerTypeOK /\ DirectInv /\ ControllerInv

-----------------------------------------------------------------------------
(* The worker.                                                                 *)

LEMMA StartedFields ==
  ASSUME NEW action \in {"probe", "ingest", "rebuild"}, NEW bundle \in Bundle \cup {NoBundle},
         NEW fault \in Faults
  PROVE  LET w == Started(action, bundle, fault) IN
         /\ w \in [pc : WorkerPcs, action : {"none", "probe", "ingest", "rebuild"},
                   bundle : Bundle \cup {NoBundle}, fault : Faults, previous : Seq(Bundle),
                   outcome : {w.outcome}, killedBy : {"none", "timer", "operator", "fault"},
                   reply : {w.reply}]
         /\ w.action = action /\ w.bundle = bundle /\ w.killedBy = "none"
         /\ w.pc = (IF action = "rebuild" THEN "wipe" ELSE IF action = "probe" THEN "reply"
                    ELSE "load")
  <1> HIDE DEF Bundle
  <1>1. IdleWorker.previous \in Seq(Bundle)
    BY EmptySeq DEF IdleWorker, NoHead
  <1> QED BY <1>1 DEF Started, IdleWorker, WorkerPcs

\* A worker's step is taken by a worker that runs.
LEMMA OnlyARunningWorkerSteps ==
  ASSUME VaultTypeOK, WorkerStep
  PROVE  WorkerRuns
  BY DEF VaultTypeOK, WorkerStep, WorkerRuns, LoadForIngest, ClearStaging, BeginStage,
         CompleteStage, PublishCommit, TidyStaging, KillItself, SelectHead, ConfirmCommit,
         WipeProjection, ProjectStep, ProjectCurrent, Reply

\* What a worker's step leaves alone.
LEMMA WorkerKeepsItsOrders ==
  ASSUME VaultTypeOK, WorkerStep
  PROVE  /\ worker'.action = worker.action /\ worker'.bundle = worker.bundle
         /\ worker'.fault = worker.fault
         /\ worker'.pc = "killed" => worker'.killedBy = "fault"
         /\ PublishCommit \/ commits' = commits
  BY DEF VaultTypeOK, WorkerStep, LoadForIngest, ClearStaging, BeginStage,
         CompleteStage, PublishCommit, TidyStaging, KillItself, SelectHead, ConfirmCommit,
         WipeProjection, ProjectStep, ProjectCurrent, Reply, To, Fail, Die, vaultVars

\* Only an ingest gets to the places of one.
LEMMA IngestPlaces ==
  ASSUME VaultTypeOK, Shape,
         worker.pc \in {"load", "clear", "stage", "staged", "publish", "tidy", "die", "select",
                        "confirm"}
  PROVE  worker.action = "ingest" /\ worker.bundle \in Bundle
  BY DEF VaultTypeOK, Shape

\* The head a chain should select, though history was rewritten.
LEMMA TerminalHeadLength ==
  ASSUME VaultTypeOK, Shape
  PROVE  TerminalHead(commits) \in Seq(Bundle) /\ Len(TerminalHead(commits)) = Len(commits)
  <1> HIDE DEF Bundle
  <1>1. CASE commits = <<>>
    BY <1>1, EmptySeq DEF TerminalHead, NoHead
  <1>2. CASE commits # <<>>
    <2>1. commits \in Seq(Commit) /\ Len(commits) \in 1..Len(commits)
      BY <1>2, EmptySeq DEF VaultTypeOK
    <2> DEFINE last == commits[Len(commits)]
    <2>2. last \in Commit
      BY <2>1
    <2>3. /\ last.previous \in Seq(Bundle) /\ last.bundle \in Bundle /\ last.head \in Seq(Bundle)
      BY <2>2 DEF Commit
    <2>4. last.head = Append(last.previous, last.bundle) /\ Len(last.previous) = Len(commits) - 1
      BY <2>1 DEF Shape
    <2>5. TerminalHead(commits) = last.head
      BY <1>2 DEF TerminalHead, Last
    <2> HIDE DEF last
    <2> QED BY <2>1, <2>3, <2>4, <2>5
  <1> QED BY <1>1, <1>2

LEMMA WorkerKeepsTypes ==
  ASSUME VaultTypeOK, Shape, WorkerStep
  PROVE  VaultTypeOK'
  <1> USE DEF VaultTypeOK
  <1> HIDE DEF Bundle
  <1>0. /\ commits \in Seq(Commit) /\ selector \in Seq(Bundle)
        /\ worker \in [pc : WorkerPcs, action : {"none", "probe", "ingest", "rebuild"},
                       bundle : Bundle \cup {NoBundle}, fault : Faults, previous : Seq(Bundle),
                       outcome : {worker.outcome},
                       killedBy : {"none", "timer", "operator", "fault"},
                       reply : {worker.reply}]
    OBVIOUS
  <1> DEFINE ProjectionOK ==
               /\ projection = [asOf |-> projection.asOf, deltas |-> projection.deltas,
                                current |-> projection.current, complete |-> projection.complete]
               /\ \E S : projection.asOf \in Seq(S) /\ projection.deltas \in Seq(S)
             WorkerOK ==
               worker \in [pc : WorkerPcs, action : {"none", "probe", "ingest", "rebuild"},
                           bundle : Bundle \cup {NoBundle}, fault : Faults, previous : Seq(Bundle),
                           outcome : {worker.outcome},
                           killedBy : {"none", "timer", "operator", "fault"},
                           reply : {worker.reply}]
  <1>p. ASSUME projection' = projection PROVE ProjectionOK'
    BY <1>p
  <1>t. ASSUME NEW p \in WorkerPcs, To(p) PROVE WorkerOK'
    <2>1. worker' = [worker EXCEPT !.pc = p]
      BY <1>t DEF To
    <2> QED BY <1>0, <2>1
  <1>1. CASE LoadForIngest
    <2>1. WorkerOK'
      BY <1>0, <1>1, TerminalHeadLength, ZenonT(40) DEF LoadForIngest, Fail, To, WorkerPcs
    <2>2. commits' = commits /\ projection' = projection /\ selector' \in Seq(Bundle)
      BY <1>0, <1>1, TerminalHeadLength DEF LoadForIngest, Fail, vaultVars
    <2> QED BY <1>0, <1>p, <2>1, <2>2
  <1>2. CASE ClearStaging \/ BeginStage \/ CompleteStage \/ TidyStaging \/ ConfirmCommit
    <2>1. \E p \in WorkerPcs : To(p)
      BY <1>2 DEF ClearStaging, BeginStage, CompleteStage, TidyStaging, ConfirmCommit, WorkerPcs
    <2>2. UNCHANGED <<commits, selector, projection>>
      BY <1>2 DEF ClearStaging, BeginStage, CompleteStage, TidyStaging, ConfirmCommit, vaultVars
    <2> QED BY <1>0, <1>p, <1>t, <2>1, <2>2
  <1>3. CASE PublishCommit
    <2>1. WorkerOK'
      BY <1>3, <1>t DEF PublishCommit, WorkerPcs
    <2>2. worker.bundle \in Bundle /\ worker.previous \in Seq(Bundle)
      BY <1>0, <1>3, IngestPlaces DEF PublishCommit
    <2>3. Append(worker.previous, worker.bundle) \in Seq(Bundle)
      BY <2>2
    <2>4. Checkpoint(worker.bundle, worker.previous) \in Commit
      BY <2>2, <2>3 DEF Checkpoint, Commit
    <2>5. commits' \in Seq(Commit)
      BY <1>0, <1>3, <2>4 DEF PublishCommit
    <2>6. selector' = selector /\ projection' = projection
      BY <1>3 DEF PublishCommit
    <2> QED BY <1>0, <1>p, <2>1, <2>5, <2>6
  <1>4. CASE KillItself
    <2>1. WorkerOK'
      BY <1>0, <1>4 DEF KillItself, Die, WorkerPcs
    <2>2. UNCHANGED <<commits, selector, projection>>
      BY <1>4 DEF KillItself, Die, vaultVars
    <2> QED BY <1>0, <1>p, <2>1, <2>2
  <1>5. CASE SelectHead
    <2>1. WorkerOK'
      BY <1>5, <1>t DEF SelectHead, WorkerPcs
    <2>2. worker.bundle \in Bundle /\ worker.previous \in Seq(Bundle)
      BY <1>0, <1>5, IngestPlaces DEF SelectHead
    <2>3. selector' \in Seq(Bundle) /\ commits' = commits /\ projection' = projection
      BY <1>5, <2>2 DEF SelectHead
    <2> QED BY <1>0, <1>p, <2>1, <2>3
  <1>6. CASE WipeProjection
    <2>1. WorkerOK'
      BY <1>6, <1>t DEF WipeProjection, WorkerPcs
    <2>2. ProjectionOK'
      <3>1. CASE projection' = projection
        BY <3>1, <1>p
      <3>2. CASE projection' = NoProjection
        BY <3>2, EmptySeq DEF NoProjection
      <3> QED BY <1>6, <3>1, <3>2 DEF WipeProjection
    <2>3. commits' = commits /\ selector' = selector
      BY <1>6 DEF WipeProjection
    <2> QED BY <1>0, <2>1, <2>2, <2>3
  <1>7. CASE ProjectStep
    <2> DEFINE n == Len(projection.asOf) + 1
               prior == IF n = 1 THEN NoDossier ELSE DossierFor(commits, n - 1)
               dossier == DossierFor(commits, n)
               delta == DeltaBetween(prior, dossier)
    <2>1. projection' = [projection EXCEPT !.asOf = Append(@, dossier), !.deltas = Append(@, delta)]
      BY <1>7 DEF ProjectStep, WithStepProjected
    <2> HIDE DEF n, prior, dossier, delta
    <2>2. /\ projection'.asOf = Append(projection.asOf, dossier)
          /\ projection'.deltas = Append(projection.deltas, delta)
          /\ projection'.current = projection.current
          /\ projection'.complete = projection.complete
          /\ projection' = [asOf |-> projection'.asOf, deltas |-> projection'.deltas,
                            current |-> projection'.current, complete |-> projection'.complete]
      BY <2>1
    <2>3. ASSUME NEW S, projection.asOf \in Seq(S), projection.deltas \in Seq(S)
          PROVE  \E T : projection'.asOf \in Seq(T) /\ projection'.deltas \in Seq(T)
      <3> DEFINE T == S \cup {dossier, delta}
      <3>1. projection.asOf \in Seq(T) /\ projection.deltas \in Seq(T)
        BY <2>3, SeqMonotonic
      <3>2. dossier \in T /\ delta \in T
        OBVIOUS
      <3> HIDE DEF T
      <3>3. projection'.asOf \in Seq(T) /\ projection'.deltas \in Seq(T)
        BY <3>1, <3>2, <2>2, AppendProperties
      <3> QED BY <3>3
    <2>4. ProjectionOK'
      <3>1. PICK S : projection.asOf \in Seq(S) /\ projection.deltas \in Seq(S)
        OBVIOUS
      <3> QED BY <3>1, <2>2, <2>3
    <2>5. worker' = worker /\ commits' = commits /\ selector' = selector
      BY <1>7 DEF ProjectStep
    <2> QED BY <1>0, <2>4, <2>5
  <1>8. CASE ProjectCurrent
    <2>1. WorkerOK'
      BY <1>8, <1>t DEF ProjectCurrent, WorkerPcs
    <2>2. ProjectionOK'
      BY <1>8 DEF ProjectCurrent
    <2>3. commits' = commits /\ selector' = selector
      BY <1>8 DEF ProjectCurrent
    <2> QED BY <1>0, <2>1, <2>2, <2>3
  <1>9. CASE Reply
    <2>1. WorkerOK'
      BY <1>0, <1>9 DEF Reply, WorkerPcs
    <2>2. UNCHANGED <<commits, selector, projection>>
      BY <1>9 DEF Reply, vaultVars
    <2> QED BY <1>0, <1>p, <2>1, <2>2
  <1> QED BY <1>1, <1>2, <1>3, <1>4, <1>5, <1>6, <1>7, <1>8, <1>9 DEF WorkerStep

LEMMA WorkerKeepsShape ==
  ASSUME VaultTypeOK, Shape, WorkerStep
  PROVE  Shape'
  <1> HIDE DEF Bundle
  <1> DEFINE Orders ==
               /\ worker.action = "none" => worker.pc = "idle"
               /\ worker.action = "probe" => worker.pc \in {"reply", "exited", "killed"}
               /\ worker.action = "rebuild" =>
                    worker.pc \in {"wipe", "project", "reply", "exited", "failed", "killed"}
               /\ worker.action = "ingest" => worker.bundle \in Bundle
             Places ==
               /\ Preparing => /\ worker.bundle.order = Len(commits) + 1
                               /\ Len(worker.previous) = Len(commits)
               /\ worker.pc \in {"tidy", "select"} => Len(worker.previous) + 1 = Len(commits)
             Chain == \A i \in 1..Len(commits) :
                        /\ commits[i].head = Append(commits[i].previous, commits[i].bundle)
                        /\ Len(commits[i].previous) = i - 1
                        /\ commits[i].bundle.order = i
  <1>0. /\ Orders /\ Places /\ Chain /\ Len(selector) <= Len(commits)
        /\ commits \in Seq(Commit) /\ selector \in Seq(Bundle)
    BY DEF Shape, VaultTypeOK
  <1>1. Orders'
    <2>1. worker'.action = worker.action /\ worker'.bundle = worker.bundle
      BY WorkerKeepsItsOrders
    <2>2. worker.action # "none"
      BY OnlyARunningWorkerSteps, <1>0 DEF WorkerRuns
    <2>3. worker.action = "probe" => worker'.pc = "exited"
      BY <1>0 DEF VaultTypeOK, WorkerStep, LoadForIngest, ClearStaging, BeginStage,
        CompleteStage, PublishCommit, TidyStaging, KillItself, SelectHead, ConfirmCommit,
        WipeProjection, ProjectStep, ProjectCurrent, Reply
    <2>4. worker.action = "rebuild" =>
            worker'.pc \in {"wipe", "project", "reply", "exited", "failed", "killed"}
      BY <1>0 DEF VaultTypeOK, WorkerStep, LoadForIngest, ClearStaging, BeginStage,
        CompleteStage, PublishCommit, TidyStaging, KillItself, SelectHead, ConfirmCommit,
        WipeProjection, ProjectStep, ProjectCurrent, Reply, To
    <2> QED BY <1>0, <2>1, <2>2, <2>3, <2>4
  <1>2. Places'
    <2>1. CASE LoadForIngest
      <3>1. Len(TerminalHead(commits)) = Len(commits)
        BY TerminalHeadLength
      <3> QED BY <1>0, <2>1, <3>1 DEF VaultTypeOK, LoadForIngest, Fail, To, Preparing, vaultVars
    <2>2. CASE ClearStaging \/ BeginStage \/ CompleteStage
      <3>1. Preparing /\ worker' = [worker EXCEPT !.pc = worker'.pc]
            /\ worker'.pc \notin {"tidy", "select"} /\ commits' = commits
        BY <2>2 DEF VaultTypeOK, ClearStaging, BeginStage, CompleteStage, To, Preparing
      <3>2. worker'.bundle = worker.bundle /\ worker'.previous = worker.previous
        BY <3>1 DEF VaultTypeOK
      <3> QED BY <1>0, <3>1, <3>2
    <2>3. CASE PublishCommit
      <3>1. /\ Preparing /\ worker'.pc = "tidy" /\ worker'.previous = worker.previous
            /\ commits' = Append(commits, Checkpoint(worker.bundle, worker.previous))
        BY <2>3 DEF VaultTypeOK, PublishCommit, To, Preparing
      <3>2. Len(commits') = Len(commits) + 1
        BY <1>0, <3>1
      <3>3. Len(worker.previous) + 1 = Len(commits')
        BY <1>0, <3>1, <3>2
      <3> QED BY <3>1, <3>3 DEF Preparing
    <2>4. CASE TidyStaging
      <3>1. worker.pc = "tidy" /\ worker'.pc \in {"die", "select"}
            /\ worker'.previous = worker.previous /\ commits' = commits
        BY <2>4 DEF VaultTypeOK, TidyStaging, To
      <3> QED BY <1>0, <3>1 DEF Preparing
    <2>5. CASE KillItself \/ SelectHead \/ ConfirmCommit \/ WipeProjection \/ ProjectStep
               \/ ProjectCurrent \/ Reply
      <3>1. worker'.pc \in {"killed", "confirm", "wipe", "failed", "project", "reply", "exited"}
        BY <2>5 DEF VaultTypeOK, KillItself, Die, SelectHead, ConfirmCommit, WipeProjection,
          ProjectStep, ProjectCurrent, Reply, To
      <3> QED BY <3>1 DEF Preparing
    <2> QED BY <2>1, <2>2, <2>3, <2>4, <2>5 DEF WorkerStep
  <1>3. Chain'
    <2>1. CASE PublishCommit
      <3> DEFINE new == Checkpoint(worker.bundle, worker.previous)
      <3>1. /\ worker.bundle.order = Len(commits) + 1 /\ Len(worker.previous) = Len(commits)
            /\ worker.bundle \in Bundle /\ worker.previous \in Seq(Bundle)
            /\ commits' = Append(commits, new)
        BY <2>1, <1>0, IngestPlaces DEF VaultTypeOK, PublishCommit, Preparing
      <3>2. Append(worker.previous, worker.bundle) \in Seq(Bundle)
        BY <3>1
      <3>3. /\ new \in Commit /\ new.bundle = worker.bundle /\ new.previous = worker.previous
            /\ new.head = Append(worker.previous, worker.bundle)
        BY <3>1, <3>2 DEF Checkpoint, Commit
      <3> HIDE DEF new
      <3>4. /\ Len(commits') = Len(commits) + 1 /\ commits'[Len(commits) + 1] = new
            /\ \A i \in 1..Len(commits) : commits'[i] = commits[i]
        BY <1>0, <3>1, <3>3
      <3>5. SUFFICES ASSUME NEW i \in 1..Len(commits')
                     PROVE  /\ commits'[i].head = Append(commits'[i].previous, commits'[i].bundle)
                            /\ Len(commits'[i].previous) = i - 1
                            /\ commits'[i].bundle.order = i
        OBVIOUS
      <3>6. CASE i \in 1..Len(commits)
        BY <3>4, <3>6, <1>0
      <3>7. CASE i = Len(commits) + 1
        BY <3>1, <3>3, <3>4, <3>7
      <3> QED BY <3>4, <3>6, <3>7, <1>0
    <2>2. CASE commits' = commits
      BY <2>2, <1>0
    <2> QED BY <2>1, <2>2, WorkerKeepsItsOrders
  <1>4. Len(selector') <= Len(commits')
    <2>1. CASE LoadForIngest
      <3>1. commits' = commits /\ (selector' = selector \/ selector' = TerminalHead(commits))
        BY <2>1 DEF LoadForIngest, Fail, vaultVars
      <3> QED BY <1>0, <3>1, TerminalHeadLength
    <2>2. CASE SelectHead
      <3>1. /\ selector' = Append(worker.previous, worker.bundle) /\ commits' = commits
            /\ worker.previous \in Seq(Bundle) /\ worker.bundle \in Bundle
            /\ Len(worker.previous) + 1 = Len(commits)
        BY <2>2, <1>0, IngestPlaces DEF SelectHead, VaultTypeOK
      <3>2. Len(selector') = Len(worker.previous) + 1
        BY <3>1
      <3> QED BY <1>0, <3>1, <3>2
    <2>3. CASE PublishCommit
      <3>1. selector' = selector /\ commits' = Append(commits, Checkpoint(worker.bundle, worker.previous))
        BY <2>3 DEF PublishCommit
      <3>2. Len(commits') = Len(commits) + 1
        BY <1>0, <3>1
      <3> QED BY <1>0, <3>1, <3>2
    <2>4. CASE selector' = selector /\ commits' = commits
      BY <1>0, <2>4
    <2> QED BY <2>1, <2>2, <2>3, <2>4 DEF WorkerStep, ClearStaging, BeginStage, CompleteStage,
          TidyStaging, KillItself, Die, ConfirmCommit, WipeProjection, ProjectStep,
          ProjectCurrent, Reply, vaultVars
  <1> QED BY <1>1, <1>2, <1>3, <1>4 DEF Shape

\* What a worker sees in a vault whose history nobody rewrote.
LEMMA WholeVault ==
  ASSUME VaultTypeOK, Shape, commits = Chained(BundlesOf(commits)), OfOneRun
  PROVE  /\ BundlesOf(commits) \in Seq(Bundle) /\ Len(BundlesOf(commits)) = Len(commits)
         /\ \A i \in 1..Len(commits) : BundlesOf(commits)[i] = commits[i].bundle
         /\ TerminalHead(commits) = BundlesOf(commits)
         /\ commits # <<>> => Last(commits).bundle = BundlesOf(commits)[Len(commits)]
         /\ ChainHolds(commits)
         /\ SelectorExact(commits, selector) <=> ExactHead
         /\ SelectorLags(commits, selector) <=> LaggingHead
  <1> HIDE DEF Bundle
  <1> DEFINE b == BundlesOf(commits)
  <1>1. /\ commits \in Seq(Commit) /\ b \in Seq(Bundle) /\ Len(b) = Len(commits)
        /\ \A i \in 1..Len(commits) : b[i] = commits[i].bundle
    BY BundlesOfCommits DEF VaultTypeOK
  <1>2. commits = Chained(b)
    OBVIOUS
  <1>3. \A i \in 1..Len(b) : b[i].order = i /\ b[i].run = b[1].run
    <2>1. \A i \in 1..Len(commits) :
            commits[i].bundle.order = i /\ commits[i].bundle.run = commits[1].bundle.run
      BY DEF Shape, OfOneRun
    <2>2. \A i \in 1..Len(b) : 1 \in 1..Len(b) /\ b[1] = commits[1].bundle
      BY <1>1
    <2> HIDE DEF b
    <2> QED BY <1>1, <2>1, <2>2
  <1> HIDE DEF b
  <1>4. ChainHolds(Chained(b))
    BY <1>1, <1>3, ChainOfOneRunHolds
  <1>5. /\ TerminalHead(Chained(b)) = b
        /\ b # <<>> => Last(Chained(b)).previous = SubSeq(b, 1, Len(b) - 1)
        /\ b # <<>> => Last(Chained(b)).bundle = b[Len(b)]
        /\ Chained(b) = <<>> <=> b = <<>>
    BY <1>1, HeadOfAChain
  <1>6. SelectorExact(commits, selector) <=> selector = b
    BY <1>2, <1>5 DEF SelectorExact
  <1>7. SelectorLags(commits, selector)
          <=> commits # <<>> /\ selector = SubSeq(b, 1, Len(commits) - 1)
    BY <1>1, <1>2, <1>5 DEF SelectorLags
  <1> QED BY <1>1, <1>2, <1>4, <1>5, <1>6, <1>7 DEF b, ExactHead, LaggingHead

LEMMA WorkerKeepsWhole ==
  ASSUME VaultTypeOK, Shape, Whole, WorkerStep
  PROVE  Whole'
  <1> HIDE DEF Bundle
  <1> DEFINE b == BundlesOf(commits)
  <1>t. VaultTypeOK' /\ Shape'
    BY WorkerKeepsTypes, WorkerKeepsShape
  <1>o. worker'.action = worker.action /\ worker'.bundle = worker.bundle
    BY WorkerKeepsItsOrders
  <1>0. /\ b \in Seq(Bundle) /\ Len(b) = Len(commits)
        /\ \A i \in 1..Len(commits) : b[i] = commits[i].bundle
        /\ TerminalHead(commits) = b
        /\ commits # <<>> => Last(commits).bundle = b[Len(commits)]
        /\ ChainHolds(commits)
        /\ SelectorExact(commits, selector) <=> ExactHead
        /\ SelectorLags(commits, selector) <=> LaggingHead
        /\ commits = Chained(b) /\ OfOneRun /\ (ExactHead \/ LaggingHead)
    BY WholeVault DEF Whole
  <1>c. commits \in Seq(Commit) /\ selector \in Seq(Bundle)
    BY DEF VaultTypeOK
  <1>1. CASE LoadForIngest
    <2>1. CASE ~Recoverable(worker.bundle)
      <3>1. worker'.pc = "failed" /\ UNCHANGED vaultVars
        BY <1>1, <2>1 DEF LoadForIngest, Fail, To, VaultTypeOK
      <3> QED BY <1>0, <3>1 DEF Whole, vaultVars, Preparing, ExactHead, LaggingHead, OfOneRun
    <2>2. CASE Recoverable(worker.bundle)
      <3>1. selector' = b /\ UNCHANGED <<commits, staging, projection>>
        BY <1>0, <1>1, <2>2 DEF LoadForIngest
      <3>2. ExactHead' /\ OfOneRun' /\ commits' = Chained(BundlesOf(commits'))
        BY <1>0, <3>1 DEF ExactHead, OfOneRun
      <3>3. CASE IsKnown(worker.bundle)
        <4>1. worker'.pc = "wipe"
          BY <1>1, <2>2, <3>3 DEF LoadForIngest, VaultTypeOK
        <4>2. PICK i \in 1..Len(commits) : commits[i].bundle = worker.bundle
          BY <3>3 DEF IsKnown
        <4>3. Published
          BY <4>2 DEF Shape, Published
        <4>4. Published'
          BY <1>o, <3>1, <4>3 DEF Published
        <4> QED BY <3>2, <4>1, <4>4 DEF Whole, Preparing
      <3>4. CASE ~IsKnown(worker.bundle) /\ worker.bundle.order # Len(commits) + 1
        <4>1. worker'.pc = "failed"
          BY <1>1, <2>2, <3>4 DEF LoadForIngest, VaultTypeOK, To
        <4> QED BY <3>2, <4>1 DEF Whole, Preparing
      <3>5. CASE ~IsKnown(worker.bundle) /\ worker.bundle.order = Len(commits) + 1
        <4>1. worker'.pc = "clear" /\ worker'.previous = b
          BY <1>0, <1>1, <2>2, <3>5 DEF LoadForIngest, VaultTypeOK
        <4>2. commits' # <<>> => commits'[1].bundle.run = worker'.bundle.run
          BY <2>2, <3>1, <1>o DEF Recoverable
        <4> QED BY <3>1, <3>2, <4>1, <4>2 DEF Whole, Preparing
      <3> QED BY <3>3, <3>4, <3>5
    <2> QED BY <2>1, <2>2
  <1>2. CASE ClearStaging \/ BeginStage \/ CompleteStage
    <2>1. /\ Preparing /\ UNCHANGED <<commits, selector, projection>>
          /\ worker' = [worker EXCEPT !.pc = worker'.pc]
          /\ worker'.pc \in {"stage", "staged", "publish", "die"}
      BY <1>2 DEF ClearStaging, BeginStage, CompleteStage, To, Preparing, VaultTypeOK
    <2>2. worker'.previous = worker.previous
      BY <2>1 DEF VaultTypeOK
    <2>3. /\ ExactHead /\ worker.previous = selector
          /\ commits # <<>> => commits[1].bundle.run = worker.bundle.run
      BY <2>1 DEF Whole
    <2>4. ExactHead' /\ OfOneRun' /\ commits' = Chained(BundlesOf(commits'))
      BY <1>0, <2>1, <2>3 DEF ExactHead, OfOneRun
    <2> QED BY <1>o, <2>1, <2>2, <2>3, <2>4 DEF Whole, Preparing
  <1>3. CASE PublishCommit
    <2> DEFINE e == worker.bundle
               longer == Append(b, e)
    <2>1. /\ ExactHead /\ worker.previous = selector /\ worker.pc = "publish"
          /\ commits # <<>> => commits[1].bundle.run = e.run
      BY <1>3 DEF Whole, Preparing, PublishCommit
    <2>2. e \in Bundle
      BY <1>3, IngestPlaces DEF PublishCommit
    <2>3. /\ commits' = Append(Chained(b), Checkpoint(e, b)) /\ selector' = selector
          /\ worker'.pc = "tidy" /\ worker'.previous = worker.previous
      BY <1>0, <1>3, <2>1 DEF PublishCommit, To, VaultTypeOK, ExactHead
    <2>4. commits' = Chained(longer)
      BY <1>0, <2>2, <2>3, ChainedGrows
    <2>5. /\ longer \in Seq(Bundle) /\ Len(longer) = Len(b) + 1 /\ longer[Len(b) + 1] = e
          /\ \A i \in 1..Len(b) : longer[i] = b[i]
      BY <1>0, <2>2
    <2>6. BundlesOf(commits') = longer /\ Len(commits') = Len(b) + 1
          /\ \A i \in 1..Len(commits') : commits'[i].bundle = longer[i]
      BY <2>4, <2>5, ChainedIsAChain
    <2>7. selector' = b
      BY <2>1, <2>3 DEF ExactHead
    <2>8. LaggingHead'
      <3>1. SubSeq(longer, 1, Len(b)) = b
        BY <1>0, <2>2, BeginningOfAppended, WholeBeginning
      <3>2. commits' # <<>> /\ Len(commits') - 1 = Len(b)
        BY <2>6, <1>0
      <3> QED BY <2>6, <2>7, <3>1, <3>2 DEF LaggingHead
    <2>9. OfOneRun'
      <3>1. SUFFICES ASSUME NEW i \in 1..Len(commits')
                     PROVE  commits'[i].bundle.run = commits'[1].bundle.run
        BY DEF OfOneRun
      <3>2. CASE commits = <<>>
        BY <1>0, <3>2, <2>6
      <3>3. CASE commits # <<>>
        <4>1. 1 \in 1..Len(b)
          BY <1>0, <1>c, <3>3
        <4>2. longer[1].run = e.run
          BY <1>0, <2>1, <2>5, <3>3, <4>1
        <4>3. longer[i].run = e.run
          <5>1. CASE i \in 1..Len(b)
            BY <5>1, <1>0, <2>1, <2>5, <3>3 DEF OfOneRun
          <5>2. CASE i = Len(b) + 1
            BY <5>2, <2>5
          <5> QED BY <5>1, <5>2, <2>6, <1>0
        <4>4. commits'[1].bundle = longer[1] /\ commits'[i].bundle = longer[i]
          BY <2>6, <4>1, <1>0
        <4> QED BY <4>2, <4>3, <4>4
      <3> QED BY <3>2, <3>3
    <2>10. commits' = Chained(BundlesOf(commits'))
      BY <2>4, <2>6
    <2>11. BundlesOf(commits') = Append(selector', worker'.bundle) /\ selector' = worker'.previous
      BY <1>o, <2>1, <2>3, <2>6, <2>7
    <2> QED BY <2>3, <2>8, <2>9, <2>10, <2>11 DEF Whole, Preparing
  <1>4. CASE TidyStaging
    <2>1. /\ UNCHANGED <<commits, selector, projection>> /\ worker.pc = "tidy"
          /\ worker'.pc \in {"select", "die"} /\ worker'.previous = worker.previous
      BY <1>4 DEF TidyStaging, To, VaultTypeOK
    <2>2. OfOneRun' /\ commits' = Chained(BundlesOf(commits')) /\ (ExactHead \/ LaggingHead)'
      BY <1>0, <2>1 DEF ExactHead, LaggingHead, OfOneRun
    <2>3. selector' = worker'.previous /\ BundlesOf(commits') = Append(selector', worker'.bundle)
      BY <1>o, <2>1 DEF Whole
    <2> QED BY <2>1, <2>2, <2>3 DEF Whole, Preparing
  <1>5. CASE KillItself
    <2>1. UNCHANGED <<commits, selector, projection>> /\ worker'.pc = "killed"
      BY <1>5 DEF KillItself, Die, VaultTypeOK, vaultVars
    <2>2. OfOneRun' /\ commits' = Chained(BundlesOf(commits')) /\ (ExactHead \/ LaggingHead)'
      BY <1>0, <2>1 DEF ExactHead, LaggingHead, OfOneRun
    <2> QED BY <2>1, <2>2 DEF Whole, Preparing
  <1>6. CASE SelectHead
    <2>1. /\ UNCHANGED <<commits, projection>> /\ worker.pc = "select" /\ worker'.pc = "confirm"
          /\ selector' = Append(worker.previous, worker.bundle)
      BY <1>6 DEF SelectHead, To, VaultTypeOK
    <2>2. /\ selector = worker.previous /\ b = Append(selector, worker.bundle)
          /\ worker.bundle \in Bundle
      BY <2>1, IngestPlaces DEF Whole
    <2>3. Len(b) = Len(selector) + 1 /\ b[Len(b)] = worker.bundle
      BY <1>c, <2>2
    <2>4. commits # <<>> /\ Last(commits).bundle = worker.bundle
      <3>1. Len(commits) # 0
        BY <1>0, <1>c, <2>3
      <3> QED BY <1>0, <1>c, <2>3, <3>1, EmptySeq
    <2>5. ExactHead' /\ OfOneRun' /\ commits' = Chained(BundlesOf(commits'))
      BY <1>0, <2>1, <2>2 DEF ExactHead, OfOneRun
    <2> QED BY <1>o, <2>1, <2>4, <2>5 DEF Whole, Preparing
  <1>7. CASE ConfirmCommit
    <2>1. /\ UNCHANGED <<commits, selector, projection>> /\ worker.pc = "confirm"
          /\ \/ worker'.pc = "failed"
             \/ worker'.pc = "wipe" /\ Len(commits) = worker.bundle.order
      BY <1>7 DEF ConfirmCommit, To, VaultTypeOK, vaultVars
    <2>2. ExactHead /\ commits # <<>> /\ Last(commits).bundle = worker.bundle
      BY <2>1 DEF Whole
    <2>3. ExactHead' /\ OfOneRun' /\ commits' = Chained(BundlesOf(commits'))
      BY <1>0, <2>1, <2>2 DEF ExactHead, OfOneRun
    <2>4. worker'.pc = "wipe" => Published'
      <3>1. Len(commits) \in 1..Len(commits)
        BY <1>c, <2>2, EmptySeq
      <3> QED BY <1>o, <2>1, <2>2, <3>1 DEF Published, Last
    <2> QED BY <2>1, <2>3, <2>4 DEF Whole, Preparing
  <1>8. CASE WipeProjection
    <2>1. UNCHANGED <<commits, selector>> /\ worker.pc = "wipe"
      BY <1>8 DEF WipeProjection
    <2>2. OfOneRun' /\ commits' = Chained(BundlesOf(commits')) /\ (ExactHead \/ LaggingHead)'
      BY <1>0, <2>1 DEF ExactHead, LaggingHead, OfOneRun
    <2>3. worker.action = "ingest" => Published'
      BY <1>o, <2>1 DEF Whole, Published
    <2>4. CASE ~Loads(commits, selector)
      <3>1. worker'.pc = "failed"
        BY <1>8, <2>4 DEF WipeProjection, To, VaultTypeOK
      <3> QED BY <2>2, <3>1 DEF Whole, Preparing
    <2>5. CASE Loads(commits, selector)
      <3>1. worker'.pc = "project" /\ projection' = NoProjection
        BY <1>8, <2>5 DEF WipeProjection, To, VaultTypeOK
      <3>2. ExactHead'
        BY <1>0, <2>1, <2>5 DEF Loads, ExactHead
      <3>3. /\ Projected(projection, Len(projection.asOf))'
            /\ Len(projection'.asOf) <= Len(commits')
        <4>1. Len(projection'.asOf) = 0 /\ Len(projection'.deltas) = 0
          BY <3>1, EmptySeq DEF NoProjection
        <4> QED BY <4>1, <1>c, <2>1 DEF Projected
      <3> QED BY <1>o, <2>2, <2>3, <3>1, <3>2, <3>3 DEF Whole, Preparing
    <2> QED BY <2>4, <2>5
  <1>9. CASE ProjectStep
    <2> DEFINE n == Len(projection.asOf) + 1
               prior == IF n = 1 THEN NoDossier ELSE DossierFor(commits, n - 1)
               dossier == DossierFor(commits, n)
               delta == DeltaBetween(prior, dossier)
    <2>1. /\ UNCHANGED <<commits, selector, worker>> /\ worker.pc = "project"
          /\ Len(projection.asOf) < Len(commits)
      BY <1>9 DEF ProjectStep
    <2>2. projection' = [projection EXCEPT !.asOf = Append(@, dossier), !.deltas = Append(@, delta)]
      BY <1>9 DEF ProjectStep, WithStepProjected
    <2>3. ExactHead /\ Projected(projection, Len(projection.asOf))
      BY <2>1 DEF Whole
    <2>4. PICK S : projection.asOf \in Seq(S) /\ projection.deltas \in Seq(S)
      BY DEF VaultTypeOK
    <2>5. n \in Nat \ {0} /\ n <= Len(commits)
      BY <1>c, <2>1, <2>4
    <2>6. RightDelta(commits, n, delta)
      BY <2>5, DeltaOfAStep
    <2>7. /\ projection'.asOf = Append(projection.asOf, dossier)
          /\ projection'.deltas = Append(projection.deltas, delta)
      <3> HIDE DEF n, prior, dossier, delta
      <3> QED BY <2>2 DEF VaultTypeOK
    <2>8. /\ Len(projection'.asOf) = n /\ Len(projection'.deltas) = n
          /\ projection'.deltas[n] = delta
          /\ \A k \in 1..(n - 1) : projection'.deltas[k] = projection.deltas[k]
      <3> DEFINE T == S \cup {dossier, delta}
      <3>1. projection.asOf \in Seq(T) /\ projection.deltas \in Seq(T)
        BY <2>4, SeqMonotonic
      <3>2. dossier \in T /\ delta \in T
        OBVIOUS
      <3>3. Len(projection.asOf) = n - 1 /\ Len(projection.deltas) = n - 1
        BY <2>3, <2>4 DEF Projected
      <3> HIDE DEF T, n, prior, dossier, delta
      <3> QED BY <3>1, <3>2, <3>3, <2>7, <2>5
    <2>9. Projected(projection, Len(projection.asOf))'
      <3> HIDE DEF n, prior, dossier, delta
      <3>1. SUFFICES ASSUME NEW k \in 1..n PROVE RightDelta(commits', k, projection'.deltas[k])
        BY <2>8 DEF Projected
      <3>2. CASE k \in 1..(n - 1)
        <4>1. n - 1 = Len(projection.asOf)
          BY <2>4 DEF n
        <4>2. RightDelta(commits, k, projection.deltas[k])
          BY <3>2, <2>3, <4>1 DEF Projected
        <4> QED BY <3>2, <2>1, <2>8, <4>2
      <3>3. CASE k = n
        BY <3>3, <2>1, <2>6, <2>8
      <3> QED BY <3>2, <3>3, <2>5
    <2>10. Len(projection'.asOf) <= Len(commits')
      BY <2>1, <2>5, <2>8
    <2>11. ExactHead' /\ OfOneRun' /\ commits' = Chained(BundlesOf(commits'))
      BY <1>0, <2>1, <2>3 DEF ExactHead, OfOneRun
    <2>12. worker'.action = "ingest" => Published'
      BY <2>1 DEF Whole, Published
    <2> QED BY <2>1, <2>9, <2>10, <2>11, <2>12 DEF Whole, Preparing
  <1>10. CASE ProjectCurrent
    <2>1. /\ UNCHANGED <<commits, selector>> /\ worker.pc = "project" /\ worker'.pc = "reply"
          /\ Len(projection.asOf) = Len(commits)
          /\ projection' = [projection EXCEPT !.current = TerminalHead(commits), !.complete = TRUE]
      BY <1>10 DEF ProjectCurrent, To, VaultTypeOK
    <2>2. ExactHead /\ Projected(projection, Len(projection.asOf))
      BY <2>1 DEF Whole
    <2>3. /\ projection'.asOf = projection.asOf /\ projection'.deltas = projection.deltas
          /\ projection'.current = b /\ projection'.complete
      BY <1>0, <2>1 DEF VaultTypeOK
    <2>4. ExactHead' /\ OfOneRun' /\ commits' = Chained(BundlesOf(commits'))
      BY <1>0, <2>1, <2>2 DEF ExactHead, OfOneRun
    <2>5. RightAnswer(projection)' /\ projection'.current = selector'
      BY <2>1, <2>2, <2>3, <2>4 DEF RightAnswer, Projected, ExactHead
    <2>6. worker'.action = "ingest" => Published'
      BY <1>o, <2>1 DEF Whole, Published
    <2> QED BY <2>1, <2>4, <2>5, <2>6 DEF Whole, Preparing
  <1>11. CASE Reply
    <2>1. /\ UNCHANGED <<commits, selector, projection>> /\ worker.pc = "reply"
          /\ worker'.pc = "exited"
          /\ worker.action # "probe" => /\ worker'.reply.projection = projection
                                        /\ worker'.reply.head = projection.current
      BY <1>11 DEF Reply, VaultTypeOK, vaultVars
    <2>2. OfOneRun' /\ commits' = Chained(BundlesOf(commits')) /\ (ExactHead \/ LaggingHead)'
      BY <1>0, <2>1 DEF ExactHead, LaggingHead, OfOneRun
    <2>3. worker'.action = "ingest" => Published'
      BY <1>o, <2>1 DEF Whole, Published
    <2>4. worker'.action # "probe" =>
            RightAnswer(worker.reply.projection)' /\ worker'.reply.head = selector'
      BY <1>o, <2>1 DEF Whole, RightAnswer, Projected, ExactHead
    <2> QED BY <2>1, <2>2, <2>3, <2>4 DEF Whole, Preparing
  <1> QED BY <1>1, <1>2, <1>3, <1>4, <1>5, <1>6, <1>7, <1>8, <1>9, <1>10, <1>11 DEF WorkerStep

-----------------------------------------------------------------------------
(* Everything else that touches the vault or the worker.                       *)

LEMMA RestingKeepsTheVault ==
  ASSUME VaultInv, UNCHANGED <<vaultVars, worker, rewrites>>
  PROVE  VaultInv'
  BY DEF VaultInv, VaultTypeOK, Shape, Whole, vaultVars, Preparing, ExactHead, LaggingHead,
         OfOneRun, Published, RightAnswer, Projected

LEMMA DyingKeepsTheVault ==
  ASSUME VaultInv, NEW by \in {"timer", "operator"}, Die(by), WorkerRuns, rewrites' = rewrites
  PROVE  VaultInv'
  <1> HIDE DEF Bundle
  <1>1. UNCHANGED <<commits, selector, projection>>
        /\ worker' = [worker EXCEPT !.pc = "killed", !.killedBy = by]
    BY DEF Die, vaultVars
  <1>2. worker'.pc = "killed" /\ worker'.action = worker.action /\ worker'.bundle = worker.bundle
    BY <1>1 DEF VaultInv, VaultTypeOK
  <1>3. VaultTypeOK'
    <2>1. worker' \in [pc : WorkerPcs, action : {"none", "probe", "ingest", "rebuild"},
                       bundle : Bundle \cup {NoBundle}, fault : Faults, previous : Seq(Bundle),
                       outcome : {worker'.outcome},
                       killedBy : {"none", "timer", "operator", "fault"},
                       reply : {worker'.reply}]
      BY <1>1 DEF VaultInv, VaultTypeOK, WorkerPcs
    <2> QED BY <1>1, <2>1 DEF VaultInv, VaultTypeOK
  <1>4. worker.action # "none"
    BY DEF VaultInv, Shape, WorkerRuns
  <1>5. Shape'
    BY <1>1, <1>2, <1>4 DEF VaultInv, Shape, Preparing
  <1>6. Whole => Whole'
    BY <1>1, <1>2 DEF Whole, Preparing, ExactHead, LaggingHead, OfOneRun
  <1> QED BY <1>3, <1>5, <1>6 DEF VaultInv

LEMMA StartingKeepsTheVault ==
  ASSUME VaultInv, UNCHANGED <<vaultVars, rewrites>>,
         NEW action \in {"probe", "ingest", "rebuild"}, NEW bundle \in Bundle \cup {NoBundle},
         action = "ingest" => bundle \in Bundle,
         NEW fault \in Faults, worker' = Started(action, bundle, fault)
  PROVE  VaultInv'
  <1> HIDE DEF Bundle
  <1>1. UNCHANGED <<commits, selector, projection>>
    BY DEF vaultVars
  <1>2. /\ worker' \in [pc : WorkerPcs, action : {"none", "probe", "ingest", "rebuild"},
                        bundle : Bundle \cup {NoBundle}, fault : Faults, previous : Seq(Bundle),
                        outcome : {worker'.outcome},
                        killedBy : {"none", "timer", "operator", "fault"},
                        reply : {worker'.reply}]
        /\ worker'.action = action /\ worker'.bundle = bundle
        /\ worker'.pc = (IF action = "rebuild" THEN "wipe" ELSE IF action = "probe" THEN "reply"
                         ELSE "load")
    BY StartedFields
  <1>3. VaultTypeOK'
    BY <1>1, <1>2 DEF VaultInv, VaultTypeOK
  <1>4. Shape'
    BY <1>1, <1>2 DEF VaultInv, Shape, Preparing
  <1>5. Whole => Whole'
    BY <1>1, <1>2 DEF Whole, Preparing, ExactHead, LaggingHead, OfOneRun
  <1> QED BY <1>3, <1>4, <1>5 DEF VaultInv

\* The vault before the first commit.
LEMMA EmptyVault ==
  commits = <<>> /\ selector = NoHead /\ projection = NoProjection /\ worker = IdleWorker
    => VaultInv
  <1> SUFFICES ASSUME commits = <<>>, selector = NoHead, projection = NoProjection,
                      worker = IdleWorker
               PROVE  VaultInv
    OBVIOUS
  <1> HIDE DEF Bundle
  <1>1. /\ commits \in Seq(Commit) /\ selector \in Seq(Bundle) /\ Len(commits) = 0
        /\ Len(selector) = 0
    BY EmptySeq DEF NoHead
  <1>2. VaultTypeOK
    <2>1. /\ projection.asOf = <<>> /\ projection.deltas = <<>>
          /\ projection = [asOf |-> projection.asOf, deltas |-> projection.deltas,
                           current |-> projection.current, complete |-> projection.complete]
      BY DEF NoProjection
    <2>2. \E S : projection.asOf \in Seq(S) /\ projection.deltas \in Seq(S)
      BY <2>1, EmptySeq
    <2>3. worker \in [pc : WorkerPcs, action : {"none", "probe", "ingest", "rebuild"},
                      bundle : Bundle \cup {NoBundle}, fault : Faults, previous : Seq(Bundle),
                      outcome : {worker.outcome},
                      killedBy : {"none", "timer", "operator", "fault"},
                      reply : {worker.reply}]
      BY EmptySeq DEF IdleWorker, WorkerPcs, Faults, NoHead
    <2> QED BY <1>1, <2>1, <2>2, <2>3 DEF VaultTypeOK
  <1>3. worker.pc = "idle" /\ worker.action = "none"
    BY DEF IdleWorker
  <1>4. Shape
    BY <1>1, <1>3 DEF Shape, Preparing
  <1>5. BundlesOf(commits) \in Seq(Bundle) /\ Len(BundlesOf(commits)) = 0
    BY <1>1, BundlesOfCommits
  <1>6. BundlesOf(commits) = <<>>
    BY <1>5, EmptySeq
  <1>7. commits = Chained(BundlesOf(commits))
    <2>1. Chained(BundlesOf(commits)) \in Seq(Commit) /\ Len(Chained(BundlesOf(commits))) = 0
      BY <1>5, ChainedIsAChain
    <2> QED BY <2>1, EmptySeq
  <1>8. ExactHead /\ OfOneRun
    BY <1>1, <1>6 DEF ExactHead, OfOneRun, NoHead
  <1> QED BY <1>2, <1>3, <1>4, <1>7, <1>8 DEF VaultInv, Whole, Preparing

\* A history that is rewritten keeps its length, its order and its form.
LEMMA RewritingKeepsTheShape ==
  ASSUME VaultTypeOK, Shape, RewriteHistory, Len(anchors) <= PackLength, anchors \in Seq(Seq(Bundle))
  PROVE  /\ VaultTypeOK' /\ Shape' /\ Len(commits') = Len(commits)
         /\ \E i \in 1..Len(anchors) :
              i <= Len(commits) /\ commits'[i].bundle.source = Forged(i)
  <1> HIDE DEF Bundle
  <1> DEFINE b == BundlesOf(commits)
  <1>1. PICK i \in 1..Len(anchors) :
          /\ i <= Len(commits)
          /\ commits' = Chained([b EXCEPT ![i].source = Forged(i)])
          /\ selector' = SubSeq(TerminalHead(commits'), 1, Len(selector))
    BY DEF RewriteHistory
  <1> DEFINE r == [b EXCEPT ![i].source = Forged(i)]
  <1>2. /\ commits \in Seq(Commit) /\ selector \in Seq(Bundle) /\ b \in Seq(Bundle)
        /\ Len(b) = Len(commits) /\ i \in 1..Len(b) /\ Len(selector) <= Len(b)
        /\ \A k \in 1..Len(b) : b[k] = commits[k].bundle /\ b[k] \in Bundle
    BY <1>1, BundlesOfCommits DEF VaultTypeOK, Shape
  <1>3. \A k \in 1..Len(b) : b[k].order = k
    BY <1>2 DEF Shape
  <1> HIDE DEF b
  <1>4. Forged(i) \in Sources
    <2>1. i \in 1..PackLength
      BY BoundsAssumption, <1>1
    <2> QED BY <2>1, SourcesAssumption
  <1> DEFINE forged == [b[i] EXCEPT !.source = Forged(i)]
  <1>5. forged \in Bundle /\ forged.source = Forged(i) /\ forged.order = b[i].order
    <2> DEFINE runs == {RunOf(a, v) : a \in 1..4, v \in 1..(MaxEdits + 1)}
               orders == 1..(PackLength + DirectOrders)
    <2>1. Bundle = [run : runs, order : orders, source : Sources]
      BY DEF Bundle
    <2> HIDE DEF runs, orders
    <2> QED BY <1>2, <1>4, <2>1
  <1> HIDE DEF forged
  <1>6. r = [b EXCEPT ![i] = forged]
    BY <1>2 DEF forged
  <1>7. /\ r \in Seq(Bundle) /\ Len(r) = Len(b)
        /\ r[i] = forged
        /\ \A k \in 1..Len(b) : k # i => r[k] = b[k]
    <2> HIDE DEF r
    <2> QED BY <1>2, <1>5, <1>6, ExceptSeq
  <1>8. r[i].source = Forged(i) /\ \A k \in 1..Len(b) : r[k].order = k
    <2>1. r[i].source = Forged(i) /\ r[i].order = b[i].order
      BY <1>5, <1>7
    <2> QED BY <1>2, <1>3, <1>7, <2>1
  <1> HIDE DEF r
  <1>9. /\ commits' \in Seq(Commit) /\ Len(commits') = Len(b)
        /\ \A k \in 1..Len(b) : /\ commits'[k].bundle = r[k]
                                /\ commits'[k].previous = SubSeq(r, 1, k - 1)
                                /\ commits'[k].head = Append(commits'[k].previous, commits'[k].bundle)
                                /\ Len(commits'[k].previous) = k - 1
    <2>1. commits' = Chained(r)
      BY <1>1 DEF r, b
    <2>2. \A k \in 1..Len(r) : Len(SubSeq(r, 1, k - 1)) = k - 1
      <3> TAKE k \in 1..Len(r)
      <3>1. k - 1 \in 0..Len(r)
        BY <1>7
      <3> QED BY <1>7, <3>1, Beginning
    <2> QED BY <1>7, <2>1, <2>2, ChainedIsAChain, HeadsOfAChain
  <1>10. selector' \in Seq(Bundle) /\ Len(selector') = Len(selector)
    <2>1. TerminalHead(commits') = r
      BY <1>1, <1>7, HeadOfAChain DEF r, b
    <2>2. Len(selector) \in 0..Len(r)
      BY <1>2, <1>7
    <2> QED BY <1>1, <1>7, <2>1, <2>2, Beginning
  <1>11. worker' = worker /\ projection' = projection
    BY DEF RewriteHistory
  <1>12. VaultTypeOK'
    BY <1>9, <1>10, <1>11 DEF VaultTypeOK
  <1>13. Shape'
    BY <1>2, <1>8, <1>9, <1>10, <1>11 DEF Shape, Preparing
  <1> QED BY <1>1, <1>2, <1>8, <1>9, <1>12, <1>13

-----------------------------------------------------------------------------
(* The controller.                                                             *)

LEMMA RevealBundles ==
  ASSUME ControllerTypeOK, identity # 0, NEW k \in 1..PackLength
  PROVE  /\ RevealBundle(k) \in Bundle
         /\ RevealBundle(k).order = k
         /\ RevealBundle(k).source # Forged(k)
  <1>1. RunOf(attempt, identity) \in {RunOf(a, v) : a \in 1..4, v \in 1..(MaxEdits + 1)}
    <2>1. attempt \in 1..4 /\ identity \in 1..(MaxEdits + 1)
      BY BoundsAssumption DEF ControllerTypeOK
    <2> QED BY <2>1
  <1>2. PackOf(attempt) \in Packs /\ PackOf(attempt) # "forged"
    BY DEF PackOf, Packs
  <1>3. SourceOf(PackOf(attempt), k) \in Sources
    BY <1>2, SourcesAssumption
  <1>4. k \in 1..(PackLength + DirectOrders)
    BY BoundsAssumption
  <1>5. SourceOf(PackOf(attempt), k) # Forged(k)
    BY <1>2 DEF SourceOf, Forged
  <1> QED BY <1>1, <1>3, <1>4, <1>5 DEF RevealBundle, Bundle

\* The anchors are looked at: what was rewritten shows.
LEMMA TamperingShows ==
  ASSUME VaultTypeOK, Shape, ControllerTypeOK, Honest, pc # "failed", NEW tail \in Nat,
         AnchorsVerify(tail), identity # 0, Len(anchors) <= PackLength
  PROVE  rewrites = 0
  <1> HIDE DEF Bundle
  <1>1. SUFFICES ASSUME rewrites # 0 PROVE FALSE
    OBVIOUS
  <1>2. rewrites > 0
    BY <1>1 DEF ControllerTypeOK
  <1>3. PICK i \in 1..Len(anchors) : i <= Len(commits) /\ commits[i].bundle.source = Forged(i)
    BY <1>2 DEF Honest
  <1>4. anchors[i] = [k \in 1..i |-> RevealBundle(k)] /\ anchors[i] = commits[i].head
    BY DEF Honest, AnchorsVerify
  <1>5. /\ i \in 1..Len(commits) /\ i \in 1..PackLength /\ i \in 1..i
    BY <1>3, BoundsAssumption DEF ControllerTypeOK
  <1>6. /\ commits[i].head = Append(commits[i].previous, commits[i].bundle)
        /\ Len(commits[i].previous) = i - 1
    BY <1>5 DEF Shape
  <1>7. commits[i].previous \in Seq(Bundle) /\ commits[i].bundle \in Bundle
    <2>1. commits[i] \in Commit
      BY <1>5 DEF VaultTypeOK
    <2> QED BY <2>1 DEF Commit
  <1>8. commits[i].head[i] = commits[i].bundle
    BY <1>5, <1>6, <1>7
  <1>9. commits[i].bundle = RevealBundle(i)
    BY <1>4, <1>5, <1>8
  <1> QED BY <1>3, <1>5, <1>9, RevealBundles

\* Where the controller is determines how much is anchored.
LEMMA AnchoredSoFar ==
  ASSUME ControllerTypeOK, Place, Waiting
  PROVE  Len(anchors) <= PackLength /\ identity # 0
  <1>1. step \in 1..(PackLength + 1) /\ PackLength \in Nat \ {0}
    BY BoundsAssumption DEF ControllerTypeOK
  <1>2. CASE pc = "probing"
    BY <1>1, <1>2 DEF Place
  <1>3. CASE pc \in {"crashing", "ingesting"}
    BY <1>1, <1>3 DEF Place
  <1>4. CASE pc = "redelivering"
    BY <1>1, <1>4 DEF Place
  <1>5. CASE pc = "rebuilding"
    BY <1>1, <1>5 DEF Place
  <1> QED BY <1>2, <1>3, <1>4, <1>5 DEF Waiting

\* What a step of the controller does to the vault and to the worker.
LEMMA ControllerSteps ==
  ASSUME ControllerStep
  PROVE  /\ UNCHANGED <<driver, code, cancelled, rewrites>>
         /\ \/ UNCHANGED <<vaultVars, worker>>
            \/ UNCHANGED vaultVars /\ pc = "start" /\ worker' = Started("probe", NoBundle, "none")
            \/ UNCHANGED vaultVars /\ pc = "rebuild"
                 /\ worker' = Started("rebuild", NoBundle, "none")
            \/ UNCHANGED vaultVars /\ pc \in {"reveal", "crashing", "ingesting"}
                 /\ \E fault \in Faults : worker' = Started("ingest", RevealBundle(step), fault)
            \/ DiscardAttempt /\ commits' = <<>> /\ selector' = NoHead
                 /\ projection' = NoProjection /\ worker' = IdleWorker
  <1>1. "none" \in Faults /\ FaultAt(step) \in Faults
    BY DEF Faults, FaultAt
  <1> QED BY <1>1 DEF ControllerStep, BeginSession, StageRuntime, IdentifyRuntime, StartAttempt,
    EndProbe, RevealItem, ObserveCrash, EndIngest, EndRedelivery, BeginRebuild, EndRebuild,
    DiscardAttempt, WriteReport, Spawn, environmentVars

LEMMA ControllerKeepsTheVault ==
  ASSUME VaultInv, ControllerTypeOK, Place, Honest, driver = "controller", ControllerStep
  PROVE  VaultInv'
  <1> HIDE DEF Bundle
  <1>1. CASE UNCHANGED <<vaultVars, worker>>
    BY <1>1, ControllerSteps, RestingKeepsTheVault
  <1>2. CASE UNCHANGED vaultVars /\ worker' = Started("probe", NoBundle, "none")
    BY <1>2, ControllerSteps, StartingKeepsTheVault DEF Faults
  <1>3. CASE UNCHANGED vaultVars /\ worker' = Started("rebuild", NoBundle, "none")
    BY <1>3, ControllerSteps, StartingKeepsTheVault DEF Faults
  <1>4. ASSUME UNCHANGED vaultVars, pc \in {"reveal", "crashing", "ingesting"},
               NEW fault \in Faults, worker' = Started("ingest", RevealBundle(step), fault)
        PROVE  VaultInv'
    <2>1. step \in 1..PackLength /\ identity # 0
      BY <1>4, BoundsAssumption DEF ControllerTypeOK, Place
    <2>2. RevealBundle(step) \in Bundle
      BY <2>1, RevealBundles
    <2> QED BY <1>4, <2>2, ControllerSteps, StartingKeepsTheVault
  <1>5. CASE DiscardAttempt /\ commits' = <<>> /\ selector' = NoHead
               /\ projection' = NoProjection /\ worker' = IdleWorker
    <2>1. (commits = <<>> /\ selector = NoHead /\ projection = NoProjection
              /\ worker = IdleWorker => VaultInv)'
      BY EmptyVault, PTL
    <2>2. NoHead' = NoHead /\ NoProjection' = NoProjection /\ IdleWorker' = IdleWorker
      BY DEF NoHead, NoProjection, IdleWorker, NoBundle, NoReply
    <2> QED BY <1>5, <2>1, <2>2
  <1> QED BY <1>1, <1>2, <1>3, <1>4, <1>5, ControllerSteps

LEMMA ControllerKeepsItsTypes ==
  ASSUME VaultInv, ControllerTypeOK, Place, Honest, ControllerStep
  PROVE  ControllerTypeOK'
  <1> HIDE DEF Bundle
  <1>1. /\ attempt \in 1..4 /\ step \in 1..(PackLength + 1) /\ anchors \in Seq(Seq(Bundle))
        /\ code \in 1..(MaxEdits + 1) /\ staged \in Nat /\ identity \in 0..(MaxEdits + 1)
        /\ PackLength \in Nat \ {0} /\ MaxEdits \in Nat
    BY BoundsAssumption DEF ControllerTypeOK
  <1>2. UNCHANGED <<driver, code, cancelled, rewrites>>
    BY ControllerSteps
  <1>3. pc' \in ControllerPcs
    <2>1. CASE BeginSession \/ StageRuntime \/ IdentifyRuntime \/ StartAttempt \/ EndProbe
      BY <2>1 DEF BeginSession, StageRuntime, IdentifyRuntime, StartAttempt, EndProbe, Abandon,
        ControllerPcs
    <2>2. CASE RevealItem \/ ObserveCrash
      BY <2>2 DEF RevealItem, ObserveCrash, Abandon, ControllerPcs
    <2>3. CASE EndIngest \/ EndRedelivery
      BY <2>3 DEF EndIngest, EndRedelivery, NextItem, Abandon, ControllerPcs
    <2>4. CASE BeginRebuild \/ EndRebuild
      BY <2>4 DEF BeginRebuild, EndRebuild, Abandon, ControllerPcs
    <2>5. CASE DiscardAttempt \/ WriteReport
      BY <2>5 DEF DiscardAttempt, WriteReport, Abandon, ControllerPcs
    <2> QED BY <2>1, <2>2, <2>3, <2>4, <2>5 DEF ControllerStep
  <1>4. timedOut' \in BOOLEAN
    <2>1. timedOut' = timedOut \/ timedOut' = FALSE
      <3>1. CASE UNCHANGED timedOut
        BY <3>1
      <3>2. CASE StartAttempt \/ RevealItem
        BY <3>2 DEF StartAttempt, RevealItem, Spawn
      <3>3. CASE ObserveCrash
        BY <3>3 DEF ObserveCrash, Spawn
      <3>4. CASE EndIngest
        BY <3>4 DEF EndIngest, Spawn
      <3>5. CASE BeginRebuild
        BY <3>5 DEF BeginRebuild, Spawn
      <3> QED BY <3>1, <3>2, <3>3, <3>4, <3>5 DEF ControllerStep, BeginSession, StageRuntime,
            IdentifyRuntime, EndProbe, EndRedelivery, EndRebuild, DiscardAttempt, WriteReport,
            environmentVars
    <2>2. timedOut \in BOOLEAN
      BY DEF ControllerTypeOK
    <2> QED BY <2>1, <2>2
  <1>5. staged' \in Nat /\ identity' \in 0..(MaxEdits + 1)
    <2>1. staged' \in {staged, code} /\ identity' \in {identity, code}
      BY DEF ControllerStep, BeginSession, StageRuntime, IdentifyRuntime, StartAttempt,
        EndProbe, RevealItem, ObserveCrash, EndIngest, EndRedelivery, BeginRebuild, EndRebuild,
        DiscardAttempt, WriteReport
    <2> QED BY <1>1, <2>1
  <1>6. attempt' \in 1..4
    <2>1. CASE DiscardAttempt
      <3>1. attempt' = attempt \/ (attempt < 4 /\ attempt' = attempt + 1)
        BY <2>1 DEF DiscardAttempt
      <3> QED BY <1>1, <3>1
    <2>2. CASE ~DiscardAttempt
      <3>1. attempt' = attempt
        BY <2>2 DEF ControllerStep, BeginSession, StageRuntime, IdentifyRuntime, StartAttempt,
          EndProbe, RevealItem, ObserveCrash, EndIngest, EndRedelivery, BeginRebuild, EndRebuild,
          WriteReport
      <3> QED BY <1>1, <3>1
    <2> QED BY <2>1, <2>2
  <1>7. step' \in 1..(PackLength + 1)
    <2>1. step' = step \/ step' = 1
            \/ (pc \in {"ingesting", "redelivering"} /\ step' = step + 1)
      <3>1. CASE EndIngest
        BY <3>1 DEF EndIngest, NextItem
      <3>2. CASE EndRedelivery
        BY <3>2 DEF EndRedelivery, NextItem
      <3>3. CASE DiscardAttempt
        BY <3>3 DEF DiscardAttempt
      <3>4. CASE ~EndIngest /\ ~EndRedelivery /\ ~DiscardAttempt
        BY <3>4 DEF ControllerStep, BeginSession, StageRuntime, IdentifyRuntime, StartAttempt,
          EndProbe, RevealItem, ObserveCrash, BeginRebuild, EndRebuild, WriteReport
      <3> QED BY <3>1, <3>2, <3>3, <3>4
    <2>2. pc \in {"ingesting", "redelivering"} => step <= PackLength
      BY DEF Place
    <2> QED BY <1>1, <2>1, <2>2
  <1>8. anchors' \in Seq(Seq(Bundle))
    <2>1. \/ anchors' = anchors
          \/ anchors' = <<>>
          \/ pc = "ingesting" /\ AnchorsVerify(1) /\ Len(anchors) = step - 1
               /\ anchors' = Append(anchors, commits[step].head)
      BY DEF ControllerStep, BeginSession, StageRuntime, IdentifyRuntime, StartAttempt,
        EndProbe, RevealItem, ObserveCrash, EndIngest, EndRedelivery, BeginRebuild, EndRebuild,
        DiscardAttempt, WriteReport, CanAnchor
    <2>2. CASE anchors' = Append(anchors, commits[step].head) /\ AnchorsVerify(1)
                 /\ Len(anchors) = step - 1
      <3>1. step \in 1..Len(commits)
        BY <1>1, <2>2 DEF AnchorsVerify
      <3>2. commits[step].head \in Seq(Bundle)
        <4>1. commits[step] \in Commit
          BY <3>1 DEF VaultInv, VaultTypeOK
        <4> QED BY <4>1 DEF Commit
      <3> QED BY <1>1, <2>2, <3>2
    <2> QED BY <1>1, <2>1, <2>2, EmptySeq
  <1> QED BY <1>1, <1>2, <1>3, <1>4, <1>5, <1>6, <1>7, <1>8 DEF ControllerTypeOK

\* What the controller knows when it has looked at the anchors.
LEMMA EndOfAWorker ==
  ASSUME VaultInv, ControllerTypeOK, Place, Honest, Waiting, NEW tail \in Nat, AnchorsVerify(tail)
  PROVE  rewrites = 0 /\ Whole /\ Len(commits) = Len(anchors) + tail
  <1>1. pc # "failed"
    BY DEF Waiting
  <1>2. rewrites = 0
    BY <1>1, TamperingShows, AnchoredSoFar DEF VaultInv
  <1> QED BY <1>2 DEF VaultInv, AnchorsVerify

LEMMA ControllerKeepsItsPlace ==
  ASSUME VaultInv, ControllerTypeOK, Place, Honest, ControllerStep
  PROVE  Place'
  <1> HIDE DEF Bundle
  <1>1. /\ step \in 1..(PackLength + 1) /\ anchors \in Seq(Seq(Bundle))
        /\ code \in 1..(MaxEdits + 1) /\ PackLength \in Nat \ {0} /\ MaxEdits \in Nat
        /\ commits \in Seq(Commit)
    BY BoundsAssumption DEF ControllerTypeOK, VaultInv, VaultTypeOK
  <1>w. pc \notin {"probing", "crashing", "ingesting", "redelivering", "rebuilding"} => ~WorkerRuns
    BY DEF Place, Waiting
  <1>e. WorkerEnded => ~WorkerRuns
    BY DEF WorkerEnded, WorkerRuns
  <1>f. ASSUME pc' = "failed", ~WorkerRuns, worker' = worker PROVE Place'
    BY <1>f DEF Place, WorkerRuns
  <1>2. CASE BeginSession
    <2>1. CASE cancelled
      BY <1>2, <1>f, <1>w, <2>1 DEF BeginSession, Abandon
    <2>2. CASE ~cancelled
      BY <1>2, <1>w, <2>2 DEF BeginSession, Place, WorkerRuns, vaultVars
    <2> QED BY <2>1, <2>2
  <1>3. CASE StageRuntime
    <2>1. CASE cancelled
      BY <1>3, <1>f, <1>w, <2>1 DEF StageRuntime, Abandon
    <2>2. CASE ~cancelled
      BY <1>3, <1>w, <2>2 DEF StageRuntime, Place, WorkerRuns, vaultVars
    <2> QED BY <2>1, <2>2
  <1>4. CASE IdentifyRuntime
    <2>1. CASE staged # code
      BY <1>4, <1>f, <1>w, <2>1 DEF IdentifyRuntime, Abandon
    <2>2. CASE staged = code
      <3>1. identity' # 0 /\ step' <= PackLength
        BY <1>1, <1>4, <2>2 DEF IdentifyRuntime, Place
      <3> QED BY <1>4, <1>w, <2>2, <3>1 DEF IdentifyRuntime, Place, WorkerRuns, vaultVars
    <2> QED BY <2>1, <2>2
  <1>5. CASE StartAttempt
    <2>1. CASE ~AnchorsVerify(0)
      BY <1>5, <1>f, <1>w, <2>1 DEF StartAttempt, Abandon
    <2>2. CASE AnchorsVerify(0) /\ Primary(attempt)
      <3>1. pc' = "probing" /\ worker' = Started("probe", NoBundle, "none")
        BY <1>5, <2>2 DEF StartAttempt, Spawn
      <3>2. worker'.action = "probe"
        BY <3>1, StartedFields DEF Faults
      <3> QED BY <1>5, <3>1, <3>2 DEF StartAttempt, Place, Waiting, vaultVars
    <2>3. CASE AnchorsVerify(0) /\ ~Primary(attempt)
      <3>1. pc' = "reveal" /\ worker' = worker
        BY <1>5, <2>3 DEF StartAttempt
      <3>2. Len(anchors) = 0 /\ Len(commits) = 0 /\ step = 1
        BY <1>5, EmptySeq DEF StartAttempt, Place
      <3> QED BY <1>5, <1>w, <3>1, <3>2 DEF StartAttempt, Place, WorkerRuns, vaultVars
    <2> QED BY <2>1, <2>2, <2>3
  <1>6. CASE EndProbe
    <2>1. CASE pc' = "failed"
      BY <1>6, <1>e, <1>f, <2>1 DEF EndProbe
    <2>2. CASE pc' = "reveal"
      <3>1. Len(anchors) = 0 /\ Len(commits) = 0 /\ step = 1
        BY <1>6, EmptySeq DEF EndProbe, Place
      <3> QED BY <1>6, <1>e, <2>2, <3>1 DEF EndProbe, Place, WorkerRuns, vaultVars
    <2> QED BY <1>6, <2>1, <2>2 DEF EndProbe, Abandon
  <1>7. CASE RevealItem
    <2>1. CASE pc' = "failed"
      <3>1. worker' = worker
        BY <1>7, <2>1 DEF RevealItem, Abandon
      <3> QED BY <1>7, <1>w, <1>f, <2>1, <3>1 DEF RevealItem
    <2>2. CASE pc' \in {"crashing", "ingesting"}
      <3>1. worker' = Started("ingest", RevealBundle(step), FaultAt(step))
        BY <1>7, <2>2 DEF RevealItem, Spawn, Abandon
      <3>2. step \in 1..PackLength /\ identity # 0 /\ Len(anchors) = step - 1
            /\ Len(commits) = Len(anchors)
        BY <1>1, <1>7 DEF RevealItem, Place
      <3>3. RevealBundle(step) \in Bundle /\ FaultAt(step) \in Faults
        BY <3>2, RevealBundles DEF FaultAt, Faults
      <3>4. worker'.action = "ingest" /\ worker'.bundle = RevealBundle(step)
        BY <3>1, <3>3, StartedFields
      <3>5. RevealBundle(step)' = RevealBundle(step)
        BY <1>7 DEF RevealItem, RevealBundle, RunOf, PackOf, SourceOf
      <3>6. UNCHANGED <<commits, selector, anchors, step, identity, attempt>>
        BY <1>7 DEF RevealItem, vaultVars
      <3> QED BY <1>1, <2>2, <3>2, <3>4, <3>5, <3>6 DEF Place, Waiting
    <2> QED BY <1>7, <2>1, <2>2 DEF RevealItem, Abandon
  <1>8. CASE ObserveCrash
    <2>1. CASE pc' = "failed"
      <3>1. worker' = worker
        BY <1>8, <2>1 DEF ObserveCrash
      <3> QED BY <1>8, <1>e, <1>f, <2>1, <3>1 DEF ObserveCrash
    <2>2. CASE pc' = "ingesting"
      <3>1. worker' = Started("ingest", RevealBundle(step), "none")
        BY <1>8, <2>2 DEF ObserveCrash, Spawn, Abandon
      <3>2. /\ step \in 1..PackLength /\ identity # 0 /\ Len(anchors) = step - 1
            /\ Len(commits) \in {step - 1, step}
        BY <1>1, <1>8 DEF ObserveCrash, Place
      <3>3. RevealBundle(step) \in Bundle /\ "none" \in Faults
        BY <3>2, RevealBundles DEF Faults
      <3>4. worker'.action = "ingest" /\ worker'.bundle = RevealBundle(step)
        BY <3>1, <3>3, StartedFields
      <3>5. RevealBundle(step)' = RevealBundle(step)
        BY <1>8 DEF ObserveCrash, RevealBundle, RunOf, PackOf, SourceOf
      <3>6. UNCHANGED <<commits, selector, anchors, step, identity, attempt>>
        BY <1>8 DEF ObserveCrash, vaultVars
      <3> QED BY <1>1, <2>2, <3>2, <3>4, <3>5, <3>6 DEF Place, Waiting
    <2> QED BY <1>8, <2>1, <2>2 DEF ObserveCrash, Abandon
  <1>9. CASE EndIngest
    <2>1. CASE pc' = "failed"
      <3>1. worker' = worker
        BY <1>9, <2>1 DEF EndIngest, NextItem, Abandon
      <3> QED BY <1>9, <1>e, <1>f, <2>1, <3>1 DEF EndIngest
    <2>2. CASE pc' # "failed"
      <3>1. /\ step \in 1..PackLength /\ identity # 0
            /\ Len(anchors) = step - 1 /\ Len(commits) = step
            /\ UNCHANGED <<commits, selector, identity, attempt>>
            /\ anchors' = Append(anchors, commits[step].head)
        <4>1. CanAnchor(step) /\ anchors' = Append(anchors, commits[step].head)
          BY <1>9, <2>2 DEF EndIngest, Abandon
        <4>2. step \in 1..PackLength /\ identity # 0
          BY <1>1, <1>9 DEF EndIngest, Place
        <4>3. Len(anchors) = step - 1 /\ Len(commits) = step
          BY <1>1, <4>1, <4>2 DEF CanAnchor, AnchorsVerify
        <4> QED BY <1>9, <4>1, <4>2, <4>3 DEF EndIngest, vaultVars
      <3>2. Len(anchors') = step
        BY <1>1, <3>1
      <3>3. CASE step = 2
        <4>1. /\ pc' = "redelivering" /\ step' = step
              /\ worker' = Started("ingest", RevealBundle(step), "none")
          BY <1>9, <2>2, <3>3 DEF EndIngest, Spawn, Abandon
        <4>2. worker'.action = "ingest" /\ worker'.bundle = RevealBundle(step)
          BY <3>1, <4>1, RevealBundles, StartedFields DEF Faults
        <4>3. RevealBundle(step)' = RevealBundle(step)
          BY <3>1, <4>1 DEF RevealBundle, RunOf, PackOf, SourceOf
        <4> QED BY <1>1, <3>1, <3>2, <4>1, <4>2, <4>3 DEF Place, Waiting
      <3>4. CASE step # 2
        <4>1. /\ pc' = (IF step < PackLength THEN "reveal" ELSE "rebuild")
              /\ step' = step + 1 /\ worker' = worker /\ ~WorkerRuns
          BY <1>9, <1>e, <2>2, <3>4 DEF EndIngest, NextItem, Abandon
        <4>2. ~WorkerRuns'
          BY <4>1 DEF WorkerRuns
        <4>3. CASE step < PackLength
          BY <1>1, <3>1, <3>2, <4>1, <4>2, <4>3 DEF Place
        <4>4. CASE ~(step < PackLength)
          BY <1>1, <3>1, <3>2, <4>1, <4>2, <4>4 DEF Place
        <4> QED BY <4>3, <4>4
      <3> QED BY <3>3, <3>4
    <2> QED BY <2>1, <2>2
  <1>10. CASE EndRedelivery
    <2>1. CASE pc' = "failed"
      BY <1>10, <1>e, <1>f, <2>1 DEF EndRedelivery
    <2>2. CASE pc' # "failed"
      <3>1. /\ step \in 1..PackLength /\ identity # 0 /\ Len(anchors) = step
            /\ Len(commits) = Len(anchors)
            /\ UNCHANGED <<commits, selector, identity, attempt, anchors>>
        BY <1>1, <1>10 DEF EndRedelivery, Place, vaultVars
      <3>2. /\ pc' = (IF step < PackLength THEN "reveal" ELSE "rebuild")
            /\ step' = step + 1 /\ worker' = worker /\ ~WorkerRuns
        BY <1>10, <1>e, <2>2 DEF EndRedelivery, NextItem, Abandon
      <3>3. ~WorkerRuns'
        BY <3>2 DEF WorkerRuns
      <3>4. CASE step < PackLength
        BY <1>1, <3>1, <3>2, <3>3, <3>4 DEF Place
      <3>5. CASE ~(step < PackLength)
        BY <1>1, <3>1, <3>2, <3>3, <3>5 DEF Place
      <3> QED BY <3>4, <3>5
    <2> QED BY <2>1, <2>2
  <1>11. CASE BeginRebuild
    <2>1. CASE pc' = "failed"
      <3>1. worker' = worker
        BY <1>11, <2>1 DEF BeginRebuild
      <3> QED BY <1>11, <1>w, <1>f, <2>1, <3>1 DEF BeginRebuild
    <2>2. CASE pc' = "rebuilding"
      <3>1. worker' = Started("rebuild", NoBundle, "none")
        BY <1>11, <2>2 DEF BeginRebuild, Spawn, Abandon
      <3>2. worker'.action = "rebuild"
        BY <3>1, StartedFields DEF Faults
      <3> QED BY <1>11, <2>2, <3>2 DEF BeginRebuild, Place, Waiting, vaultVars
    <2> QED BY <1>11, <2>1, <2>2 DEF BeginRebuild, Abandon
  <1>12. CASE EndRebuild
    <2>1. CASE pc' = "failed"
      BY <1>12, <1>e, <1>f, <2>1 DEF EndRebuild
    <2>2. CASE pc' # "failed"
      <3>1. Answered /\ AnchorsVerify(0) /\ pc' = "attempted"
        BY <1>12, <2>2 DEF EndRebuild, Abandon
      <3>2. Waiting /\ worker.action = "rebuild" /\ worker.pc = "exited"
        BY <1>12, <3>1 DEF EndRebuild, Waiting, Place, Answered
      <3>3. rewrites = 0 /\ Whole
        BY <3>1, <3>2, EndOfAWorker
      <3>4. ExactHead
        BY <3>2, <3>3 DEF Whole, RightAnswer
      <3>5. ExactHead' /\ rewrites' = 0
        BY <1>12, <3>3, <3>4, ControllerSteps DEF EndRebuild, ExactHead, vaultVars
      <3>6. ~WorkerRuns' /\ UNCHANGED <<commits, selector, anchors, step, identity, attempt, worker>>
        BY <1>12, <1>e DEF EndRebuild, WorkerRuns, vaultVars
      <3> QED BY <1>12, <3>1, <3>5, <3>6 DEF EndRebuild, Place
    <2> QED BY <2>1, <2>2
  <1>13. CASE DiscardAttempt
    <2>1. CASE pc' = "failed"
      <3>1. worker' = worker
        BY <1>13, <2>1 DEF DiscardAttempt
      <3> QED BY <1>13, <1>w, <1>f, <2>1, <3>1 DEF DiscardAttempt
    <2>2. CASE pc' # "failed"
      <3>1. /\ commits' = <<>> /\ selector' = NoHead /\ worker' = IdleWorker
            /\ anchors' = <<>> /\ step' = 1 /\ pc' \in {"stage", "report"}
        BY <1>13, <2>2 DEF DiscardAttempt, Abandon
      <3>2. ~WorkerRuns' /\ NoHead' = NoHead
        BY <3>1 DEF WorkerRuns, IdleWorker, NoHead
      <3> QED BY <3>1, <3>2 DEF Place
    <2> QED BY <2>1, <2>2
  <1>14. CASE WriteReport
    <2>1. ~WorkerRuns' /\ pc' \in {"passed", "failed"}
      BY <1>14, <1>w DEF WriteReport, WorkerRuns, Abandon
    <2> QED BY <2>1 DEF Place
  <1> QED BY <1>2, <1>3, <1>4, <1>5, <1>6, <1>7, <1>8, <1>9, <1>10, <1>11, <1>12, <1>13, <1>14
        DEF ControllerStep

LEMMA HonestStays ==
  ASSUME Honest, UNCHANGED <<anchors, commits, identity, attempt, rewrites>>,
         rewrites = 0 \/ pc' = "failed"
  PROVE  Honest'
  <1>1. \A k : RevealBundle(k)' = RevealBundle(k)
    BY DEF RevealBundle, RunOf, PackOf, SourceOf
  <1>2. CASE pc' = "failed"
    BY <1>1, <1>2 DEF Honest
  <1>3. CASE rewrites = 0
    BY <1>1, <1>3 DEF Honest
  <1> QED BY <1>2, <1>3

LEMMA ControllerStaysHonest ==
  ASSUME VaultInv, ControllerTypeOK, Place, Honest, ControllerStep
  PROVE  Honest'
  <1> HIDE DEF Bundle
  <1>1. /\ step \in 1..(PackLength + 1) /\ anchors \in Seq(Seq(Bundle)) /\ rewrites \in Nat
        /\ PackLength \in Nat \ {0} /\ commits \in Seq(Commit) /\ rewrites' = rewrites
    BY BoundsAssumption, ControllerSteps DEF ControllerTypeOK, VaultInv, VaultTypeOK
  <1>2. rewrites # 0 => pc = "failed" \/ Waiting
    BY <1>1 DEF Honest
  <1>3. CASE BeginSession \/ StageRuntime \/ StartAttempt \/ RevealItem \/ BeginRebuild \/ WriteReport
    <2>1. rewrites = 0
      BY <1>2, <1>3 DEF BeginSession, StageRuntime, StartAttempt, RevealItem, BeginRebuild,
        WriteReport, Waiting
    <2> QED BY <1>1, <1>3, <2>1, HonestStays DEF BeginSession, StageRuntime, StartAttempt,
          RevealItem, BeginRebuild, WriteReport, vaultVars
  <1>4. CASE IdentifyRuntime
    <2>1. rewrites = 0 /\ anchors = <<>> /\ commits = <<>>
      BY <1>2, <1>4 DEF IdentifyRuntime, Waiting, Place
    <2>2. Len(anchors') = 0 /\ Len(commits') = 0 /\ rewrites' = 0
      BY <1>1, <1>4, <2>1, EmptySeq DEF IdentifyRuntime, vaultVars
    <2> QED BY <2>2 DEF Honest
  <1>5. CASE EndProbe
    <2>1. UNCHANGED <<anchors, commits, identity, attempt>>
      BY <1>5 DEF EndProbe, vaultVars
    <2>2. rewrites = 0
      <3>1. Len(anchors) = 0
        BY <1>5, EmptySeq DEF EndProbe, Place
      <3>2. pc # "failed"
        BY <1>5 DEF EndProbe
      <3> QED BY <1>1, <3>1, <3>2 DEF Honest
    <2> QED BY <1>1, <2>1, <2>2, HonestStays
  <1>6. CASE ObserveCrash
    <2>1. UNCHANGED <<anchors, commits, identity, attempt>>
      BY <1>6 DEF ObserveCrash, vaultVars
    <2>2. pc' # "failed" => rewrites = 0
      <3>1. pc' # "failed" => Waiting /\ \E tail \in Nat : AnchorsVerify(tail)
        BY <1>6 DEF ObserveCrash, Abandon, Waiting
      <3> QED BY <3>1, EndOfAWorker
    <2> QED BY <1>1, <2>1, <2>2, HonestStays
  <1>7. CASE EndRedelivery \/ EndRebuild
    <2>1. UNCHANGED <<anchors, commits, identity, attempt>>
      BY <1>7 DEF EndRedelivery, EndRebuild, vaultVars
    <2>2. pc' # "failed" => rewrites = 0
      <3>1. pc' # "failed" => Waiting /\ AnchorsVerify(0)
        BY <1>7 DEF EndRedelivery, EndRebuild, Abandon, Waiting
      <3> QED BY <3>1, EndOfAWorker
    <2> QED BY <1>1, <2>1, <2>2, HonestStays
  <1>8. CASE EndIngest
    <2>1. CASE ~(/\ CanAnchor(step) /\ anchors' = Append(anchors, commits[step].head))
      <3>1. UNCHANGED <<anchors, commits, identity, attempt>> /\ pc' = "failed"
        BY <1>8, <2>1 DEF EndIngest, vaultVars, Abandon
      <3> QED BY <1>1, <3>1, HonestStays
    <2>2. CASE CanAnchor(step) /\ anchors' = Append(anchors, commits[step].head)
      <3>1. rewrites = 0 /\ Whole
        BY <1>8, <2>2, EndOfAWorker DEF EndIngest, CanAnchor, Waiting
      <3>2. /\ step \in 1..PackLength /\ identity # 0 /\ Len(anchors) = step - 1
            /\ Len(commits) = step /\ commits' = commits /\ identity' = identity
            /\ attempt' = attempt
        <4>1. step \in 1..PackLength /\ identity # 0
          BY <1>1, <1>8 DEF EndIngest, Place
        <4>2. Len(anchors) = step - 1 /\ Len(commits) = step
          BY <1>1, <2>2, <4>1 DEF CanAnchor, AnchorsVerify
        <4> QED BY <1>8, <4>1, <4>2 DEF EndIngest, vaultVars
      <3>3. \A k : RevealBundle(k)' = RevealBundle(k)
        BY <3>2 DEF RevealBundle, RunOf, PackOf, SourceOf
      <3>4. \A k \in 1..step : commits[k].bundle = RevealBundle(k)
        BY <3>1, <3>2 DEF Honest
      <3>5. commits[step].head = [k \in 1..step |-> RevealBundle(k)]
        <4> DEFINE b == BundlesOf(commits)
        <4>1. /\ b \in Seq(Bundle) /\ Len(b) = step
              /\ \A k \in 1..step : b[k] = RevealBundle(k)
          BY <1>1, <3>2, <3>4, BundlesOfCommits
        <4>2. commits = Chained(b)
          BY <3>1 DEF Whole
        <4> HIDE DEF b
        <4>3. commits[step].head = b
          <5>1. step \in 1..Len(b)
            BY <3>2, <4>1
          <5>2. Chained(b)[step].head = SubSeq(b, 1, step)
            BY <4>1, <5>1, ChainedIsAChain
          <5> QED BY <4>1, <4>2, <5>2, WholeBeginning
        <4>4. b = [k \in 1..step |-> RevealBundle(k)]
          BY <4>1
        <4> QED BY <4>3, <4>4
      <3>6. commits[step].head \in Seq(Bundle)
        <4>1. commits[step] \in Commit
          BY <1>1, <3>2
        <4> QED BY <4>1 DEF Commit
      <3>7. /\ Len(anchors') = step /\ anchors'[step] = commits[step].head
            /\ \A i \in 1..(step - 1) : anchors'[i] = anchors[i]
        BY <1>1, <2>2, <3>2, <3>6
      <3>8. \A i \in 1..Len(anchors') : anchors'[i] = [k \in 1..i |-> RevealBundle(k)']
        <4>1. SUFFICES ASSUME NEW i \in 1..step
                       PROVE  anchors'[i] = [k \in 1..i |-> RevealBundle(k)']
          BY <3>7
        <4>2. CASE i = step
          BY <3>3, <3>5, <3>7, <4>2
        <4>3. CASE i # step
          <5>1. i \in 1..(step - 1) /\ i \in 1..Len(anchors)
            BY <3>2, <4>3
          <5>2. anchors'[i] = anchors[i] /\ anchors[i] = [k \in 1..i |-> RevealBundle(k)]
            BY <3>7, <5>1 DEF Honest
          <5> QED BY <3>3, <5>2
        <4> QED BY <4>2, <4>3
      <3>9. \A i \in 1..Len(commits') : commits'[i].bundle = RevealBundle(i)'
        BY <3>2, <3>3, <3>4
      <3> QED BY <1>1, <3>1, <3>8, <3>9 DEF Honest
    <2> QED BY <2>1, <2>2
  <1>9. CASE DiscardAttempt
    <2>1. rewrites = 0
      BY <1>9 DEF DiscardAttempt, Place
    <2>2. CASE pc' = "failed"
      <3>1. UNCHANGED <<anchors, commits, identity, attempt>>
        BY <1>9, <2>2 DEF DiscardAttempt, vaultVars
      <3> QED BY <1>1, <2>1, <3>1, HonestStays
    <2>3. CASE pc' # "failed"
      <3>1. Len(anchors') = 0 /\ Len(commits') = 0 /\ rewrites' = 0
        BY <1>1, <1>9, <2>1, <2>3, EmptySeq DEF DiscardAttempt, Abandon
      <3> QED BY <3>1 DEF Honest
    <2> QED BY <2>2, <2>3
  <1> QED BY <1>3, <1>4, <1>5, <1>6, <1>7, <1>8, <1>9 DEF ControllerStep

LEMMA ControllerCountsCrashes ==
  ASSUME VaultInv, ControllerTypeOK, Place, Crashes, ControllerStep
  PROVE  Crashes'
  <1> HIDE DEF Bundle
  <1>1. /\ step \in 1..(PackLength + 1) /\ PackLength \in Nat \ {0}
        /\ cancelled' = cancelled
    BY BoundsAssumption, ControllerSteps DEF ControllerTypeOK
  <1> DEFINE Killers == worker.pc = "killed" =>
               /\ worker.killedBy \in {"timer", "operator", "fault"}
               /\ worker.killedBy = "timer" => timedOut
               /\ worker.killedBy = "operator" => cancelled
             ByFault == \/ \A i \in 1..Len(crashes) : crashes[i].by = "fault"
                        \/ cancelled /\ pc # "attempted"
             Typed == \E S : crashes \in Seq(S)
             Counted ==
               /\ pc \in {"begin", "stage", "identify", "start", "probing"} => crashes = <<>>
               /\ pc = "crashing" => FaultAt(step) # "none"
               /\ pc \in {"ingesting", "redelivering"} =>
                    Len(crashes) = IF Primary(attempt) THEN FaultsUpTo(step) ELSE 0
               /\ pc \in {"reveal", "crashing"} =>
                    Len(crashes) = IF Primary(attempt) THEN FaultsUpTo(step - 1) ELSE 0
               /\ pc \in {"rebuild", "rebuilding", "attempted"} =>
                    Len(crashes) = IF Primary(attempt) THEN FaultsUpTo(PackLength) ELSE 0
  <1>2. Killers /\ ByFault /\ Typed /\ Counted
    BY DEF Crashes
  <1>3. Killers'
    <2>1. CASE worker' = worker /\ timedOut' = timedOut
      BY <1>1, <1>2, <2>1
    <2>2. CASE \E action \in {"probe", "ingest", "rebuild"}, bundle \in Bundle \cup {NoBundle},
                  fault \in Faults : worker' = Started(action, bundle, fault)
      <3>1. worker'.pc \in {"wipe", "reply", "load"}
        BY <2>2, StartedFields
      <3> QED BY <3>1
    <2>3. CASE worker' = IdleWorker
      BY <2>3 DEF IdleWorker
    <2>4. CASE StartAttempt
      BY <2>4, <2>1, <2>2 DEF StartAttempt, Spawn, Faults
    <2>5. CASE RevealItem \/ ObserveCrash \/ EndIngest
      <3>1. pc \in {"reveal", "crashing", "ingesting"}
        BY <2>5 DEF RevealItem, ObserveCrash, EndIngest
      <3>2. step \in 1..PackLength /\ identity # 0
        BY <1>1, <3>1 DEF Place
      <3>3. RevealBundle(step) \in Bundle /\ FaultAt(step) \in Faults /\ "none" \in Faults
        BY <3>2, RevealBundles DEF Faults, FaultAt
      <3>4. CASE RevealItem
        BY <3>3, <3>4, <2>1, <2>2 DEF RevealItem, Spawn
      <3>5. CASE ObserveCrash
        BY <3>3, <3>5, <2>1, <2>2 DEF ObserveCrash, Spawn
      <3>6. CASE EndIngest
        BY <3>3, <3>6, <2>1, <2>2 DEF EndIngest, Spawn
      <3> QED BY <2>5, <3>4, <3>5, <3>6
    <2>6. CASE BeginRebuild
      BY <2>6, <2>1, <2>2 DEF BeginRebuild, Spawn, Faults
    <2>7. CASE DiscardAttempt
      BY <2>7, <2>1, <2>3 DEF DiscardAttempt, environmentVars
    <2> QED BY <2>1, <2>4, <2>5, <2>6, <2>7 DEF ControllerStep, BeginSession, StageRuntime,
          IdentifyRuntime, EndProbe, EndRedelivery, EndRebuild, WriteReport, environmentVars
  <1>4. CASE ObserveCrash /\ pc' # "failed"
    <2>1. /\ StoppedBySignal /\ worker.pc = "killed"
          /\ crashes' = Append(crashes, [fault |-> FaultAt(step), by |-> worker.killedBy])
          /\ pc' = "ingesting" /\ pc = "crashing" /\ step' = step /\ attempt' = attempt
      BY <1>4 DEF ObserveCrash, Abandon, StoppedBySignal
    <2>2. worker.killedBy = "fault" \/ cancelled
      BY <1>2, <2>1 DEF StoppedBySignal
    <2> DEFINE observed == [fault |-> FaultAt(step), by |-> worker.killedBy]
    <2>3. PICK S : crashes \in Seq(S)
      BY <1>2
    <2>4. /\ crashes' \in Seq(S \cup {observed})
          /\ Len(crashes') = Len(crashes) + 1 /\ crashes'[Len(crashes) + 1] = observed
          /\ \A i \in 1..Len(crashes) : crashes'[i] = crashes[i]
      <3>1. crashes \in Seq(S \cup {observed}) /\ observed \in S \cup {observed}
        BY <2>3, SeqMonotonic
      <3> HIDE DEF observed
      <3> QED BY <2>1, <3>1, AppendProperties DEF observed
    <2>5. ByFault'
      <3>1. CASE cancelled
        BY <1>1, <2>1, <3>1
      <3>2. CASE ~cancelled
        <4>1. \A i \in 1..Len(crashes) : crashes[i].by = "fault"
          BY <1>2, <3>2
        <4>2. observed.by = "fault"
          BY <2>2, <3>2
        <4> HIDE DEF observed
        <4>3. Len(crashes) \in Nat
          BY <2>3
        <4> QED BY <2>4, <4>1, <4>2, <4>3
      <3> QED BY <3>1, <3>2
    <2>6. Primary(attempt) /\ step \in {3, 4}
      <3>1. FaultAt(step) # "none"
        BY <1>2, <2>1
      <3> QED BY <3>1 DEF FaultAt
    <2>7. Len(crashes') = IF Primary(attempt) THEN FaultsUpTo(step) ELSE 0
      <3>1. Len(crashes) = FaultsUpTo(step - 1)
        BY <1>2, <2>1, <2>6
      <3> QED BY <2>4, <2>6, <3>1 DEF FaultsUpTo
    <2>8. Counted'
      BY <2>1, <2>7 DEF Primary
    <2>9. Typed'
      BY <2>4
    <2> QED BY <1>3, <2>5, <2>8, <2>9 DEF Crashes
  <1>5. CASE pc' = "failed" /\ crashes' = crashes
    <2>1. ByFault'
      BY <1>1, <1>2, <1>5
    <2> QED BY <1>2, <1>3, <1>5, <2>1 DEF Crashes
  <1>6. ASSUME crashes' = crashes, pc' # "attempted" \/ ~cancelled PROVE ByFault' /\ Typed'
    BY <1>1, <1>2, <1>6
  <1>7. CASE BeginSession \/ StageRuntime \/ IdentifyRuntime \/ StartAttempt \/ EndProbe
    <2>1. /\ crashes' = crashes /\ crashes = <<>>
          /\ pc' \in {"stage", "identify", "start", "probing", "reveal", "failed"}
          /\ pc' = "reveal" => step' = 1
      BY <1>2, <1>7 DEF BeginSession, StageRuntime, IdentifyRuntime, StartAttempt, EndProbe,
        Abandon, Place
    <2>2. Counted'
      <3>1. Len(crashes') = 0
        BY <2>1, EmptySeq
      <3> QED BY <2>1, <3>1 DEF FaultsUpTo
    <2>3. ByFault' /\ Typed'
      BY <1>6, <2>1
    <2> QED BY <1>3, <2>2, <2>3 DEF Crashes
  <1>8. CASE RevealItem /\ pc' # "failed"
    <2>1. /\ crashes' = crashes /\ step' = step /\ attempt' = attempt /\ pc = "reveal"
          /\ pc' = IF FaultAt(step) = "none" THEN "ingesting" ELSE "crashing"
          /\ step <= PackLength
      BY <1>8 DEF RevealItem, Abandon, Place
    <2>2. FaultAt(step)' = FaultAt(step) /\ Primary(attempt)' = Primary(attempt)
      BY <2>1 DEF FaultAt, Primary
    <2>3. Len(crashes) = IF Primary(attempt) THEN FaultsUpTo(step - 1) ELSE 0
      BY <1>2, <2>1
    <2>4. FaultAt(step) = "none" => ~Primary(attempt) \/ step \notin {3, 4}
      BY DEF FaultAt
    <2>5. FaultAt(step) = "none" =>
            Len(crashes) = IF Primary(attempt) THEN FaultsUpTo(step) ELSE 0
      BY <1>1, <2>3, <2>4 DEF FaultsUpTo
    <2>6. Counted'
      BY <2>1, <2>2, <2>3, <2>5
    <2>7. ByFault' /\ Typed'
      BY <1>6, <2>1
    <2> QED BY <1>3, <2>6, <2>7 DEF Crashes
  <1>9. CASE (EndIngest \/ EndRedelivery) /\ pc' # "failed"
    <2>1. /\ crashes' = crashes /\ attempt' = attempt /\ pc \in {"ingesting", "redelivering"}
          /\ step <= PackLength
          /\ \/ pc' = "redelivering" /\ step' = step
             \/ pc' = "reveal" /\ step' = step + 1
             \/ pc' = "rebuild" /\ ~(step < PackLength)
      <3>1. CASE EndIngest
        BY <1>9, <3>1 DEF EndIngest, NextItem, Abandon, Place
      <3>2. CASE EndRedelivery
        BY <1>9, <3>2 DEF EndRedelivery, NextItem, Abandon, Place
      <3> QED BY <1>9, <3>1, <3>2
    <2>2. Len(crashes) = IF Primary(attempt) THEN FaultsUpTo(step) ELSE 0
      BY <1>2, <2>1
    <2>3. Primary(attempt)' = Primary(attempt)
      BY <2>1 DEF Primary
    <2>4. Counted'
      <3>1. CASE pc' = "redelivering" /\ step' = step
        BY <2>1, <2>2, <2>3, <3>1
      <3>2. CASE pc' = "reveal" /\ step' = step + 1
        <4>1. step' - 1 = step
          BY <1>1, <3>2
        <4> QED BY <2>1, <2>2, <2>3, <3>2, <4>1
      <3>3. CASE pc' = "rebuild" /\ ~(step < PackLength)
        <4>1. step = PackLength
          BY <1>1, <2>1, <3>3
        <4> QED BY <2>1, <2>2, <2>3, <3>3, <4>1
      <3> QED BY <2>1, <3>1, <3>2, <3>3
    <2>5. ByFault' /\ Typed'
      BY <1>6, <2>1
    <2> QED BY <1>3, <2>4, <2>5 DEF Crashes
  <1>10. CASE (BeginRebuild \/ EndRebuild) /\ pc' # "failed"
    <2>1. /\ crashes' = crashes /\ attempt' = attempt /\ pc \in {"rebuild", "rebuilding"}
          /\ pc' = "rebuilding" \/ (pc' = "attempted" /\ ~cancelled)
      BY <1>10 DEF BeginRebuild, EndRebuild, Abandon
    <2>2. Primary(attempt)' = Primary(attempt)
      BY <2>1 DEF Primary
    <2>3. Counted'
      BY <1>2, <2>1, <2>2
    <2>4. ByFault' /\ Typed'
      BY <1>6, <2>1
    <2> QED BY <1>3, <2>3, <2>4 DEF Crashes
  <1>11. CASE (DiscardAttempt \/ WriteReport) /\ pc' # "failed"
    <2>1. \/ crashes' = <<>> /\ pc' = "stage"
          \/ crashes' = crashes /\ pc' \in {"report", "passed"}
      BY <1>11 DEF DiscardAttempt, WriteReport, Abandon
    <2>2. ByFault' /\ Typed'
      <3>1. CASE crashes' = <<>>
        <4>1. Len(crashes') = 0 /\ crashes' \in Seq({})
          BY <3>1, EmptySeq
        <4> QED BY <4>1
      <3>2. CASE crashes' = crashes
        BY <1>6, <2>1, <3>1, <3>2
      <3> QED BY <2>1, <3>1, <3>2
    <2>3. Counted'
      BY <2>1
    <2> QED BY <1>3, <2>2, <2>3 DEF Crashes
  <1>12. pc' = "failed" => crashes' = crashes
    BY DEF ControllerStep, BeginSession, StageRuntime, IdentifyRuntime, StartAttempt,
      EndProbe, RevealItem, ObserveCrash, EndIngest, EndRedelivery, BeginRebuild, EndRebuild,
      DiscardAttempt, WriteReport
  <1> QED BY <1>4, <1>5, <1>7, <1>8, <1>9, <1>10, <1>11, <1>12 DEF ControllerStep

LEMMA ControllerComparesIdentities ==
  ASSUME ControllerTypeOK, Identities, ControllerStep
  PROVE  Identities'
  <1> HIDE DEF Bundle
  <1>1. attempt \in 1..4
    BY DEF ControllerTypeOK
  <1>2. PICK S : results \in Seq(S)
    BY DEF Identities
  <1>3. CASE pc' = "failed"
    <2>1. results' = results
      BY <1>3 DEF ControllerStep, BeginSession, StageRuntime, IdentifyRuntime, StartAttempt,
        EndProbe, RevealItem, ObserveCrash, EndIngest, EndRedelivery, BeginRebuild, EndRebuild,
        DiscardAttempt, WriteReport
    <2> QED BY <1>2, <1>3, <2>1 DEF Identities
  <1>4. CASE BeginSession \/ StageRuntime \/ IdentifyRuntime \/ StartAttempt \/ EndProbe
             \/ RevealItem \/ ObserveCrash
    <2>1. /\ results' = results /\ attempt' = attempt
          /\ pc \in {"begin", "stage", "identify", "start", "probing", "reveal", "crashing"}
          /\ pc' \notin {"attempted", "report", "passed"}
      BY <1>4 DEF BeginSession, StageRuntime, IdentifyRuntime, StartAttempt, EndProbe, RevealItem,
        ObserveCrash, Abandon
    <2> QED BY <1>1, <1>2, <2>1 DEF Identities
  <1>5. CASE EndIngest \/ EndRedelivery \/ BeginRebuild
    <2>1. /\ results' = results /\ attempt' = attempt
          /\ pc \in {"ingesting", "redelivering", "rebuild"}
          /\ pc' \notin {"attempted", "report", "passed"}
      <3>1. CASE EndIngest
        BY <3>1 DEF EndIngest, NextItem, Abandon
      <3>2. CASE EndRedelivery
        BY <3>2 DEF EndRedelivery, NextItem, Abandon
      <3>3. CASE BeginRebuild
        BY <3>3 DEF BeginRebuild, Abandon
      <3> QED BY <1>5, <3>1, <3>2, <3>3
    <2> QED BY <1>1, <1>2, <2>1 DEF Identities
  <1>6. CASE EndRebuild /\ pc' # "failed"
    <2> DEFINE new == [identity |-> identity, head |-> worker.reply.head,
                       projection |-> worker.reply.projection]
    <2>1. /\ RuntimeUnchanged /\ results' = Append(results, new) /\ pc' = "attempted"
          /\ attempt' = attempt /\ pc = "rebuilding" /\ staged' = staged /\ identity' = identity
      BY <1>6 DEF EndRebuild, Abandon
    <2>2. /\ results' \in Seq(S \cup {new}) /\ Len(results') = Len(results) + 1
          /\ \A i \in 1..Len(results) : results'[i] = results[i]
      <3>1. results \in Seq(S \cup {new}) /\ new \in S \cup {new}
        BY <1>2, SeqMonotonic
      <3> HIDE DEF new
      <3> QED BY <2>1, <3>1, AppendProperties
    <2>3. Len(results) = attempt - 1
      BY <2>1 DEF Identities
    <2>4. attempt > 2 => results'[2] = results'[1]
      <3>1. attempt > 2 => results[2] = results[1]
        BY <2>1 DEF Identities
      <3> QED BY <1>1, <2>2, <2>3, <3>1
    <2>5. Len(results') = attempt
      BY <1>1, <2>2, <2>3
    <2>6. staged' = identity'
      BY <2>1 DEF RuntimeUnchanged
    <2>7. \E T : results' \in Seq(T)
      BY <2>2
    <2> QED BY <2>1, <2>4, <2>5, <2>6, <2>7 DEF Identities
  <1>7. CASE DiscardAttempt /\ pc' # "failed"
    <2>1. /\ ResultStands(attempt) /\ results' = results /\ session' = session
          /\ pc = "attempted"
          /\ IF attempt < 4 THEN pc' = "stage" /\ attempt' = attempt + 1
             ELSE pc' = "report" /\ attempt' = attempt
      BY <1>7 DEF DiscardAttempt, Abandon
    <2>2. Len(results) = attempt
      BY <2>1 DEF Identities
    <2>3. attempt > 1 => results[2] = results[1]
      <3>1. CASE attempt = 2
        BY <2>1, <3>1 DEF ResultStands
      <3>2. CASE attempt > 2
        BY <2>1, <3>2 DEF Identities
      <3> QED BY <1>1, <3>1, <3>2
    <2>4. attempt = 4 => results[4] = results[3] /\ results[2].identity = session
                         /\ results[4].identity = session
      BY <2>1 DEF ResultStands
    <2>5. CASE attempt < 4
      BY <1>1, <1>2, <2>1, <2>2, <2>3, <2>5 DEF Identities
    <2>6. CASE ~(attempt < 4)
      <3>1. attempt = 4
        BY <1>1, <2>6
      <3> QED BY <1>2, <2>1, <2>2, <2>3, <2>4, <3>1 DEF Identities
    <2> QED BY <2>5, <2>6
  <1>8. CASE WriteReport /\ pc' # "failed"
    <2>1. /\ results' = results /\ session' = session /\ attempt' = attempt
          /\ pc = "report" /\ pc' = "passed"
      BY <1>8 DEF WriteReport, Abandon
    <2> QED BY <1>2, <2>1 DEF Identities
  <1> QED BY <1>3, <1>4, <1>5, <1>6, <1>7, <1>8 DEF ControllerStep

-----------------------------------------------------------------------------
(* The worker under the controller, and the environment.                       *)

LEMMA WorkerUnderTheController ==
  ASSUME VaultInv, ControllerTypeOK, Place, Honest, Crashes, Identities, WorkerActs
  PROVE  Place' /\ Honest' /\ Crashes' /\ Identities'
  <1> HIDE DEF Bundle
  <1>1. /\ step \in 1..(PackLength + 1) /\ anchors \in Seq(Seq(Bundle)) /\ rewrites \in Nat
        /\ PackLength \in Nat \ {0} /\ commits \in Seq(Commit)
    BY BoundsAssumption DEF ControllerTypeOK, VaultInv, VaultTypeOK
  <1>2. /\ WorkerStep
        /\ UNCHANGED <<driver, pc, attempt, step, anchors, crashes, results, staged, identity,
                       session, code, timedOut, cancelled, rewrites>>
    BY DEF WorkerActs, controllerVars, environmentVars
  <1>3. WorkerRuns /\ Waiting
    BY <1>2, OnlyARunningWorkerSteps DEF VaultInv, Place
  <1>4. /\ worker'.action = worker.action /\ worker'.bundle = worker.bundle
        /\ worker'.pc = "killed" => worker'.killedBy = "fault"
        /\ PublishCommit \/ commits' = commits
    BY <1>2, WorkerKeepsItsOrders DEF VaultInv
  <1>5. /\ \A k : RevealBundle(k)' = RevealBundle(k)
        /\ Primary(attempt)' = Primary(attempt) /\ FaultAt(step)' = FaultAt(step)
    BY <1>2 DEF RevealBundle, RunOf, PackOf, SourceOf, Primary, FaultAt
  <1>6. CASE PublishCommit
    <2>1. worker.pc = "publish" /\ worker.action = "ingest" /\ worker.bundle \in Bundle
          /\ worker.bundle.order = Len(commits) + 1 /\ worker.previous \in Seq(Bundle)
      BY <1>6, IngestPlaces DEF PublishCommit, VaultInv, VaultTypeOK, Shape, Preparing
    <2>2. /\ commits' = Append(commits, Checkpoint(worker.bundle, worker.previous))
          /\ selector' = selector
      BY <1>6 DEF PublishCommit
    <2>3. pc \in {"crashing", "ingesting", "redelivering"} /\ step <= PackLength /\ identity # 0
          /\ worker.bundle = RevealBundle(step)
      BY <1>3, <2>1 DEF Place, Waiting
    <2>4. step = Len(commits) + 1
      BY <1>1, <2>1, <2>3, RevealBundles
    <2>5. pc \in {"crashing", "ingesting"} /\ Len(anchors) = step - 1
      BY <1>1, <2>3, <2>4 DEF Place
    <2>6. Checkpoint(worker.bundle, worker.previous) \in Commit
      <3>1. Append(worker.previous, worker.bundle) \in Seq(Bundle)
        BY <2>1
      <3> QED BY <2>1, <3>1 DEF Checkpoint, Commit
    <2>7. /\ Len(commits') = step /\ commits'[step].bundle = RevealBundle(step)
          /\ \A i \in 1..Len(commits) : commits'[i] = commits[i]
      <3>1. Checkpoint(worker.bundle, worker.previous).bundle = worker.bundle
        BY DEF Checkpoint
      <3> HIDE DEF Checkpoint
      <3> QED BY <1>1, <2>2, <2>3, <2>4, <2>6, <3>1
    <2>8. Place'
      BY <1>1, <1>2, <1>3, <1>4, <1>5, <2>1, <2>3, <2>5, <2>7 DEF Place, Waiting
    <2>9. Honest'
      <3>1. \A i \in 1..Len(anchors') : anchors'[i] = [k \in 1..i |-> RevealBundle(k)']
        BY <1>2, <1>5 DEF Honest
      <3>2. rewrites = 0 => \A i \in 1..Len(commits') : commits'[i].bundle = RevealBundle(i)'
        BY <1>1, <1>5, <2>4, <2>7 DEF Honest
      <3>3. rewrites > 0 => \E i \in 1..Len(anchors) :
              i <= Len(commits') /\ commits'[i].bundle.source = Forged(i)
        <4>1. pc # "failed"
          BY <1>3 DEF Waiting
        <4>2. ASSUME rewrites > 0, NEW i \in 1..Len(anchors), i <= Len(commits),
                     commits[i].bundle.source = Forged(i)
              PROVE  i <= Len(commits') /\ commits'[i].bundle.source = Forged(i)
          <5>1. i \in 1..Len(commits)
            BY <1>1, <4>2
          <5> QED BY <1>1, <2>4, <2>7, <4>2, <5>1
        <4> QED BY <4>1, <4>2 DEF Honest
      <3> QED BY <1>2, <1>3, <3>1, <3>2, <3>3 DEF Honest, Waiting
    <2> QED BY <1>2, <1>4, <1>5, <2>8, <2>9 DEF Crashes, Identities
  <1>7. CASE commits' = commits
    <2>1. pc = "probing" => selector' = selector
      <3>1. pc = "probing" => worker.pc = "reply"
        BY <1>3 DEF VaultInv, Shape, Place, WorkerRuns
      <3>2. worker.pc = "reply" => selector' = selector
        BY <1>2 DEF WorkerStep, LoadForIngest, ClearStaging, BeginStage, CompleteStage,
          PublishCommit, TidyStaging, KillItself, SelectHead, ConfirmCommit, WipeProjection,
          ProjectStep, ProjectCurrent, Reply, vaultVars
      <3> QED BY <3>1, <3>2
    <2>2. pc \notin {"begin", "stage", "identify", "start", "attempted"}
      BY <1>3 DEF Waiting
    <2>3. Place'
      BY <1>2, <1>3, <1>4, <1>5, <1>7, <2>1, <2>2 DEF Place, Waiting, NoHead
    <2>4. Honest'
      BY <1>2, <1>5, <1>7 DEF Honest, Waiting
    <2> QED BY <1>2, <1>4, <1>5, <2>3, <2>4 DEF Crashes, Identities
  <1> QED BY <1>4, <1>6, <1>7

LEMMA EnvironmentUnderTheController ==
  ASSUME VaultInv, ControllerTypeOK, Place, Honest, Crashes, Identities, driver = "controller",
         TimerFires \/ OperatorSignals \/ EditRuntime \/ RewriteHistory
  PROVE  Place' /\ Honest' /\ Crashes' /\ Identities'
  <1> HIDE DEF Bundle
  <1>1. /\ step \in 1..(PackLength + 1) /\ anchors \in Seq(Seq(Bundle)) /\ rewrites \in Nat
        /\ PackLength \in Nat \ {0} /\ commits \in Seq(Commit)
    BY BoundsAssumption DEF ControllerTypeOK, VaultInv, VaultTypeOK
  <1>2. UNCHANGED <<driver, pc, attempt, step, anchors, crashes, results, staged, identity, session>>
    BY DEF TimerFires, OperatorSignals, EditRuntime, RewriteHistory, controllerVars
  <1>3. /\ \A k : RevealBundle(k)' = RevealBundle(k)
        /\ Primary(attempt)' = Primary(attempt) /\ FaultAt(step)' = FaultAt(step)
    BY <1>2 DEF RevealBundle, RunOf, PackOf, SourceOf, Primary, FaultAt
  <1>4. CASE TimerFires \/ OperatorSignals
    <2>1. PICK by \in {"timer", "operator"} :
            /\ IF WorkerRuns THEN Die(by) ELSE UNCHANGED <<vaultVars, worker>>
            /\ by = "timer" => timedOut' = TRUE /\ cancelled' = cancelled
            /\ by = "operator" => cancelled' = TRUE /\ timedOut' = timedOut
      BY <1>4 DEF TimerFires, OperatorSignals
    <2>2. UNCHANGED <<commits, selector, rewrites>>
      BY <1>4, <2>1 DEF TimerFires, OperatorSignals, Die, vaultVars
    <2>3. /\ worker'.action = worker.action /\ worker'.bundle = worker.bundle
          /\ worker' = worker \/ (worker'.pc = "killed" /\ worker'.killedBy = by)
      BY <2>1 DEF Die, VaultInv, VaultTypeOK
    <2>4. WorkerRuns' => WorkerRuns
      BY <2>3 DEF WorkerRuns
    <2>5. Place'
      BY <1>2, <1>3, <2>2, <2>3, <2>4 DEF Place, Waiting, NoHead, ExactHead
    <2>6. Honest'
      BY <1>2, <1>3, <2>2 DEF Honest, Waiting
    <2>7. worker'.pc = "killed" =>
             /\ worker'.killedBy \in {"timer", "operator", "fault"}
             /\ worker'.killedBy = "timer" => timedOut'
             /\ worker'.killedBy = "operator" => cancelled'
      <3>1. CASE worker' = worker
        <4>1. (timedOut => timedOut') /\ (cancelled => cancelled')
          BY <2>1
        <4> QED BY <3>1, <4>1 DEF Crashes
      <3>2. CASE worker'.killedBy = by
        BY <2>1, <3>2
      <3> QED BY <2>3, <3>1, <3>2
    <2>8. \/ \A i \in 1..Len(crashes) : crashes[i].by = "fault"
          \/ cancelled' /\ pc # "attempted"
      <3>1. cancelled => cancelled'
        BY <2>1
      <3> QED BY <3>1 DEF Crashes
    <2>9. Crashes'
      BY <1>2, <1>3, <2>7, <2>8 DEF Crashes
    <2> QED BY <1>2, <2>5, <2>6, <2>9 DEF Identities
  <1>5. CASE EditRuntime
    <2>1. UNCHANGED <<commits, selector, worker, rewrites, timedOut, cancelled>>
      BY <1>5 DEF EditRuntime, vaultVars
    <2>2. Place'
      BY <1>2, <1>3, <2>1 DEF Place, Waiting, NoHead, ExactHead, WorkerRuns
    <2>3. Honest'
      BY <1>2, <1>3, <2>1 DEF Honest, Waiting
    <2> QED BY <1>2, <1>3, <2>1, <2>2, <2>3 DEF Crashes, Identities
  <1>6. CASE RewriteHistory
    <2>1. Waiting /\ rewrites' = rewrites + 1 /\ UNCHANGED <<worker, timedOut, cancelled>>
      BY <1>6 DEF RewriteHistory
    <2>2. /\ Len(commits') = Len(commits)
          /\ \E i \in 1..Len(anchors) : i <= Len(commits) /\ commits'[i].bundle.source = Forged(i)
      BY <1>1, <1>6, <2>1, AnchoredSoFar, RewritingKeepsTheShape DEF VaultInv
    <2>3. pc # "probing"
      <3>1. pc = "probing" => Len(anchors) = 0
        BY EmptySeq DEF Place
      <3> QED BY <2>2, <3>1
    <2>4. Place'
      BY <1>2, <1>3, <2>1, <2>2, <2>3 DEF Place, Waiting, WorkerRuns
    <2>5. Honest'
      BY <1>1, <1>2, <1>3, <2>1, <2>2 DEF Honest, Waiting
    <2> QED BY <1>2, <1>3, <2>1, <2>4, <2>5 DEF Crashes, Identities
  <1> QED BY <1>4, <1>5, <1>6

LEMMA DirectBundlesAreBundles == DirectBundles \subseteq Bundle
  <1> DEFINE runs == {RunOf(a, v) : a \in 1..4, v \in 1..(MaxEdits + 1)}
             direct == {RunOf(a, 1) : a \in {1, 3}}
             sources == {SourceOf("checked", 1), SourceOf("generated", 1)}
  <1>1. direct \subseteq runs
    <2>1. 1 \in 1..(MaxEdits + 1) /\ {1, 3} \subseteq 1..4
      BY BoundsAssumption
    <2> QED BY <2>1
  <1>2. sources \subseteq Sources
    <2>1. 1 \in 1..PackLength
      BY BoundsAssumption
    <2> QED BY <2>1, SourcesAssumption DEF Packs
  <1>3. 1..DirectOrders \subseteq 1..(PackLength + DirectOrders)
    BY BoundsAssumption
  <1>4. DirectBundles = [run : direct, order : 1..DirectOrders, source : sources]
    BY DEF DirectBundles
  <1>5. Bundle = [run : runs, order : 1..(PackLength + DirectOrders), source : Sources]
    BY DEF Bundle
  <1> HIDE DEF runs, direct, sources
  <1> QED BY <1>1, <1>2, <1>3, <1>4, <1>5

-----------------------------------------------------------------------------
(* The invariant holds.                                                        *)

LEMMA ReplayInit == Init => Inv
  <1> SUFFICES ASSUME Init PROVE Inv
    OBVIOUS
  <1> HIDE DEF Bundle
  <1>1. VaultInv
    BY EmptyVault DEF Init, VaultInit
  <1>2. /\ anchors \in Seq(Seq(Bundle)) /\ Len(anchors) = 0 /\ Len(commits) = 0
        /\ results \in Seq({}) /\ Len(results) = 0 /\ crashes \in Seq({}) /\ Len(crashes) = 0
    BY EmptySeq DEF Init, VaultInit
  <1>3. ControllerTypeOK \/ driver \notin {"controller", "direct"}
    <2>1. timedOut \in BOOLEAN /\ cancelled \in BOOLEAN
      BY DEF Init
    <2>2. pc \in ControllerPcs \cup {"absent"} /\ rewrites \in Nat /\ staged \in Nat
      BY DEF Init, ControllerPcs
    <2>3. attempt \in 1..4 /\ step \in 1..(PackLength + 1) /\ code \in 1..(MaxEdits + 1)
          /\ identity \in 0..(MaxEdits + 1)
      BY BoundsAssumption DEF Init
    <2> QED BY <1>2, <2>1, <2>2, <2>3 DEF ControllerTypeOK
  <1>4. DirectInv
    BY DEF Init, DirectInv
  <1>5. driver = "controller" => Place /\ Honest
    <2>1. ~WorkerRuns
      BY DEF Init, VaultInit, IdleWorker, WorkerRuns
    <2> QED BY <1>2, <2>1 DEF Init, VaultInit, Place, Honest
  <1>6. driver = "controller" => Crashes /\ Identities
    BY <1>2 DEF Init, VaultInit, IdleWorker, Crashes, Identities
  <1>7. driver \in {"controller", "direct"}
    BY DriversAssumption DEF Init
  <1> QED BY <1>1, <1>3, <1>4, <1>5, <1>6, <1>7 DEF Inv, ControllerInv

LEMMA ReplayStep == Inv /\ [Next]_vars => Inv'
  <1> SUFFICES ASSUME Inv, [Next]_vars PROVE Inv'
    OBVIOUS
  <1> HIDE DEF Bundle
  <1>0. VaultInv /\ ControllerTypeOK /\ DirectInv /\ ControllerInv
    BY DEF Inv
  <1>d. driver \in {"controller", "direct"}
    BY <1>0 DEF ControllerTypeOK
  <1>1. CASE ControllerStep
    <2>1. driver = "controller"
      <3>1. pc # "absent"
        BY <1>1 DEF ControllerStep, BeginSession, StageRuntime, IdentifyRuntime, StartAttempt,
          EndProbe, RevealItem, ObserveCrash, EndIngest, EndRedelivery, BeginRebuild, EndRebuild,
          DiscardAttempt, WriteReport
      <3> QED BY <1>0, <1>d, <3>1 DEF DirectInv
    <2>2. Place /\ Honest /\ Crashes /\ Identities
      BY <1>0, <2>1 DEF ControllerInv
    <2>3. driver' = driver
      BY <1>1, ControllerSteps
    <2>4. VaultInv'
      BY <1>0, <1>1, <2>1, <2>2, ControllerKeepsTheVault
    <2>5. ControllerTypeOK'
      BY <1>0, <1>1, <2>2, ControllerKeepsItsTypes
    <2>6. Place' /\ Honest' /\ Crashes' /\ Identities'
      BY <1>0, <1>1, <2>2, ControllerKeepsItsPlace, ControllerStaysHonest,
         ControllerCountsCrashes, ControllerComparesIdentities
    <2> QED BY <2>1, <2>3, <2>4, <2>5, <2>6 DEF Inv, DirectInv, ControllerInv
  <1>2. CASE WorkerActs
    <2>1. WorkerStep /\ UNCHANGED <<driver, pc, attempt, step, anchors, staged, identity, code,
                                    timedOut, cancelled, rewrites>>
      BY <1>2 DEF WorkerActs, controllerVars, environmentVars
    <2>2. VaultInv'
      BY <1>0, <2>1, WorkerKeepsTypes, WorkerKeepsShape, WorkerKeepsWhole DEF VaultInv
    <2>3. ControllerTypeOK' /\ DirectInv'
      BY <1>0, <2>1 DEF ControllerTypeOK, DirectInv
    <2>4. ControllerInv'
      BY <1>0, <1>2, <2>1, WorkerUnderTheController DEF ControllerInv
    <2> QED BY <2>2, <2>3, <2>4 DEF Inv
  <1>3. CASE StartDirectly
    <2>1. /\ driver = "direct" /\ UNCHANGED vaultVars
          /\ UNCHANGED <<driver, pc, attempt, step, anchors, staged, identity, code,
                         cancelled, rewrites>>
          /\ timedOut' = FALSE
      BY <1>3 DEF StartDirectly, Spawn, controllerVars
    <2>2. VaultInv'
      <3>1. CASE worker' = Started("rebuild", NoBundle, "none")
        BY <1>0, <2>1, <3>1, StartingKeepsTheVault DEF Faults
      <3>2. ASSUME NEW bundle \in DirectBundles, NEW fault \in Faults,
                   worker' = Started("ingest", bundle, fault)
            PROVE  VaultInv'
        BY <1>0, <2>1, <3>2, StartingKeepsTheVault, DirectBundlesAreBundles
      <3> QED BY <1>3, <3>1, <3>2 DEF StartDirectly, Spawn
    <2>3. ControllerTypeOK'
      <3>1. timedOut' \in BOOLEAN
        BY <2>1
      <3> QED BY <1>0, <2>1, <3>1 DEF ControllerTypeOK
    <2> QED BY <1>0, <2>1, <2>2, <2>3 DEF Inv, DirectInv, ControllerInv
  <1>4. CASE TimerFires \/ OperatorSignals
    <2>1. /\ UNCHANGED <<driver, pc, attempt, step, anchors, staged, identity, code, rewrites>>
          /\ (timedOut' = TRUE /\ cancelled' = cancelled)
             \/ (cancelled' = TRUE /\ timedOut' = timedOut)
      BY <1>4 DEF TimerFires, OperatorSignals, controllerVars
    <2>2. VaultInv'
      <3>1. \/ UNCHANGED <<vaultVars, worker, rewrites>>
            \/ /\ WorkerRuns /\ rewrites' = rewrites
               /\ Die("timer") \/ Die("operator")
        BY <1>4 DEF TimerFires, OperatorSignals
      <3> QED BY <1>0, <3>1, RestingKeepsTheVault, DyingKeepsTheVault
    <2>3. ControllerTypeOK'
      <3>1. timedOut' \in BOOLEAN /\ cancelled' \in BOOLEAN
        BY <1>0, <2>1 DEF ControllerTypeOK
      <3> QED BY <1>0, <2>1, <3>1 DEF ControllerTypeOK
    <2>4. ControllerInv'
      BY <1>0, <1>4, <2>1, EnvironmentUnderTheController DEF ControllerInv
    <2> QED BY <1>0, <2>1, <2>2, <2>3, <2>4 DEF Inv, DirectInv
  <1>5. CASE EditRuntime
    <2>1. /\ UNCHANGED <<driver, pc, attempt, step, anchors, staged, identity, rewrites,
                         timedOut, cancelled>>
          /\ UNCHANGED <<vaultVars, worker>>
          /\ code <= MaxEdits /\ code' = code + 1
      BY <1>5 DEF EditRuntime, controllerVars
    <2>2. VaultInv'
      BY <1>0, <2>1, RestingKeepsTheVault
    <2>3. code' \in 1..(MaxEdits + 1)
      BY <1>0, <2>1, BoundsAssumption DEF ControllerTypeOK
    <2>4. ControllerTypeOK'
      BY <1>0, <2>1, <2>3 DEF ControllerTypeOK
    <2>5. ControllerInv'
      BY <1>0, <1>5, <2>1, EnvironmentUnderTheController DEF ControllerInv
    <2> QED BY <1>0, <2>1, <2>2, <2>4, <2>5 DEF Inv, DirectInv
  <1>6. CASE RewriteHistory
    <2>1. /\ UNCHANGED <<driver, pc, attempt, step, anchors, staged, identity, code,
                         timedOut, cancelled>>
          /\ driver = "controller" /\ rewrites' = rewrites + 1 /\ Waiting
      BY <1>6 DEF RewriteHistory, controllerVars
    <2>2. Place
      BY <1>0, <2>1 DEF ControllerInv
    <2>3. VaultInv'
      <3>1. VaultTypeOK' /\ Shape'
        BY <1>0, <1>6, <2>1, <2>2, AnchoredSoFar, RewritingKeepsTheShape
           DEF VaultInv, ControllerTypeOK
      <3>2. rewrites' # 0
        BY <1>0, <2>1 DEF ControllerTypeOK
      <3> QED BY <3>1, <3>2 DEF VaultInv
    <2>4. rewrites' \in Nat
      BY <1>0, <2>1 DEF ControllerTypeOK
    <2>5. ControllerTypeOK'
      BY <1>0, <2>1, <2>4 DEF ControllerTypeOK
    <2>6. ControllerInv'
      BY <1>0, <1>6, <2>1, EnvironmentUnderTheController DEF ControllerInv
    <2> QED BY <1>0, <2>1, <2>3, <2>5, <2>6 DEF Inv, DirectInv
  <1>7. CASE UNCHANGED vars
    <2>1. /\ UNCHANGED <<vaultVars, worker, driver, pc, attempt, step, anchors, crashes, results,
                         staged, identity, session, code, timedOut, cancelled, rewrites>>
      BY <1>7 DEF vars, controllerVars, environmentVars
    <2>2. VaultInv'
      BY <1>0, <2>1, RestingKeepsTheVault
    <2>3. ControllerTypeOK' /\ DirectInv'
      BY <1>0, <2>1 DEF ControllerTypeOK, DirectInv
    <2>4. ControllerInv'
      <3>1. UNCHANGED <<commits, selector>>
        BY <2>1 DEF vaultVars
      <3>2. /\ \A k : RevealBundle(k)' = RevealBundle(k)
            /\ Primary(attempt)' = Primary(attempt) /\ FaultAt(step)' = FaultAt(step)
        BY <2>1 DEF RevealBundle, RunOf, PackOf, SourceOf, Primary, FaultAt
      <3>3. Place => Place'
        BY <2>1, <3>1, <3>2 DEF Place, Waiting, WorkerRuns, ExactHead, NoHead
      <3>4. Honest => Honest'
        BY <2>1, <3>1, <3>2 DEF Honest, Waiting
      <3>5. (Crashes => Crashes') /\ (Identities => Identities')
        BY <2>1, <3>2 DEF Crashes, Identities
      <3> QED BY <1>0, <2>1, <3>3, <3>4, <3>5 DEF ControllerInv
    <2> QED BY <2>2, <2>3, <2>4 DEF Inv
  <1> QED BY <1>1, <1>2, <1>3, <1>4, <1>5, <1>6, <1>7 DEF Next

LEMMA ReplayInvariant == Spec => []Inv
  BY ReplayInit, ReplayStep, PTL DEF Spec

-----------------------------------------------------------------------------
(* What follows.                                                               *)

\* Wherever a directly started worker is killed, the vault still loads and takes the last
\* published bundle again, or a first one.
THEOREM VaultsStayOpen == Spec => []VaultStaysOpen
  <1>1. Inv => VaultStaysOpen
    <2> SUFFICES ASSUME Inv, driver = "direct" PROVE VaultStaysOpen
      BY DEF VaultStaysOpen
    <2> HIDE DEF Bundle
    <2>1. VaultTypeOK /\ Shape /\ Whole
      BY DEF Inv, VaultInv, DirectInv
    <2>2. LoadsOrLags(commits, selector)
      BY <2>1, WholeVault DEF Whole, LoadsOrLags
    <2>3. ASSUME commits = <<>>, NEW b \in DirectBundles, b.order = 1 PROVE Acceptable(b)
      <3>1. Len(commits) = 0 /\ ~SelectorLags(commits, selector)
        BY <2>3, EmptySeq DEF SelectorLags
      <3> QED BY <2>2, <2>3, <3>1 DEF Acceptable, Recoverable
    <2>4. ASSUME commits # <<>> PROVE Acceptable(Last(commits).bundle)
      <3>1. Len(commits) \in 1..Len(commits)
        BY <2>1, <2>4, EmptySeq DEF VaultTypeOK
      <3>2. IsKnown(Last(commits).bundle)
        BY <3>1 DEF IsKnown, Last
      <3>3. commits[1].bundle.run = Last(commits).bundle.run
        BY <2>1, <3>1 DEF Whole, OfOneRun, Last
      <3> QED BY <2>2, <3>2, <3>3 DEF Acceptable, Recoverable
    <2> QED BY <2>2, <2>3, <2>4 DEF VaultStaysOpen
  <1> QED BY <1>1, ReplayInvariant, PTL

\* A worker that answers an ingest has published and selected it, and the projection it
\* answers with is complete and right step by step.
THEOREM AnswersAreDurable == Spec => []AnswerIsDurable
  <1>1. Inv => AnswerIsDurable
    <2> SUFFICES ASSUME Inv, worker.pc = "exited", worker.action = "ingest", rewrites = 0
                 PROVE  AnswerIsDurable
      BY DEF AnswerIsDurable
    <2> HIDE DEF Bundle
    <2>1. VaultTypeOK /\ Shape /\ Whole
      BY DEF Inv, VaultInv
    <2>2. Published /\ RightAnswer(worker.reply.projection) /\ worker.reply.head = selector
      BY <2>1 DEF Whole
    <2>3. selector = TerminalHead(commits)
      BY <2>1, <2>2, WholeVault DEF Whole, RightAnswer, ExactHead
    <2>4. Len(worker.reply.projection.deltas) = Len(commits) /\ worker.reply.projection.complete
          /\ \A k \in 1..Len(commits) : RightDelta(commits, k, worker.reply.projection.deltas[k])
      BY <2>2 DEF RightAnswer, Projected
    <2> QED BY <2>2, <2>3, <2>4 DEF AnswerIsDurable, Published, RightDelta
  <1> QED BY <1>1, ReplayInvariant, PTL

\* An attempt that passed has the frozen items in the vault, in their order, although a
\* worker can rewrite what was published before it.
THEOREM AcceptedHistories == Spec => []AcceptedHistoryIsThePack
  <1>1. Inv => AcceptedHistoryIsThePack
    <2> SUFFICES ASSUME Inv, pc = "attempted" PROVE AcceptedHistoryIsThePack
      BY DEF AcceptedHistoryIsThePack
    <2> HIDE DEF Bundle
    <2>1. driver = "controller"
      BY DEF Inv, DirectInv, ControllerTypeOK
    <2>2. Place /\ Honest
      BY <2>1 DEF Inv, ControllerInv
    <2>3. rewrites = 0 /\ ExactHead /\ Len(commits) = PackLength
      BY <2>2 DEF Place
    <2>4. VaultTypeOK /\ Shape /\ Whole
      BY <2>3 DEF Inv, VaultInv
    <2>5. commits = Chained(BundlesOf(commits)) /\ selector = TerminalHead(commits)
      BY <2>3, <2>4, WholeVault DEF Whole, ExactHead
    <2>6. BundlesOf(commits) = [k \in 1..PackLength |-> RevealBundle(k)]
      BY <2>2, <2>3 DEF Honest, BundlesOf
    <2> QED BY <2>5, <2>6 DEF AcceptedHistoryIsThePack
  <1> QED BY <1>1, ReplayInvariant, PTL

\* No kill by a timer or by the operator is reported as an injected crash, and none of the
\* injected ones is missing.
THEOREM InjectedCrashes == Spec => []ReportedCrashesWereInjected
  <1>1. Inv => ReportedCrashesWereInjected
    <2> SUFFICES ASSUME Inv, pc = "attempted" PROVE ReportedCrashesWereInjected
      BY DEF ReportedCrashesWereInjected
    <2>1. driver = "controller"
      BY DEF Inv, DirectInv, ControllerTypeOK
    <2>2. Crashes
      BY <2>1 DEF Inv, ControllerInv
    <2>3. PackLength \in Nat \ {0}
      BY BoundsAssumption
    <2>4. Cardinality({3, 4} \cap (1..PackLength)) = FaultsUpTo(PackLength)
      <3>1. CASE PackLength >= 4
        <4>1. {3, 4} \cap (1..PackLength) = {3} \cup {4}
          BY <2>3, <3>1
        <4>2. IsFiniteSet({3}) /\ Cardinality({3}) = 1
          BY FS_Singleton
        <4>3. Cardinality({3} \cup {4}) = 2
          BY <4>2, FS_AddElement
        <4> QED BY <3>1, <4>1, <4>3 DEF FaultsUpTo
      <3>2. CASE PackLength = 3
        <4>1. {3, 4} \cap (1..PackLength) = {3}
          BY <3>2
        <4>2. Cardinality({3}) = 1
          BY FS_Singleton
        <4> QED BY <3>2, <4>1, <4>2 DEF FaultsUpTo
      <3>3. CASE PackLength < 3
        <4>1. {3, 4} \cap (1..PackLength) = {}
          BY <2>3, <3>3
        <4>2. Cardinality({}) = 0
          BY FS_EmptySet
        <4> QED BY <2>3, <3>3, <4>1, <4>2 DEF FaultsUpTo
      <3> QED BY <2>3, <3>1, <3>2, <3>3
    <2> QED BY <2>2, <2>4 DEF Crashes, ReportedCrashesWereInjected
  <1> QED BY <1>1, ReplayInvariant, PTL

\* A report that passed is about one version of the runtime.
THEOREM OneRuntimePassed == Spec => []OneRuntime
  <1>1. Inv => OneRuntime
    <2> SUFFICES ASSUME Inv PROVE OneRuntime
      OBVIOUS
    <2>1. CASE driver = "direct"
      BY <2>1 DEF Inv, DirectInv, OneRuntime
    <2>2. CASE driver = "controller"
      <3>1. Identities
        BY <2>2 DEF Inv, ControllerInv
      <3>2. pc = "attempted" => staged = identity
        BY <3>1 DEF Identities
      <3>3. ASSUME pc \in {"report", "passed"}, NEW i \in 1..4 PROVE results[i].identity = session
        <4>1. /\ results[2] = results[1] /\ results[4] = results[3]
              /\ results[2].identity = session /\ results[4].identity = session
          BY <3>1, <3>3 DEF Identities
        <4>2. i \in {1, 2, 3, 4}
          OBVIOUS
        <4> QED BY <4>1, <4>2
      <3> QED BY <3>2, <3>3 DEF OneRuntime
    <2> QED BY <2>1, <2>2 DEF Inv, ControllerTypeOK
  <1> QED BY <1>1, ReplayInvariant, PTL

-----------------------------------------------------------------------------
(* The vault with the anchors is an anchored log.                              *)

\* The history that is confirmed: the last anchor.
Confirmed == IF anchors = <<>> THEN <<>> ELSE Last(anchors)

LEMMA ConfirmedHistory ==
  ASSUME ControllerTypeOK, Honest, Len(anchors) <= PackLength, identity # 0
  PROVE  /\ Confirmed \in Seq(Bundle) /\ Len(Confirmed) = Len(anchors)
         /\ \A k \in 1..Len(anchors) : Confirmed[k] = RevealBundle(k)
  <1> HIDE DEF Bundle
  <1>0. anchors \in Seq(Seq(Bundle)) /\ PackLength \in Nat
    BY BoundsAssumption DEF ControllerTypeOK
  <1>1. CASE anchors = <<>>
    BY <1>1, EmptySeq DEF Confirmed
  <1>2. CASE anchors # <<>>
    <2>1. Len(anchors) \in 1..Len(anchors)
      BY <1>0, <1>2, EmptySeq
    <2>2. Confirmed = [k \in 1..Len(anchors) |-> RevealBundle(k)]
      BY <1>2, <2>1 DEF Confirmed, Last, Honest
    <2>3. \A k \in 1..Len(anchors) : RevealBundle(k) \in Bundle
      BY <1>0, RevealBundles
    <2> HIDE DEF Confirmed
    <2> QED BY <1>0, <2>2, <2>3
  <1> QED BY <1>1, <1>2

LEMMA StepsOfTheLog ==
  ASSUME Inv, Inv', [Next]_vars
  PROVE  [Log!Next]_(<<BundlesOf(commits), Confirmed, pc = "attempted">>)
  <1> HIDE DEF Bundle
  <1> DEFINE b == BundlesOf(commits)
             Same == UNCHANGED <<BundlesOf(commits), Confirmed, pc = "attempted">>
  <1>0. /\ VaultInv /\ ControllerTypeOK /\ DirectInv /\ ControllerInv
        /\ VaultInv' /\ ControllerTypeOK' /\ ControllerInv'
    BY DEF Inv
  <1>1. /\ commits \in Seq(Commit) /\ b \in Seq(Bundle) /\ Len(b) = Len(commits)
        /\ \A i \in 1..Len(commits) : b[i] = commits[i].bundle
        /\ anchors \in Seq(Seq(Bundle)) /\ step \in 1..(PackLength + 1) /\ PackLength \in Nat \ {0}
    BY <1>0, BundlesOfCommits, BoundsAssumption DEF VaultInv, VaultTypeOK, ControllerTypeOK
  <1>2. commits' \in Seq(Commit) /\ BundlesOf(commits') \in Seq(Bundle)
        /\ Len(BundlesOf(commits')) = Len(commits')
        /\ \A i \in 1..Len(commits') : BundlesOf(commits')[i] = commits'[i].bundle
    BY <1>0, BundlesOfCommits DEF VaultInv, VaultTypeOK
  <1>3. ASSUME UNCHANGED <<commits, anchors>>, pc # "attempted", pc' # "attempted" PROVE Same
    BY <1>3 DEF Confirmed
  <1>4. CASE ControllerStep
    <2>1. driver = "controller" /\ driver' = driver
      <3>1. pc # "absent"
        BY <1>4 DEF ControllerStep, BeginSession, StageRuntime, IdentifyRuntime, StartAttempt,
          EndProbe, RevealItem, ObserveCrash, EndIngest, EndRedelivery, BeginRebuild, EndRebuild,
          DiscardAttempt, WriteReport
      <3> QED BY <1>0, <1>4, <3>1, ControllerSteps DEF DirectInv, ControllerTypeOK
    <2>2. Place /\ Honest /\ Place' /\ Honest'
      BY <1>0, <2>1 DEF ControllerInv
    <2>3. CASE BeginSession \/ StageRuntime \/ IdentifyRuntime \/ StartAttempt \/ EndProbe
               \/ RevealItem \/ ObserveCrash \/ EndRedelivery \/ BeginRebuild \/ WriteReport
      <3>1. UNCHANGED <<commits, anchors>> /\ pc # "attempted"
        BY <2>3 DEF BeginSession, StageRuntime, IdentifyRuntime, StartAttempt, EndProbe,
          RevealItem, ObserveCrash, EndRedelivery, BeginRebuild, WriteReport, vaultVars
      <3>2. pc' # "attempted"
        <4>1. CASE EndRedelivery
          BY <4>1 DEF EndRedelivery, NextItem, Abandon
        <4>2. CASE ~EndRedelivery
          BY <2>3, <4>2 DEF BeginSession, StageRuntime, IdentifyRuntime, StartAttempt, EndProbe,
            RevealItem, ObserveCrash, BeginRebuild, WriteReport, Abandon
        <4> QED BY <4>1, <4>2
      <3> QED BY <1>3, <3>1, <3>2
    <2>4. CASE EndIngest
      <3>1. pc = "ingesting" /\ pc' # "attempted" /\ commits' = commits
        BY <2>4 DEF EndIngest, NextItem, Abandon, vaultVars
      <3>2. CASE anchors' = anchors
        BY <1>3, <3>1, <3>2
      <3>3. CASE anchors' # anchors
        <4>1. CanAnchor(step) /\ anchors' = Append(anchors, commits[step].head)
              /\ identity' = identity /\ attempt' = attempt
          BY <2>4, <3>3 DEF EndIngest
        <4>2. rewrites = 0
          BY <1>0, <2>2, <3>1, <4>1, EndOfAWorker DEF CanAnchor, Waiting
        <4>3. identity # 0 /\ step \in 1..PackLength /\ Len(anchors) = step - 1
          BY <1>1, <2>2, <3>1 DEF Place
        <4>4. Len(commits) = step
          BY <1>1, <4>1, <4>3 DEF CanAnchor, AnchorsVerify
        <4>5. \A k \in 1..step : b[k] = RevealBundle(k)
          BY <1>1, <2>2, <4>2, <4>4 DEF Honest
        <4>6. /\ Confirmed \in Seq(Bundle) /\ Len(Confirmed) = step - 1
              /\ \A k \in 1..(step - 1) : Confirmed[k] = RevealBundle(k)
          BY <1>0, <1>1, <2>2, <4>3, ConfirmedHistory
        <4>7. Confirmed' = b
          <5>1. Len(anchors') = step
            <6>1. commits[step] \in Commit
              BY <1>1, <4>3, <4>4
            <6>2. commits[step].head \in Seq(Bundle)
              BY <6>1 DEF Commit
            <6> QED BY <1>1, <4>1, <4>3, <6>2
          <5>2. anchors' # <<>> /\ Last(anchors') = anchors'[step]
            BY <5>1, <4>3, EmptySeq DEF Last
          <5>3. anchors'[step] = [k \in 1..step |-> RevealBundle(k)']
            BY <2>2, <4>3, <5>1 DEF Honest
          <5>4. \A k : RevealBundle(k)' = RevealBundle(k)
            BY <4>1 DEF RevealBundle, RunOf, PackOf, SourceOf
          <5>5. b = [k \in 1..step |-> RevealBundle(k)]
            <6> HIDE DEF b
            <6> QED BY <1>1, <4>4, <4>5
          <5>6. Confirmed' = anchors'[step]
            BY <5>2 DEF Confirmed
          <5> QED BY <5>3, <5>4, <5>5, <5>6
        <4>8. Log!IsPrefix(Confirmed, b)
          <5> HIDE DEF b, Confirmed
          <5>1. /\ step - 1 \in 0..Len(b) /\ step - 1 \in 0..Len(Confirmed)
                /\ \A k \in 1..(step - 1) : b[k] = Confirmed[k]
            BY <1>1, <4>3, <4>4, <4>5, <4>6
          <5>2. /\ SubSeq(b, 1, step - 1) \in Seq(Bundle) /\ Len(SubSeq(b, 1, step - 1)) = step - 1
                /\ \A k \in 1..(step - 1) : SubSeq(b, 1, step - 1)[k] = b[k]
            BY <1>1, <5>1, Beginning
          <5>3. /\ SubSeq(Confirmed, 1, step - 1) \in Seq(Bundle)
                /\ Len(SubSeq(Confirmed, 1, step - 1)) = step - 1
                /\ \A k \in 1..(step - 1) : SubSeq(Confirmed, 1, step - 1)[k] = Confirmed[k]
            BY <4>6, <5>1, Beginning
          <5>4. SubSeq(b, 1, step - 1) = SubSeq(Confirmed, 1, step - 1)
            BY <5>1, <5>2, <5>3, SeqEqual
          <5> QED BY <1>1, <4>3, <4>4, <4>6, <5>4 DEF Log!IsPrefix
        <4>9. Len(b) = Len(Confirmed) + 1
          BY <1>1, <4>3, <4>4, <4>6
        <4>10. BundlesOf(commits') = b /\ (pc' = "attempted") = (pc = "attempted")
          BY <3>1
        <4>11. Log!ConfirmNext
          BY <3>1, <4>7, <4>8, <4>9, <4>10 DEF Log!ConfirmNext, Confirmed
        <4> QED BY <4>11 DEF Log!Next
      <3> QED BY <3>2, <3>3
    <2>5. CASE EndRebuild
      <3>1. UNCHANGED <<commits, anchors>> /\ pc = "rebuilding"
        BY <2>5 DEF EndRebuild, vaultVars
      <3>2. CASE pc' # "attempted"
        BY <1>3, <3>1, <3>2
      <3>3. CASE pc' = "attempted"
        <4>1. AnchorsVerify(0)
          BY <2>5, <3>3 DEF EndRebuild, Abandon
        <4>2. rewrites = 0 /\ identity # 0 /\ Len(anchors) = PackLength
              /\ Len(commits) = Len(anchors)
          BY <1>0, <2>2, <3>1, <4>1, EndOfAWorker DEF Place, Waiting
        <4>3. /\ Confirmed \in Seq(Bundle) /\ Len(Confirmed) = Len(anchors)
              /\ \A k \in 1..Len(anchors) : Confirmed[k] = RevealBundle(k)
          <5>1. Len(anchors) <= PackLength
            BY <1>1, <4>2
          <5> QED BY <1>0, <2>2, <4>2, <5>1, ConfirmedHistory
        <4>4. b = Confirmed
          <5>1. \A k \in 1..Len(b) : b[k] = Confirmed[k]
            BY <1>1, <2>2, <4>2, <4>3 DEF Honest
          <5> HIDE DEF b, Confirmed
          <5> QED BY <1>1, <4>2, <4>3, <5>1, SeqEqual
        <4> QED BY <3>1, <3>3, <4>4 DEF Log!Next, Log!AcceptLog, Confirmed
      <3> QED BY <3>2, <3>3
    <2>6. CASE DiscardAttempt
      <3>1. pc = "attempted" /\ pc' # "attempted"
        BY <2>6 DEF DiscardAttempt, Abandon
      <3>2. CASE UNCHANGED <<commits, anchors>>
        BY <3>1, <3>2 DEF Log!Next, Log!Discard, Confirmed
      <3>3. CASE commits' = <<>> /\ anchors' = <<>>
        <4>1. BundlesOf(commits') = <<>> /\ Confirmed' = <<>>
          BY <1>2, <3>3, EmptySeq DEF Confirmed
        <4> QED BY <3>1, <4>1 DEF Log!Next, Log!Discard, Confirmed
      <3> QED BY <2>6, <3>2, <3>3 DEF DiscardAttempt, vaultVars
    <2> QED BY <1>4, <2>3, <2>4, <2>5, <2>6 DEF ControllerStep
  <1>5. CASE WorkerActs
    <2>1. WorkerStep /\ UNCHANGED <<driver, pc, anchors>>
      BY <1>5 DEF WorkerActs, controllerVars
    <2>2. CASE commits' = commits
      BY <2>1, <2>2 DEF Confirmed
    <2>3. CASE PublishCommit
      <3> DEFINE e == worker.bundle
      <3>1. /\ e \in Bundle /\ e.order = Len(commits) + 1 /\ worker.previous \in Seq(Bundle)
            /\ commits' = Append(commits, Checkpoint(e, worker.previous))
        BY <1>0, <2>3, IngestPlaces DEF PublishCommit, VaultInv, VaultTypeOK, Shape, Preparing
      <3>2. BundlesOf(commits') = Append(b, e)
        <4>1. Checkpoint(e, worker.previous) \in Commit /\ Checkpoint(e, worker.previous).bundle = e
          <5>1. Append(worker.previous, e) \in Seq(Bundle)
            BY <3>1
          <5> QED BY <3>1, <5>1 DEF Checkpoint, Commit
        <4>2. /\ Len(commits') = Len(commits) + 1
              /\ commits'[Len(commits) + 1] = Checkpoint(e, worker.previous)
              /\ \A i \in 1..Len(commits) : commits'[i] = commits[i]
          BY <1>1, <3>1, <4>1
        <4> DEFINE longer == Append(b, e)
        <4>3. /\ longer \in Seq(Bundle) /\ Len(longer) = Len(commits) + 1
              /\ longer[Len(commits) + 1] = e
              /\ \A i \in 1..Len(commits) : longer[i] = b[i]
          BY <1>1, <3>1
        <4> HIDE DEF longer, b, e
        <4>4. \A i \in 1..Len(longer) : BundlesOf(commits')[i] = longer[i]
          <5>1. SUFFICES ASSUME NEW i \in 1..Len(longer)
                         PROVE  commits'[i].bundle = longer[i]
            BY <1>2, <4>2, <4>3
          <5>2. CASE i \in 1..Len(commits)
            BY <1>1, <4>2, <4>3, <5>2
          <5>3. CASE i = Len(commits) + 1
            BY <4>1, <4>2, <4>3, <5>3
          <5> QED BY <1>1, <4>3, <5>2, <5>3
        <4>5. BundlesOf(commits') = longer
          BY <1>2, <4>2, <4>3, <4>4, SeqEqual
        <4> QED BY <4>5 DEF longer
      <3>3. \A i \in 1..Len(b) : b[i] # e
        <4>0. \A i \in 1..Len(commits) : commits[i].bundle.order = i
          BY <1>0 DEF VaultInv, Shape
        <4> HIDE DEF b, e
        <4>1. \A i \in 1..Len(b) : b[i].order = i /\ i # Len(commits) + 1
          BY <1>1, <4>0
        <4> QED BY <3>1, <4>1
      <3>4. pc # "attempted"
        <4>1. WorkerRuns
          BY <1>0, <2>1, OnlyARunningWorkerSteps DEF VaultInv
        <4> QED BY <1>0, <4>1 DEF ControllerInv, DirectInv, ControllerTypeOK, Place, Waiting
      <3>5. Confirmed' = Confirmed
        BY <2>1 DEF Confirmed
      <3>6. Log!AppendEvent
        <4> HIDE DEF e
        <4> QED BY <2>1, <3>1, <3>2, <3>3, <3>4, <3>5 DEF Log!AppendEvent, Bundle, Confirmed
      <3> QED BY <3>6 DEF Log!Next
    <2> QED BY <1>0, <2>1, <2>2, <2>3, WorkerKeepsItsOrders DEF VaultInv
  <1>6. CASE StartDirectly \/ TimerFires \/ OperatorSignals \/ EditRuntime
    <2>1. UNCHANGED <<commits, anchors, pc>>
      BY <1>6 DEF StartDirectly, TimerFires, OperatorSignals, EditRuntime, Die, vaultVars,
        controllerVars
    <2> QED BY <2>1 DEF Confirmed
  <1>7. CASE RewriteHistory
    <2>1. Waiting /\ UNCHANGED <<anchors, pc>> /\ driver = "controller"
      BY <1>7 DEF RewriteHistory, controllerVars
    <2>2. Place
      BY <1>0, <2>1 DEF ControllerInv
    <2>3. Len(commits') = Len(commits)
      BY <1>0, <1>1, <1>7, <2>1, <2>2, AnchoredSoFar, RewritingKeepsTheShape DEF VaultInv
    <2>4. BundlesOf(commits') \in [1..Len(b) -> Bundle]
      <3>1. BundlesOf(commits') \in [1..Len(BundlesOf(commits')) -> Bundle]
        BY <1>2
      <3> QED BY <1>1, <1>2, <2>3, <3>1
    <2>5. pc # "attempted" /\ Confirmed' = Confirmed
      BY <2>1 DEF Waiting, Confirmed
    <2> QED BY <2>1, <2>4, <2>5 DEF Log!Next, Log!RewriteLog, Bundle, Confirmed
  <1>8. CASE UNCHANGED vars
    BY <1>8 DEF vars, vaultVars, controllerVars, Confirmed
  <1> QED BY <1>4, <1>5, <1>6, <1>7, <1>8 DEF Next

\* The replay implements the anchored log: what is confirmed only ever grows by the next
\* event of the log, and nothing but the confirmed history is accepted.
THEOREM ReplayIsAnAnchoredLog == Spec => LogSpec
  <1>1. Init => Log!Init
    <2> SUFFICES ASSUME Init PROVE Log!Init
      OBVIOUS
    <2>1. commits = <<>> /\ anchors = <<>> /\ pc # "attempted"
      BY DEF Init, VaultInit
    <2>2. BundlesOf(commits) = <<>>
      <3>1. commits \in Seq(Commit) /\ Len(commits) = 0
        BY <2>1, EmptySeq
      <3>2. BundlesOf(commits) \in Seq(Bundle) /\ Len(BundlesOf(commits)) = 0
        BY <3>1, BundlesOfCommits
      <3> QED BY <3>2, EmptySeq
    <2> QED BY <2>1, <2>2 DEF Log!Init
  <1>2. Inv /\ Inv' /\ [Next]_vars => [Log!Next]_(<<BundlesOf(commits), Confirmed, pc = "attempted">>)
    BY StepsOfTheLog
  <1> QED BY <1>1, <1>2, ReplayInvariant, PTL DEF Spec, LogSpec, Log!Spec, Confirmed

=============================================================================
