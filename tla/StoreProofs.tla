----------------------------- MODULE StoreProofs -----------------------------
(* The smaller stores, each for any value of its constants: the trace that is read once,
   the root of a workspace, the sandbox preflight, the bundles of a journey and the public
   dogfood store.  They share no state; what they share is facts about sequences and
   numbers, which are those of CaptureProofs.                                          *)
EXTENDS CaptureProofs, OneUseReader, Initialization, SandboxPreflight, RecordBundle,
        PublicDogfood

-----------------------------------------------------------------------------
(* A trace that is read once.

   The argument.  Whoever is past the commit of the slot, or holds bytes of the trace,
   has its marker on disk and no other such reader beside it: a second one meets the
   marker.  And who saw the same fingerprint at the end as before the commit read the
   version that was there before the commit.                                        *)

ReaderPlaces ==
  {"none", "pack", "paths", "slot", "open", "read", "stat", "judge", "shown", "refused",
   "killed"}
ReaderStates ==
  [at : ReaderPlaces, root : WorkRoots, mark : Nat, bytes : TraceContents \cup {"none"}]

ReaderTypes ==
  /\ slots \in [WorkRoots -> BOOLEAN]
  /\ versions \in Seq(TraceContents)
  /\ readers \in [ReaderProcesses -> ReaderStates]

\* The slot was committed by this reader.
PastTheSlot(p) ==
  \/ readers[p].at \in {"open", "read", "stat", "judge", "shown"}
  \/ readers[p].bytes # "none"

\* One reader at most is past the slot of a root, and the marker is there.
SlotsAreSpent ==
  /\ \A p, q \in ReaderProcesses :
       PastTheSlot(p) /\ PastTheSlot(q) /\ readers[p].root = readers[q].root => p = q
  /\ \A p \in ReaderProcesses : PastTheSlot(p) => slots[readers[p].root]

\* What a reader holds, by the place where it is.
BytesAreOfTheMark ==
  \A p \in ReaderProcesses :
    /\ readers[p].at \in {"none", "pack", "paths", "slot"} => readers[p].bytes = "none"
    /\ readers[p].at \in {"slot", "open", "read", "stat", "judge", "shown"} =>
         readers[p].mark \in 1..Len(versions)
    /\ readers[p].at = "stat" /\ readers[p].mark = Len(versions) =>
         readers[p].bytes = versions[readers[p].mark]
    /\ readers[p].at \in {"judge", "shown"} => readers[p].bytes = versions[readers[p].mark]
    /\ readers[p].at = "shown" => readers[p].bytes = "retained"

ReaderInv ==
  /\ ReaderTypes
  /\ Len(versions) >= 1
  /\ SlotsAreSpent
  /\ BytesAreOfTheMark

-----------------------------------------------------------------------------
\* A reader stays one whichever of its fields is given a value of its kind.
LEMMA FieldsKeepReader ==
  ASSUME NEW f \in ReaderStates, NEW to \in ReaderPlaces, NEW n \in Nat,
         NEW b \in TraceContents \cup {"none"}
  PROVE  /\ [f EXCEPT !.at = to] \in ReaderStates
         /\ [f EXCEPT !.at = to, !.mark = n] \in ReaderStates
         /\ [f EXCEPT !.at = to, !.bytes = b] \in ReaderStates
  BY DEF ReaderStates

LEMMA ReaderInitHolds ==
  ASSUME ReaderInit, WorkRoots # {}
  PROVE  ReaderInv
  <1>1. NoReader \in ReaderStates
    BY DEF NoReader, ReaderStates, ReaderPlaces
  <1>2. \A p \in ReaderProcesses : readers[p].at = "none" /\ readers[p].bytes = "none"
    BY DEF ReaderInit, NoReader
  <1>3. ReaderTypes
    BY <1>1 DEF ReaderInit, ReaderTypes, TraceContents
  <1>4. Len(versions) >= 1
    BY DEF ReaderInit
  <1> QED BY <1>2, <1>3, <1>4 DEF ReaderInv, SlotsAreSpent, PastTheSlot, BytesAreOfTheMark

\* A step of one reader to another place of its own.
LEMMA MovingHolds ==
  ASSUME ReaderInv, NEW p \in ReaderProcesses, NEW to \in ReaderPlaces,
         ReaderGoesTo(p, to), UNCHANGED versions,
         \/ UNCHANGED slots
         \/ slots' = [slots EXCEPT ![readers[p].root] = TRUE],
         to \notin {"pack", "paths", "slot", "none"}
           \/ (to = "paths" /\ readers[p].at = "pack"),
         to \in {"open", "read", "stat", "judge", "shown"} =>
           /\ slots'[readers[p].root]
           /\ \A q \in ReaderProcesses :
                PastTheSlot(q) /\ readers[q].root = readers[p].root => q = p
           /\ readers[p].mark \in 1..Len(versions),
         to # "stat",
         to \in {"judge", "shown"} => readers[p].bytes = versions[readers[p].mark],
         to = "shown" => readers[p].bytes = "retained"
  PROVE  ReaderInv'
  <1>1. /\ readers'[p].at = to /\ readers'[p].root = readers[p].root
        /\ readers'[p].mark = readers[p].mark /\ readers'[p].bytes = readers[p].bytes
        /\ \A q \in ReaderProcesses : q # p => readers'[q] = readers[q]
    BY DEF ReaderGoesTo, ReaderInv, ReaderTypes, ReaderStates
  <1>2. ReaderTypes'
    <2>1. readers[p] \in ReaderStates /\ readers[p].root \in WorkRoots
      BY DEF ReaderInv, ReaderTypes, ReaderStates
    <2>2. [readers[p] EXCEPT !.at = to] \in ReaderStates
      BY <2>1, FieldsKeepReader DEF TraceContents
    <2>3. readers' \in [ReaderProcesses -> ReaderStates]
      BY <2>2 DEF ReaderGoesTo, ReaderInv, ReaderTypes
    <2>4. slots' \in [WorkRoots -> BOOLEAN]
      BY <2>1 DEF ReaderInv, ReaderTypes
    <2> QED BY <2>3, <2>4 DEF ReaderInv, ReaderTypes
  <1>3. SlotsAreSpent'
    BY <1>1 DEF ReaderInv, ReaderTypes, ReaderStates, SlotsAreSpent, PastTheSlot
  <1>4. BytesAreOfTheMark'
    BY <1>1 DEF ReaderInv, BytesAreOfTheMark
  <1> QED BY <1>2, <1>3, <1>4 DEF ReaderInv

LEMMA ReaderStepHolds ==
  ASSUME ReaderInv, ReaderNext
  PROVE  ReaderInv'
  <1>a. ASSUME NEW p \in ReaderProcesses, NEW w \in WorkRoots, StartReader(p, w)
        PROVE  ReaderInv'
    <2>1. /\ readers' \in [ReaderProcesses -> ReaderStates]
          /\ readers'[p].at = "pack" /\ readers'[p].bytes = "none"
          /\ readers[p].at = "none" /\ readers[p].bytes = "none"
          /\ \A q \in ReaderProcesses : q # p => readers'[q] = readers[q]
          /\ UNCHANGED <<slots, versions>>
      BY <1>a DEF StartReader, OnlyReader, NoReader, ReaderInv, ReaderTypes, ReaderStates,
                  ReaderPlaces, BytesAreOfTheMark
    <2> QED BY <2>1 DEF ReaderInv, ReaderTypes, SlotsAreSpent, PastTheSlot, BytesAreOfTheMark
  <1>b. ASSUME NEW p \in ReaderProcesses, VerifyExecutionPack(p) PROVE ReaderInv'
    BY <1>b, MovingHolds DEF VerifyExecutionPack, OnlyReader, ReaderPlaces
  <1>c. ASSUME NEW p \in ReaderProcesses, ValidatePaths(p) PROVE ReaderInv'
    <2>1. CASE ReaderGoesTo(p, "refused")
      BY <1>c, <2>1, MovingHolds DEF ValidatePaths, OnlyReader, ReaderPlaces
    <2>2. CASE readers' = [readers EXCEPT ![p].at = "slot", ![p].mark = Len(versions)]
      <3>a. /\ readers[p] \in ReaderStates
            /\ Len(versions) \in 1..Len(versions) /\ Len(versions) \in Nat
        BY DEF ReaderInv, ReaderTypes
      <3>b. [readers[p] EXCEPT !.at = "slot", !.mark = Len(versions)] \in ReaderStates
        BY <3>a, FieldsKeepReader DEF TraceContents, ReaderPlaces
      <3>c. readers' \in [ReaderProcesses -> ReaderStates]
        BY <2>2, <3>b DEF ReaderInv, ReaderTypes
      <3>1. /\ readers' \in [ReaderProcesses -> ReaderStates]
            /\ readers'[p].at = "slot" /\ readers'[p].bytes = "none"
            /\ readers'[p].mark \in 1..Len(versions)
            /\ readers[p].at = "paths" /\ readers[p].bytes = "none"
            /\ \A q \in ReaderProcesses : q # p => readers'[q] = readers[q]
            /\ UNCHANGED <<slots, versions>>
        BY <1>c, <2>2, <3>a, <3>c
        DEF ValidatePaths, OnlyReader, ReaderInv, ReaderTypes, ReaderStates, BytesAreOfTheMark
      <3> QED BY <3>1 DEF ReaderInv, ReaderTypes, SlotsAreSpent, PastTheSlot, BytesAreOfTheMark
    <2> QED BY <1>c, <2>1, <2>2 DEF ValidatePaths
  <1>d. ASSUME NEW p \in ReaderProcesses, CommitReadSlot(p) PROVE ReaderInv'
    <2>1. CASE UNCHANGED slots
      BY <1>d, <2>1, MovingHolds DEF CommitReadSlot, ReaderPlaces, ReaderInv, ReaderTypes, ReaderStates
    <2>2. CASE ~slots[readers[p].root] /\ slots' = [slots EXCEPT ![readers[p].root] = TRUE]
      <3>1. slots'[readers[p].root]
        BY <2>2 DEF ReaderInv, ReaderTypes, ReaderStates
      <3>2. \A q \in ReaderProcesses : ~(PastTheSlot(q) /\ readers[q].root = readers[p].root)
        BY <2>2 DEF ReaderInv, SlotsAreSpent
      <3>3. readers[p].mark \in 1..Len(versions)
        BY <1>d DEF CommitReadSlot, ReaderInv, BytesAreOfTheMark
      <3>4. CASE ReaderGoesTo(p, "open")
        BY <1>d, <2>2, <3>1, <3>2, <3>3, <3>4, MovingHolds DEF CommitReadSlot, ReaderPlaces
      <3>5. CASE ReaderGoesTo(p, "refused")
        BY <1>d, <2>2, <3>5, MovingHolds DEF CommitReadSlot, ReaderPlaces
      <3> QED BY <1>d, <2>2, <3>4, <3>5 DEF CommitReadSlot
    <2> QED BY <1>d, <2>1, <2>2 DEF CommitReadSlot
  <1>e. ASSUME NEW p \in ReaderProcesses,
               OpenTrace(p) \/ CompareFinalStat(p) \/ JudgeTrace(p) \/ ReaderKilled(p)
        PROVE  ReaderInv'
    <2>1. CASE ReaderGoesTo(p, "refused") \/ ReaderGoesTo(p, "killed")
      BY <1>e, <2>1, MovingHolds
      DEF OpenTrace, CompareFinalStat, JudgeTrace, ReaderKilled, OnlyReader, ReaderPlaces
    <2>2. CASE ~(ReaderGoesTo(p, "refused") \/ ReaderGoesTo(p, "killed"))
      <3>1. \E to \in {"read", "judge", "shown"} :
              /\ ReaderGoesTo(p, to)
              /\ to = "read" => readers[p].at = "open"
              /\ to = "judge" => readers[p].at = "stat" /\ readers[p].mark = Len(versions)
              /\ to = "shown" => readers[p].at = "judge" /\ readers[p].bytes = "retained"
              /\ UNCHANGED <<slots, versions>>
        BY <1>e, <2>2
        DEF OpenTrace, CompareFinalStat, JudgeTrace, ReaderKilled, OnlyReader
      <3>2. PICK to \in {"read", "judge", "shown"} :
              /\ ReaderGoesTo(p, to)
              /\ to = "read" => readers[p].at = "open"
              /\ to = "judge" => readers[p].at = "stat" /\ readers[p].mark = Len(versions)
              /\ to = "shown" => readers[p].at = "judge" /\ readers[p].bytes = "retained"
              /\ UNCHANGED <<slots, versions>>
        BY <3>1
      <3>3. PastTheSlot(p) /\ readers[p].mark \in 1..Len(versions)
        BY <3>2 DEF PastTheSlot, ReaderInv, BytesAreOfTheMark
      <3>4. /\ slots'[readers[p].root]
            /\ \A q \in ReaderProcesses :
                 PastTheSlot(q) /\ readers[q].root = readers[p].root => q = p
        BY <3>2, <3>3 DEF ReaderInv, SlotsAreSpent
      <3>5. to \in {"judge", "shown"} => readers[p].bytes = versions[readers[p].mark]
        BY <3>2 DEF ReaderInv, BytesAreOfTheMark
      <3> QED BY <3>2, <3>3, <3>4, <3>5, MovingHolds DEF ReaderPlaces
    <2> QED BY <2>1, <2>2
  <1>f. ASSUME NEW p \in ReaderProcesses, ReadTrace(p) PROVE ReaderInv'
    <2>a. readers[p] \in ReaderStates /\ versions[Len(versions)] \in TraceContents
      BY DEF ReaderInv, ReaderTypes
    <2>b. [readers[p] EXCEPT !.at = "stat", !.bytes = versions[Len(versions)]] \in ReaderStates
      BY <2>a, FieldsKeepReader DEF ReaderPlaces
    <2>c. readers' \in [ReaderProcesses -> ReaderStates]
      BY <1>f, <2>b DEF ReadTrace, ReaderInv, ReaderTypes
    <2>1. /\ readers' \in [ReaderProcesses -> ReaderStates]
          /\ readers'[p].at = "stat" /\ readers'[p].bytes = versions[Len(versions)]
          /\ readers'[p].mark = readers[p].mark /\ readers'[p].root = readers[p].root
          /\ readers[p].at = "read"
          /\ \A q \in ReaderProcesses : q # p => readers'[q] = readers[q]
          /\ UNCHANGED <<slots, versions>>
      BY <1>f, <2>c DEF ReadTrace, OnlyReader, ReaderInv, ReaderTypes, ReaderStates
    <2>2. SlotsAreSpent'
      BY <2>1 DEF ReaderInv, SlotsAreSpent, PastTheSlot
    <2>3. BytesAreOfTheMark'
      BY <2>1 DEF ReaderInv, BytesAreOfTheMark
    <2> QED BY <2>1, <2>2, <2>3 DEF ReaderInv, ReaderTypes
  <1>g. ASSUME SomeoneChangesTrace PROVE ReaderInv'
    <2>1. PICK content \in TraceContents : versions' = Append(versions, content)
      BY <1>g DEF SomeoneChangesTrace
    <2>2. /\ versions' \in Seq(TraceContents)
          /\ Len(versions') = Len(versions) + 1 /\ Len(versions) \in Nat
          /\ \A n \in 1..Len(versions) : versions'[n] = versions[n]
          /\ UNCHANGED <<slots, readers>>
      BY <1>g, <2>1 DEF SomeoneChangesTrace, ReaderInv, ReaderTypes
    <2>3. BytesAreOfTheMark'
      BY <2>2 DEF ReaderInv, BytesAreOfTheMark
    <2>4. SlotsAreSpent'
      BY <2>2 DEF ReaderInv, SlotsAreSpent, PastTheSlot
    <2> QED BY <2>2, <2>3, <2>4 DEF ReaderInv, ReaderTypes
  <1> QED BY <1>a, <1>b, <1>c, <1>d, <1>e, <1>f, <1>g DEF ReaderNext

-----------------------------------------------------------------------------
\* A work root lets one reader at the trace, for ever; and what is shown was the retained
\* trace before the slot was committed.
THEOREM TracesAreReadOnce == ReaderSpec => []TraceIsReadOncePerRoot
  <1>1. ReaderInit => ReaderInv
    BY ReaderInitHolds, ReaderAssumption
  <1>2. ReaderInv /\ [ReaderNext]_readerVars => ReaderInv'
    <2> SUFFICES ASSUME ReaderInv, [ReaderNext]_readerVars
                 PROVE  ReaderInv'
      OBVIOUS
    <2>1. CASE ReaderNext
      BY <2>1, ReaderStepHolds
    <2>2. CASE UNCHANGED readerVars
      BY <2>2 DEF readerVars, ReaderInv, ReaderTypes, SlotsAreSpent, PastTheSlot,
                  BytesAreOfTheMark
    <2> QED BY <2>1, <2>2
  <1>3. ReaderInv => TraceIsReadOncePerRoot
    BY DEF ReaderInv, SlotsAreSpent, PastTheSlot, BytesAreOfTheMark, HaveRead,
           TraceIsReadOncePerRoot
  <1> QED BY <1>1, <1>2, <1>3, PTL DEF ReaderSpec

-----------------------------------------------------------------------------
(* The root of a workspace while it is made.

   The argument.  A root made by an init is whole, and neither a rename nor a removal
   touches what is not empty; so once an init stands behind its rename, the root is its
   own for ever.  A command that has the lock holds the root in its place.        *)

InitializationTypes ==
  /\ DOMAIN root = {"by", "built", "lock"}
  /\ DOMAIN stands = Initializers \cup RootCommands
  /\ DOMAIN reply = Initializers \cup RootCommands
  /\ made \in Nat

RootIsOfSomeone ==
  /\ root.by = Nobody => root = NoRoot
  /\ root.by \in Initializers \cup {Owner, Nobody}
  /\ made = 0 => root.by # Owner

RootIsTheInits ==
  \A i \in Initializers :
    /\ root.by = i => root.built = WholeTree /\ stands[i] \in {"return", "ended", "dead"}
    /\ stands[i] = "return" => root.by = i
    /\ stands[i] # "ended" => reply[i] # "ok"
    /\ stands[i] = "ended" => (reply[i] = "ok" <=> root.by = i)

LockKeepsRoot ==
  \A c \in RootCommands :
    /\ stands[c] \in {"load", "release"} => root.lock = c
    /\ made = 0 => reply[c] # "CANONICAL_INTEGRITY"

RootInv ==
  /\ InitializationTypes
  /\ RootIsOfSomeone
  /\ RootIsTheInits
  /\ LockKeepsRoot

LEMMA RootInitHolds ==
  ASSUME InitializationInit
  PROVE  RootInv
  BY InitializationAssumption
  DEF InitializationInit, RootInv, InitializationTypes, RootIsOfSomeone, RootIsTheInits,
      LockKeepsRoot, NoRoot

\* A process that goes somewhere, and says something.
LEMMA ProcessMoves ==
  ASSUME InitializationTypes, NEW p \in Initializers \cup RootCommands, NEW from, NEW to,
         ProcessGoes(p, from, to), reply' = reply \/ \E a : ProcessSays(p, a)
  PROVE  /\ DOMAIN stands' = Initializers \cup RootCommands
         /\ DOMAIN reply' = Initializers \cup RootCommands
         /\ stands[p] = from /\ stands'[p] = to
         /\ \A q \in (Initializers \cup RootCommands) \ {p} :
              stands'[q] = stands[q] /\ reply'[q] = reply[q]
         /\ \A a : ProcessSays(p, a) => reply'[p] = a
  BY DEF InitializationTypes, ProcessGoes, ProcessSays

LEMMA InitKeepsRoot ==
  ASSUME RootInv, NEW i \in Initializers,
         \/ CheckRoot(i) \/ BuildTree(i) \/ BuildFails(i)
         \/ RenameRefused(i) \/ ReturnIdentifier(i) \/ CleanUp(i) \/ CleanUpFails(i)
         \/ KillInit(i)
  PROVE  RootInv'
  <1>1. /\ UNCHANGED <<root, made>>
        /\ DOMAIN stands' = Initializers \cup RootCommands
        /\ DOMAIN reply' = Initializers \cup RootCommands
        /\ \A q \in (Initializers \cup RootCommands) \ {i} :
              stands'[q] = stands[q] /\ reply'[q] = reply[q]
        /\ \/ stands[i] \in {"start", "build"} /\ stands'[i] \in {"build", "clean", "ended"}
              /\ reply'[i] # "ok"
           \/ stands[i] = "return" /\ stands'[i] = "ended" /\ reply'[i] = "ok"
           \/ stands[i] = "clean" /\ stands'[i] \in {"ended", "stuck"} /\ reply' = reply
           \/ stands[i] \in {"build", "return", "clean"} /\ stands'[i] = "dead" /\ reply' = reply
    <2> USE DEF RootInv, InitializationTypes, ProcessGoes, ProcessSays
    <2>1. CASE CheckRoot(i) \/ BuildTree(i) \/ BuildFails(i)
      BY <2>1 DEF CheckRoot, BuildTree, BuildFails, RootIsTheInits
    <2>2. CASE RenameRefused(i) \/ ReturnIdentifier(i)
      BY <2>2 DEF RenameRefused, ReturnIdentifier, RootIsTheInits
    <2>3. CASE CleanUp(i) \/ CleanUpFails(i) \/ KillInit(i)
      BY <2>3 DEF CleanUp, CleanUpFails, KillInit
    <2> QED BY <2>1, <2>2, <2>3
  <1> QED
    BY <1>1, InitializationAssumption
    DEF RootInv, InitializationTypes, RootIsOfSomeone, RootIsTheInits, LockKeepsRoot

LEMMA RenameMakesRoot ==
  ASSUME RootInv, NEW i \in Initializers, RenameTree(i)
  PROVE  RootInv'
  <1>1. /\ UNCHANGED <<made, reply>>
        /\ DOMAIN stands' = Initializers \cup RootCommands
        /\ \A q \in (Initializers \cup RootCommands) \ {i} : stands'[q] = stands[q]
        /\ stands[i] = "build" /\ stands'[i] = "return"
        /\ root' = [by |-> i, built |-> WholeTree, lock |-> Nobody]
        /\ ~RootExists \/ EmptyDirectory
    BY DEF RenameTree, ProcessGoes, RootInv, InitializationTypes
  <1>2. root.lock = Nobody /\ root.built # WholeTree
    BY <1>1 DEF RootInv, RootIsOfSomeone, NoRoot, RootExists, EmptyDirectory, WholeTree
  <1> QED
    BY <1>1, <1>2, InitializationAssumption
    DEF RootInv, InitializationTypes, RootIsOfSomeone, RootIsTheInits, LockKeepsRoot

LEMMA CommandKeepsRoot ==
  ASSUME RootInv, NEW c \in RootCommands,
         \/ FindRoot(c) \/ OpenLock(c) \/ OpenLockFails(c) \/ LoadRoot(c)
         \/ ReleaseLock(c) \/ KillCommand(c)
  PROVE  RootInv'
  <1>1. /\ UNCHANGED made
        /\ DOMAIN stands' = Initializers \cup RootCommands
        /\ DOMAIN reply' = Initializers \cup RootCommands
        /\ \A q \in (Initializers \cup RootCommands) \ {c} :
              stands'[q] = stands[q] /\ reply'[q] = reply[q]
        /\ \/ /\ stands'[c] \notin {"load", "release"} /\ root' = root
              /\ reply'[c] # "CANONICAL_INTEGRITY" \/ reply' = reply
           \/ /\ stands'[c] = "load" /\ reply' = reply
              /\ root' = [root EXCEPT !.lock = c] /\ root.lock = Nobody /\ RootExists
           \/ /\ stands[c] = "load" /\ stands'[c] = "release" /\ root' = root
              /\ reply'[c] = "CANONICAL_INTEGRITY" => root.built # WholeTree
           \/ /\ stands[c] = "release" /\ stands'[c] = "ended" /\ reply' = reply
              /\ root' = [root EXCEPT !.lock = Nobody]
    <2> USE DEF RootInv, InitializationTypes, ProcessGoes, ProcessSays
    <2>1. CASE FindRoot(c)
      BY <2>1 DEF FindRoot
    <2>2. CASE OpenLock(c)
      BY <2>2 DEF OpenLock
    <2>3. CASE OpenLockFails(c)
      BY <2>3 DEF OpenLockFails
    <2>4. CASE LoadRoot(c) \/ ReleaseLock(c) \/ KillCommand(c)
      BY <2>4 DEF LoadRoot, ReleaseLock, KillCommand
    <2> QED BY <2>1, <2>2, <2>3, <2>4
  <1>2. stands[c] = "load" => root.by # Nobody
    BY InitializationAssumption DEF RootInv, LockKeepsRoot, RootIsOfSomeone, NoRoot
  <1>3. InitializationTypes' /\ RootIsOfSomeone'
    BY <1>1, <1>2, InitializationAssumption
    DEF RootInv, InitializationTypes, RootIsOfSomeone, LockKeepsRoot, RootExists, NoRoot
  <1>4. root'.by = root.by /\ root'.built = root.built /\ c \notin Initializers
    BY <1>1, InitializationAssumption DEF RootInv, InitializationTypes
  <1>5. RootIsTheInits'
    BY <1>1, <1>4 DEF RootInv, RootIsTheInits
  <1>6. LockKeepsRoot'
    BY <1>1, <1>2, InitializationAssumption
    DEF RootInv, InitializationTypes, RootIsOfSomeone, RootIsTheInits, LockKeepsRoot
  <1> QED BY <1>3, <1>5, <1>6 DEF RootInv

LEMMA OwnerKeepsRoot ==
  ASSUME RootInv, MakeDirectory \/ RemoveDirectory
  PROVE  RootInv'
  <1>1. root.lock = Nobody /\ root.by \notin Initializers
    BY InitializationAssumption
    DEF MakeDirectory, RemoveDirectory, RootExists, EmptyDirectory, RootInv,
        RootIsOfSomeone, RootIsTheInits, NoRoot, WholeTree
  <1>2. root'.by \in {Owner, Nobody} /\ made' \in Nat /\ (root'.by = Owner => made' # 0)
    BY InitializationAssumption
    DEF MakeDirectory, RemoveDirectory, NoRoot, RootInv, InitializationTypes
  <1> QED
    BY <1>1, <1>2, InitializationAssumption
    DEF MakeDirectory, RemoveDirectory, NoRoot, RootInv, InitializationTypes,
        RootIsOfSomeone, RootIsTheInits, LockKeepsRoot

LEMMA RootStepHolds ==
  ASSUME RootInv, [InitializationNext]_initializationVars
  PROVE  RootInv'
  <1>1. CASE UNCHANGED initializationVars
    BY <1>1 DEF initializationVars, RootInv, InitializationTypes, RootIsOfSomeone,
                RootIsTheInits, LockKeepsRoot
  <1> QED
    BY <1>1, InitKeepsRoot, RenameMakesRoot, CommandKeepsRoot, OwnerKeepsRoot
    DEF InitializationNext

\* For any number of inits and commands that race, and whatever is made by hand at the
\* root's name: initializeWorkspace makes one workspace, of the init that announces it, and
\* no command that gets the lock ever finds it half made.
THEOREM OneWorkspaceIsMade == InitializationSpec => []OneWholeWorkspace
  <1>1. InitializationInit => RootInv
    BY RootInitHolds
  <1>2. RootInv /\ [InitializationNext]_initializationVars => RootInv'
    BY RootStepHolds
  <1>3. RootInv => OneWholeWorkspace
    BY DEF RootInv, RootIsTheInits, LockKeepsRoot, OneWholeWorkspace
  <1> QED BY <1>1, <1>2, <1>3, PTL DEF InitializationSpec

-----------------------------------------------------------------------------
(* The report of a sandbox preflight.

   The argument.  What the model does to the fixture leaves a mark on an entry that it
   cannot take off, the directory's own at the last, and what the server has heard is
   counted when its call is over; so a probe that found every mark as it was, and nothing
   counted, was of a model that did neither.  As long as no directory above it is
   exchanged, the marks of the binary only grow as well.                              *)

BeforeTheProbe ==
  {"start", "stat", "hash", "restat", "version", "compare", "rehash", "host", "fixture", "capture", "listen", "state", "call"}
Watched == {"listen", "state", "call", "calling", "trace", "files", "inventory", "metadata"}
CleaningUp == {"drop", "close", "remove"}
Passing == {"write", "done"}

PreflightParts ==
  {"at", "adversarial", "seen", "hashed", "ran", "initial", "counted", "failed"}

PreflightTypes ==
  /\ DOMAIN preflight = PreflightParts
  /\ DOMAIN loopback = {"state", "waiting", "heard", "open"} /\ loopback.heard \in Nat
  /\ effects \in Nat /\ binary.mark \in 0..(effects + 1) /\ elsewhere.mark \in 0..(effects + 1)
  /\ preflight.counted \in Nat
  /\ \A n \in DOMAIN fixture :
       DOMAIN fixture[n] = {"content", "mark"} /\ fixture[n].mark \in Nat
  /\ fixture # NoFixture => "directory" \in DOMAIN fixture
  /\ overstepped \in BOOLEAN /\ rerouted \in BOOLEAN /\ preflight.failed \in BOOLEAN

\* Nobody can undo that something was touched.
FixtureIsTouched == \E n \in DOMAIN fixture : fixture[n].mark > 0

\* Until the version was compared; then it has the mark that was hashed.
BinaryIsFollowed ==
  \/ rerouted
  \/ /\ preflight.at = "hash" => preflight.seen \in 0..binary.mark
     /\ preflight.at = "restat" =>
          preflight.hashed \in 0..binary.mark /\ preflight.seen \in 0..preflight.hashed
     /\ preflight.at = "version" =>
          preflight.hashed \in 0..binary.mark /\ preflight.seen = preflight.hashed
     /\ preflight.at = "compare" =>
          /\ preflight.ran \in 0..binary.mark /\ preflight.hashed \in 0..preflight.ran
          /\ preflight.seen = preflight.hashed
     /\ preflight.at \in (BeforeTheProbe
                            \ {"start", "stat", "hash", "restat", "version", "compare"})
                           \cup (Watched \cup CleaningUp \cup Passing \cup {"result"})
          => preflight.ran = preflight.hashed

ModelIsFollowed ==
  /\ preflight.at \in BeforeTheProbe => model = "none" /\ ~overstepped
  /\ model = "running" => preflight.at = "calling"
  /\ preflight.at \in {"capture", "result"} \cup Watched => "directory" \in DOMAIN fixture
  /\ preflight.at = "capture" => ~FixtureIsTouched
  /\ preflight.at \in Watched => \A n \in DOMAIN preflight.initial : preflight.initial[n] = 0
  /\ preflight.at \in {"calling", "trace"} =>
       (overstepped => FixtureIsTouched \/ loopback.heard > 0)
  /\ preflight.at \in {"files", "inventory", "metadata"} =>
       (overstepped => FixtureIsTouched \/ preflight.counted > 0)
  /\ preflight.at \in {"result"} \cup Passing => ~overstepped
  /\ preflight.at \in CleaningUp => preflight.failed \/ ~overstepped

ProbeIsCleanedUp ==
  /\ preflight.at \in {"close", "remove"} => preflight.failed \/ ~codexHome
  /\ preflight.at = "remove" => loopback.state = "closed"
  /\ preflight.at \in Passing /\ preflight.adversarial =>
       fixture = NoFixture /\ ~codexHome /\ loopback.state = "closed"

ReportIsOfTheEnd ==
  /\ report \in {"adversarial-passed", "identity-and-config-passed"} => preflight.at = "done"
  /\ report = "adversarial-passed" => preflight.adversarial

PreflightInv ==
  /\ PreflightTypes
  /\ BinaryIsFollowed
  /\ ModelIsFollowed
  /\ ProbeIsCleanedUp
  /\ ReportIsOfTheEnd

LEMMA PreflightInitHolds ==
  ASSUME PreflightInit
  PROVE  PreflightInv
  <1>1. /\ preflight.at = "start" /\ preflight.failed = FALSE /\ preflight.counted = 0
        /\ DOMAIN preflight = PreflightParts
    BY DEF PreflightInit, FreshPreflight, PreflightParts
  <1>2. /\ DOMAIN loopback = {"state", "waiting", "heard", "open"} /\ loopback.heard = 0
        /\ effects = 0 /\ binary.mark = 0 /\ elsewhere.mark = 1 /\ rerouted = FALSE
        /\ fixture = NoFixture /\ DOMAIN fixture = {}
        /\ model = "none" /\ report = "none" /\ overstepped = FALSE
    BY DEF PreflightInit, NoFixture
  <1>3. PreflightTypes
    <2>1. overstepped \in BOOLEAN /\ rerouted \in BOOLEAN /\ preflight.failed \in BOOLEAN
      BY <1>1, <1>2
    <2> QED BY <1>1, <1>2, <2>1 DEF PreflightTypes
  <1> QED
    BY <1>1, <1>2, <1>3
    DEF PreflightInv, BinaryIsFollowed, ModelIsFollowed, ProbeIsCleanedUp, ReportIsOfTheEnd,
        BeforeTheProbe, Watched, CleaningUp, Passing

\* What it is for the controller to go on, or to fail.
LEMMA Controlling ==
  ASSUME PreflightTypes, NEW to
  PROVE  /\ Proceeds(to) =>
              /\ DOMAIN preflight' = DOMAIN preflight /\ preflight'.at = to
              /\ \A part \in DOMAIN preflight \ {"at"} : preflight'[part] = preflight[part]
         /\ Fails(to) =>
              /\ DOMAIN preflight' = DOMAIN preflight /\ preflight'.at = to
              /\ preflight'.failed = TRUE
              /\ \A part \in DOMAIN preflight \ {"at", "failed"} : preflight'[part] = preflight[part]
  BY DEF PreflightTypes, PreflightParts, Proceeds, Fails

\* A controller that gives up reports nothing.
LEMMA GivingUpHolds ==
  ASSUME PreflightInv, PreflightTypes', preflight'.at = "rejected", preflight.at # "done",
         report' = report \/ report' = "foreign", model' # "running"
  PROVE  PreflightInv'
  BY DEF PreflightInv, BinaryIsFollowed, ModelIsFollowed, ProbeIsCleanedUp, ReportIsOfTheEnd,
         BeforeTheProbe, Watched, CleaningUp, Passing

LEMMA IdentifyingHolds ==
  ASSUME PreflightInv,
         \/ StartPreflight \/ StatBinary \/ HashBinary \/ AdmitBinary
         \/ RunVersion \/ CompareBinary \/ RehashBinary \/ ReadHostIdentity
  PROVE  PreflightInv'
  <1> USE DEF PreflightStepAt, ownersVars, Proceeds, PreflightInv, PreflightTypes,
              PreflightParts
  <1>1. /\ OutsideFixture /\ UNCHANGED <<report, ownersVars, overstepped>>
        /\ model = "none" /\ ~overstepped /\ preflight.at \in BeforeTheProbe
        /\ DOMAIN preflight' = DOMAIN preflight
        /\ preflight'.failed = preflight.failed /\ preflight'.counted = preflight.counted
    BY DEF StartPreflight, StatBinary, HashBinary, AdmitBinary, RunVersion, CompareBinary,
           RehashBinary, ReadHostIdentity, ModelIsFollowed, BeforeTheProbe
  <1>2. PreflightTypes'
    BY <1>1 DEF OutsideFixture
  <1>3. \/ preflight'.at = "rejected"
        \/ preflight'.at = "stat"
        \/ preflight'.at = "hash" /\ preflight'.seen = binary.mark
        \/ /\ preflight.at = "hash" /\ preflight'.at = "restat"
           /\ preflight'.seen = preflight.seen /\ preflight'.hashed = binary.mark
        \/ /\ preflight.at = "restat" /\ preflight'.at = "version"
           /\ preflight'.seen = preflight.seen /\ preflight'.hashed = preflight.hashed
           /\ binary.mark = preflight.seen
        \/ /\ preflight.at = "version" /\ preflight'.at = "compare"
           /\ preflight'.seen = preflight.seen /\ preflight'.hashed = preflight.hashed
           /\ preflight'.ran = binary.mark
        \/ /\ preflight.at = "compare" /\ preflight'.at = "rehash"
           /\ binary.mark = preflight.seen
           /\ preflight'.hashed = preflight.hashed /\ preflight'.ran = preflight.ran
        \/ /\ preflight.at \in {"rehash", "host"} /\ preflight'.at \in {"host", "fixture", "write"}
           /\ preflight'.hashed = preflight.hashed /\ preflight'.ran = preflight.ran
           /\ preflight'.at = "write" => ~preflight'.adversarial
    BY DEF StartPreflight, StatBinary, HashBinary, AdmitBinary, RunVersion, CompareBinary,
           RehashBinary, ReadHostIdentity
  <1>4. BinaryIsFollowed'
    <2>1. rerouted' = rerouted /\ binary' = binary /\ binary.mark \in Nat
      BY <1>1
    <2> QED BY <1>1, <1>3, <2>1 DEF BinaryIsFollowed, BeforeTheProbe, Watched, CleaningUp, Passing
  <1>5. ModelIsFollowed'
    BY <1>1, <1>3
    DEF ModelIsFollowed, OutsideFixture, BeforeTheProbe, Watched, CleaningUp, Passing
  <1>6. ProbeIsCleanedUp' /\ ReportIsOfTheEnd'
    BY <1>1, <1>3
    DEF ProbeIsCleanedUp, ReportIsOfTheEnd, BeforeTheProbe, Watched, CleaningUp, Passing
  <1> QED BY <1>2, <1>4, <1>5, <1>6

LEMMA PlacingHolds ==
  ASSUME PreflightInv, CreateFixture \/ CaptureMetadata \/ ListenOnLoopback
  PROVE  PreflightInv'
  <1> USE DEF ownersVars
  <1>1. /\ UNCHANGED <<report, ownersVars, overstepped, codexHome, model>>
        /\ model = "none" /\ ~overstepped /\ preflight.at \in BeforeTheProbe
        /\ DOMAIN preflight' = DOMAIN preflight
        /\ preflight'.failed = preflight.failed /\ preflight'.counted = preflight.counted
        /\ preflight'.hashed = preflight.hashed /\ preflight'.ran = preflight.ran
    BY DEF CreateFixture, CaptureMetadata, ListenOnLoopback,
           PreflightStepAt, Proceeds, PreflightInv, PreflightTypes, PreflightParts, ModelIsFollowed,
           BeforeTheProbe
  <1>2. /\ DOMAIN loopback' = DOMAIN loopback /\ loopback'.heard = loopback.heard
        /\ \/ fixture' = fixture \/ fixture' = NoFixture
           \/ fixture' = [n \in {"directory"} |-> Canary(0)] \/ fixture' = [n \in Placed |-> Canary(0)]
    BY DEF CreateFixture, CaptureMetadata, ListenOnLoopback, PreflightInv, PreflightTypes, PreflightParts
  <1>3. PreflightTypes'
    <2>1. DOMAIN NoFixture = {} /\ "directory" \in Placed /\ DOMAIN Canary(0) = {"content", "mark"}
          /\ Canary(0).mark = 0
      BY DEF NoFixture, Placed, Canary
    <2> QED BY <1>1, <1>2, <2>1 DEF PreflightInv, PreflightTypes, PreflightParts
  <1>4. CASE preflight'.at = "rejected"
    BY <1>1, <1>3, <1>4, GivingUpHolds DEF BeforeTheProbe
  <1>5. CASE preflight'.at # "rejected"
    <2>1. \/ /\ preflight.at = "fixture" /\ preflight'.at = "capture"
             /\ fixture' = [n \in Placed |-> Canary(0)]
          \/ /\ preflight.at = "capture" /\ preflight'.at = "listen" /\ fixture' = fixture
             /\ preflight'.initial = [n \in DOMAIN fixture |-> fixture[n].mark]
          \/ /\ preflight.at = "listen" /\ preflight'.at = "state" /\ fixture' = fixture
             /\ preflight'.initial = preflight.initial
      BY <1>5 DEF CreateFixture, CaptureMetadata, ListenOnLoopback,
                  PreflightStepAt, Proceeds, PreflightInv, PreflightTypes, PreflightParts
    <2>2. preflight'.at = "capture" => ~FixtureIsTouched'
      BY <2>1 DEF FixtureIsTouched, Canary
    <2>7. "directory" \in DOMAIN fixture'
      BY <2>1 DEF PreflightInv, ModelIsFollowed, Placed, Watched
    <2>3. preflight'.at \in {"listen", "state"} =>
            \A n \in DOMAIN preflight'.initial : preflight'.initial[n] = 0
      BY <2>1 DEF PreflightInv, PreflightTypes, PreflightParts, ModelIsFollowed, FixtureIsTouched, Watched
    <2>4. ModelIsFollowed'
      BY <1>1, <2>1, <2>2, <2>3, <2>7
      DEF ModelIsFollowed, BeforeTheProbe, Watched, CleaningUp, Passing
    <2>5. BinaryIsFollowed'
      BY <1>1, <2>1
      DEF PreflightInv, BinaryIsFollowed, BeforeTheProbe, Watched, CleaningUp, Passing
    <2>6. ProbeIsCleanedUp' /\ ReportIsOfTheEnd'
      BY <1>1, <2>1
      DEF PreflightInv, ProbeIsCleanedUp, ReportIsOfTheEnd, BeforeTheProbe, Watched, CleaningUp, Passing
    <2> QED BY <1>3, <2>4, <2>5, <2>6 DEF PreflightInv
  <1> QED BY <1>4, <1>5

LEMMA CallingModelHolds ==
  ASSUME PreflightInv, SetUpCodexState \/ StartProbe \/ ProbeEnds \/ JudgeProbeTrace
  PROVE  PreflightInv'
  <1> USE DEF ownersVars
  <1>1. /\ UNCHANGED <<report, ownersVars, overstepped, fixture>>
        /\ DOMAIN preflight' = DOMAIN preflight
        /\ preflight'.hashed = preflight.hashed /\ preflight'.ran = preflight.ran
        /\ preflight'.initial = preflight.initial
        /\ preflight.at \in Watched
    BY DEF SetUpCodexState, StartProbe, ProbeEnds, JudgeProbeTrace,
           PreflightStepAt, Proceeds, Fails, PreflightInv, PreflightTypes, PreflightParts, OutsideFixture, Watched
  <1>2. DOMAIN loopback' = DOMAIN loopback /\ loopback'.heard = loopback.heard
    BY DEF SetUpCodexState, StartProbe, ProbeEnds, JudgeProbeTrace, PreflightInv,
           PreflightTypes, PreflightParts, OutsideFixture
  <1>3. \/ /\ preflight'.at \in {"drop", "close"} /\ preflight'.failed = TRUE
           /\ model' # "running" /\ preflight'.counted = preflight.counted
        \/ /\ preflight'.failed = preflight.failed
           /\ \/ /\ preflight.at = "state" /\ preflight'.at = "call" /\ model' = model
                 /\ preflight'.counted = preflight.counted
              \/ /\ preflight.at = "call" /\ preflight'.at = "calling"
                 /\ preflight'.counted = preflight.counted
              \/ /\ preflight.at = "calling" /\ preflight'.at = "trace" /\ model' # "running"
                 /\ preflight'.counted = preflight.counted
              \/ /\ preflight.at = "trace" /\ preflight'.at = "files" /\ model' = model
                 /\ preflight'.counted = loopback.heard
    <2> USE DEF PreflightStepAt, Proceeds, Fails, PreflightInv, PreflightTypes, PreflightParts, OutsideFixture,
                ModelIsFollowed
    <2>1. CASE SetUpCodexState
      BY <2>1 DEF SetUpCodexState, BeforeTheProbe
    <2>2. CASE StartProbe
      BY <2>2 DEF StartProbe, BeforeTheProbe
    <2>3. CASE ProbeEnds
      BY <2>3 DEF ProbeEnds
    <2>4. CASE JudgeProbeTrace
      BY <2>4 DEF JudgeProbeTrace
    <2> QED BY <2>1, <2>2, <2>3, <2>4
  <1>4. PreflightTypes'
    BY <1>1, <1>2, <1>3 DEF PreflightInv, PreflightTypes, PreflightParts
  <1>5. ModelIsFollowed'
    BY <1>1, <1>2, <1>3
    DEF PreflightInv, ModelIsFollowed, FixtureIsTouched, BeforeTheProbe, Watched, CleaningUp, Passing
  <1>6. BinaryIsFollowed'
    BY <1>1, <1>3
    DEF PreflightInv, BinaryIsFollowed, BeforeTheProbe, Watched, CleaningUp, Passing
  <1>7. ProbeIsCleanedUp' /\ ReportIsOfTheEnd'
    BY <1>1, <1>3
    DEF PreflightInv, ProbeIsCleanedUp, ReportIsOfTheEnd, BeforeTheProbe, Watched, CleaningUp, Passing
  <1> QED BY <1>4, <1>5, <1>6, <1>7 DEF PreflightInv

LEMMA FindingHolds ==
  ASSUME PreflightInv, AssertFiles \/ AssertInventory \/ AssertNoModelSideEffects
  PROVE  PreflightInv'
  <1> USE DEF ownersVars
  <1>1. /\ UNCHANGED <<report, ownersVars, overstepped, fixture, loopback, codexHome, model>>
        /\ DOMAIN preflight' = DOMAIN preflight
        /\ preflight'.hashed = preflight.hashed /\ preflight'.ran = preflight.ran
        /\ preflight'.initial = preflight.initial /\ preflight'.counted = preflight.counted
        /\ preflight.at \in {"files", "inventory", "metadata"}
        /\ \/ preflight'.at = "drop" /\ preflight'.failed = TRUE
           \/ /\ preflight'.failed = preflight.failed
              /\ \/ preflight'.at \in {"inventory", "metadata"}
                 \/ /\ preflight'.at = "result" /\ preflight.at = "metadata"
                    /\ preflight.counted = 0 /\ AsCaptured
    BY DEF AssertFiles, AssertInventory, AssertNoModelSideEffects, Finds, PreflightStepAt,
           Proceeds, Fails, OutsideFixture, PreflightInv, PreflightTypes, PreflightParts
  <1>2. PreflightTypes'
    BY <1>1 DEF PreflightInv, PreflightTypes, PreflightParts
  <1>3. preflight.at = "metadata" /\ AsCaptured => ~FixtureIsTouched
    BY DEF PreflightInv, ModelIsFollowed, Watched, AsCaptured, FixtureIsTouched
  <1>4. ModelIsFollowed'
    BY <1>1, <1>3
    DEF PreflightInv, ModelIsFollowed, FixtureIsTouched, BeforeTheProbe, Watched, CleaningUp, Passing
  <1>5. BinaryIsFollowed'
    BY <1>1
    DEF PreflightInv, BinaryIsFollowed, BeforeTheProbe, Watched, CleaningUp, Passing
  <1>6. ProbeIsCleanedUp' /\ ReportIsOfTheEnd'
    BY <1>1
    DEF PreflightInv, ProbeIsCleanedUp, ReportIsOfTheEnd, BeforeTheProbe, Watched, CleaningUp, Passing
  <1> QED BY <1>2, <1>4, <1>5, <1>6 DEF PreflightInv

LEMMA CleaningHolds ==
  ASSUME PreflightInv,
         WriteControllerResult \/ DropCodexState \/ CloseServer \/ RemoveFixture
  PROVE  PreflightInv'
  <1> USE DEF ownersVars
  <1>1. /\ UNCHANGED <<report, ownersVars, overstepped, model>>
        /\ DOMAIN preflight' = DOMAIN preflight
        /\ preflight'.hashed = preflight.hashed /\ preflight'.ran = preflight.ran
        /\ preflight'.counted = preflight.counted
        /\ preflight'.adversarial = preflight.adversarial
        /\ preflight.at \in {"result"} \cup CleaningUp
        /\ DOMAIN loopback' = DOMAIN loopback /\ loopback'.heard = loopback.heard
        /\ preflight'.at \in CleaningUp \cup {"rejected", "write"}
        /\ preflight'.failed = TRUE \/ preflight'.failed = preflight.failed
    BY ZenonT(40) DEF WriteControllerResult, DropCodexState, CloseServer, RemoveFixture, PreflightStepAt,
           Proceeds, Fails, PreflightInv, PreflightTypes, PreflightParts, CleaningUp
  <1>2. \/ fixture' = fixture \/ fixture' = NoFixture
        \/ fixture' = [n \in DOMAIN fixture \cup {"result"} |->
                         IF n = "result" THEN Canary(0) ELSE fixture[n]]
           /\ preflight.at = "result" /\ "result" \notin DOMAIN fixture
    BY DEF WriteControllerResult, DropCodexState, CloseServer, RemoveFixture, PreflightStepAt
  <1>3. /\ preflight'.at = "close" => preflight'.failed \/ ~codexHome'
        /\ preflight'.at = "remove" =>
             /\ loopback'.state = "closed" /\ codexHome' = codexHome
             /\ preflight.at = "close" /\ preflight'.failed = preflight.failed
        /\ preflight'.at = "write" =>
             /\ preflight.at = "remove" /\ fixture' = NoFixture /\ ~preflight.failed
             /\ UNCHANGED <<codexHome, loopback>>
        /\ preflight.at \in CleaningUp => preflight.failed \/ ~overstepped
    BY DEF WriteControllerResult, DropCodexState, CloseServer, RemoveFixture, PreflightStepAt,
           Proceeds, Fails, PreflightInv, PreflightTypes, PreflightParts, ModelIsFollowed
  <1>4. PreflightTypes'
    <2>1. \A n \in DOMAIN fixture' :
            DOMAIN fixture'[n] = {"content", "mark"} /\ fixture'[n].mark \in Nat
      BY <1>2 DEF PreflightInv, PreflightTypes, PreflightParts, NoFixture, Canary
    <2>2. fixture' # NoFixture => "directory" \in DOMAIN fixture'
      <3>1. CASE fixture' = fixture \/ fixture' = NoFixture
        BY <3>1 DEF PreflightInv, PreflightTypes, PreflightParts
      <3>2. CASE preflight.at = "result" /\ DOMAIN fixture \subseteq DOMAIN fixture'
        BY <3>2 DEF PreflightInv, ModelIsFollowed
      <3> QED BY <1>2, <3>1, <3>2
    <2> QED BY <1>1, <2>1, <2>2 DEF PreflightInv, PreflightTypes, PreflightParts
  <1>5. ModelIsFollowed'
    BY <1>1, <1>3
    DEF PreflightInv, ModelIsFollowed, BeforeTheProbe, Watched, CleaningUp, Passing
  <1>6. BinaryIsFollowed'
    BY <1>1
    DEF PreflightInv, BinaryIsFollowed, BeforeTheProbe, Watched, CleaningUp, Passing
  <1>7. ProbeIsCleanedUp' /\ ReportIsOfTheEnd'
    BY <1>1, <1>3
    DEF PreflightInv, ProbeIsCleanedUp, ReportIsOfTheEnd, BeforeTheProbe, Watched, CleaningUp, Passing
  <1> QED BY <1>4, <1>5, <1>6, <1>7 DEF PreflightInv

LEMMA ReportingOrDyingHolds ==
  ASSUME PreflightInv, WritePreflightFile \/ PreflightKilled
  PROVE  PreflightInv'
  <1> USE DEF ownersVars
  <1>1. /\ UNCHANGED <<ownersVars, overstepped, fixture, loopback, codexHome>>
        /\ DOMAIN preflight' = DOMAIN preflight
        /\ preflight'.hashed = preflight.hashed /\ preflight'.ran = preflight.ran
        /\ preflight'.initial = preflight.initial /\ preflight'.counted = preflight.counted
        /\ preflight'.failed = preflight.failed /\ preflight'.adversarial = preflight.adversarial
        /\ preflight.at \notin {"start", "done", "rejected"}
    BY DEF WritePreflightFile, PreflightKilled, PreflightStepAt, Proceeds, OutsideFixture,
           PreflightInv, PreflightTypes, PreflightParts
  <1>2. PreflightTypes'
    BY <1>1 DEF PreflightInv, PreflightTypes, PreflightParts
  <1>3. CASE preflight'.at = "rejected"
    <2>1. report' = report \/ report' = "foreign"
      BY <1>3 DEF WritePreflightFile, PreflightKilled, Proceeds, PreflightInv, PreflightTypes, PreflightParts
    <2>2. model' # "running"
      BY DEF WritePreflightFile, PreflightKilled, PreflightStepAt, OutsideFixture,
             PreflightInv, ModelIsFollowed
    <2> QED BY <1>1, <1>2, <1>3, <2>1, <2>2, GivingUpHolds
  <1>4. CASE preflight'.at # "rejected"
    <2>1. /\ preflight.at = "write" /\ preflight'.at = "done" /\ model' = model
          /\ report' = IF preflight.adversarial THEN "adversarial-passed"
                       ELSE "identity-and-config-passed"
      BY <1>4 DEF WritePreflightFile, PreflightKilled, PreflightStepAt, Proceeds, OutsideFixture,
                  PreflightInv, PreflightTypes, PreflightParts
    <2>2. BinaryIsFollowed' /\ ModelIsFollowed'
      BY <1>1, <2>1
      DEF PreflightInv, BinaryIsFollowed, ModelIsFollowed, BeforeTheProbe, Watched, CleaningUp,
          Passing
    <2>3. ProbeIsCleanedUp' /\ ReportIsOfTheEnd'
      BY <1>1, <2>1 DEF PreflightInv, ProbeIsCleanedUp, ReportIsOfTheEnd, Passing
    <2> QED BY <1>2, <2>2, <2>3 DEF PreflightInv
  <1> QED BY <1>3, <1>4

\* Whatever the model does to the fixture leaves a new mark on something that is there.
LEMMA TouchingLeavesAMark ==
  ASSUME PreflightInv, ModelWritesFile \/ ModelRemovesFile
  PROVE  /\ FixtureIsTouched' /\ "directory" \in DOMAIN fixture' /\ fixture # NoFixture
         /\ \A n \in DOMAIN fixture' :
              DOMAIN fixture'[n] = {"content", "mark"} /\ fixture'[n].mark \in Nat
  <1>1. /\ effects \in Nat
        /\ \A n \in DOMAIN fixture :
             DOMAIN fixture[n] = {"content", "mark"} /\ fixture[n].mark \in Nat
    BY DEF PreflightInv, PreflightTypes, PreflightParts
  <1>2. fixture # NoFixture /\ "directory" \in DOMAIN fixture
    <2>1. DOMAIN NoFixture = {}
      BY DEF NoFixture
    <2> QED BY <2>1 DEF ModelWritesFile, ModelRemovesFile, ModelTouches, PreflightInv, PreflightTypes, PreflightParts
  <1>3. CASE ModelWritesFile
    <2>1. PICK n, content : fixture' = WithEntry(n, content)
      BY <1>3 DEF ModelWritesFile
    <2>2. n \in DOMAIN fixture' /\ fixture'[n].mark = effects + 1
      BY <2>1 DEF WithEntry
    <2>3. \A m \in DOMAIN fixture' :
            DOMAIN fixture'[m] = {"content", "mark"} /\ fixture'[m].mark \in Nat
      BY <1>1, <2>1 DEF WithEntry, Canary
    <2>4. FixtureIsTouched'
      BY <1>1, <2>2 DEF FixtureIsTouched
    <2>5. "directory" \in DOMAIN fixture'
      BY <1>2, <2>1 DEF WithEntry
    <2> QED BY <1>2, <2>3, <2>4, <2>5
  <1>4. CASE ModelRemovesFile
    <2>1. PICK n \in DOMAIN fixture \ {"directory"} :
            fixture' = [m \in DOMAIN fixture \ {n} |->
                          IF m = "directory" THEN Canary(effects + 1) ELSE fixture[m]]
      BY <1>4 DEF ModelRemovesFile
    <2>2. "directory" \in DOMAIN fixture' /\ fixture'["directory"].mark = effects + 1
      BY <1>2, <2>1 DEF Canary
    <2>3. \A m \in DOMAIN fixture' :
            DOMAIN fixture'[m] = {"content", "mark"} /\ fixture'[m].mark \in Nat
      BY <1>1, <2>1 DEF Canary
    <2> QED BY <1>1, <1>2, <2>2, <2>3 DEF FixtureIsTouched
  <1> QED BY <1>3, <1>4

LEMMA ModelTouchesHolds ==
  ASSUME PreflightInv, ModelWritesFile \/ ModelRemovesFile
  PROVE  PreflightInv'
  <1>1. /\ UNCHANGED <<preflight, loopback, codexHome, binary, elsewhere, rerouted, model, report>>
        /\ effects' = effects + 1 /\ model \in {"running", "escaped"}
        /\ overstepped' = (overstepped \/ model = "running")
    BY DEF ModelWritesFile, ModelRemovesFile, ModelTouches, ModelActs
  <1>2. /\ FixtureIsTouched' /\ "directory" \in DOMAIN fixture' /\ fixture # NoFixture
        /\ \A n \in DOMAIN fixture' :
             DOMAIN fixture'[n] = {"content", "mark"} /\ fixture'[n].mark \in Nat
    BY TouchingLeavesAMark
  <1>3. PreflightTypes'
    <2>1. overstepped' \in BOOLEAN
      BY <1>1 DEF PreflightInv, PreflightTypes
    <2> QED BY <1>1, <1>2, <2>1 DEF PreflightInv, PreflightTypes
  <1>4. preflight.at \notin BeforeTheProbe
    BY <1>1 DEF PreflightInv, ModelIsFollowed
  <1>5. overstepped' # overstepped => preflight.at = "calling"
    BY <1>1 DEF PreflightInv, PreflightTypes, ModelIsFollowed
  <1>6. ModelIsFollowed'
    BY <1>1, <1>2, <1>4, <1>5
    DEF PreflightInv, ModelIsFollowed, BeforeTheProbe, Watched, CleaningUp, Passing
  <1>7. BinaryIsFollowed'
    BY <1>1 DEF PreflightInv, BinaryIsFollowed
  <1>8. ProbeIsCleanedUp' /\ ReportIsOfTheEnd'
    BY <1>1, <1>2 DEF PreflightInv, ProbeIsCleanedUp, ReportIsOfTheEnd
  <1> QED BY <1>3, <1>6, <1>7, <1>8 DEF PreflightInv

\* What the server hears while the model is running will be counted.
LEMMA ConnectingHolds ==
  ASSUME PreflightInv, ModelConnects \/ HearConnection
  PROVE  PreflightInv'
  <1>1. /\ UNCHANGED <<preflight, fixture, codexHome, binary, elsewhere, rerouted, model, report>>
        /\ effects' \in {effects, effects + 1}
        /\ DOMAIN loopback' = DOMAIN loopback /\ loopback'.state = loopback.state
        /\ loopback'.heard \in Nat /\ loopback'.heard >= loopback.heard
        /\ \/ overstepped' = overstepped
           \/ overstepped' = (overstepped \/ model = "running") /\ loopback'.heard > 0
    <2> USE DEF PreflightInv, PreflightTypes
    <2>1. CASE ModelConnects
      <3>1. UNCHANGED overstepped /\ effects' = effects + 1
        BY <2>1 DEF ModelConnects, ModelActs
      <3> QED BY <2>1, <3>1 DEF ModelConnects, ModelActs
    <2>2. CASE HearConnection
      <3>1. loopback'.heard = loopback.heard + 1 /\ loopback'.state = loopback.state
            /\ DOMAIN loopback' = DOMAIN loopback
        BY <2>2 DEF HearConnection
      <3>2. overstepped' = (overstepped \/ model = "running")
        BY <2>2 DEF HearConnection
      <3>3. UNCHANGED <<preflight, fixture, codexHome, ownersVars, model, report>>
        BY <2>2 DEF HearConnection
      <3>4. loopback'.heard > 0 /\ loopback'.heard \in Nat /\ loopback'.heard >= loopback.heard
        BY <3>1
      <3> QED BY <3>1, <3>2, <3>3, <3>4 DEF ownersVars
    <2> QED BY <2>1, <2>2
  <1>2. PreflightTypes'
    <2>1. overstepped' \in BOOLEAN
      BY <1>1 DEF PreflightInv, PreflightTypes
    <2> QED BY <1>1, <2>1 DEF PreflightInv, PreflightTypes
  <1>3. overstepped' # overstepped => preflight.at = "calling" /\ loopback'.heard > 0
    BY <1>1 DEF PreflightInv, PreflightTypes, ModelIsFollowed
  <1>4. ModelIsFollowed'
    BY <1>1, <1>3
    DEF PreflightInv, PreflightTypes, ModelIsFollowed, FixtureIsTouched, BeforeTheProbe, Watched,
        CleaningUp, Passing
  <1>5. BinaryIsFollowed'
    BY <1>1 DEF PreflightInv, BinaryIsFollowed
  <1>6. ProbeIsCleanedUp' /\ ReportIsOfTheEnd'
    BY <1>1 DEF PreflightInv, ProbeIsCleanedUp, ReportIsOfTheEnd
  <1> QED BY <1>2, <1>4, <1>5, <1>6 DEF PreflightInv

LEMMA OthersActHolds ==
  ASSUME PreflightInv, EscapedProcessEnds \/ OwnerInterferes \/ OwnerReroutes
  PROVE  PreflightInv'
  <1>1. /\ UNCHANGED <<preflight, fixture, codexHome, overstepped>>
        /\ DOMAIN loopback' = DOMAIN loopback /\ loopback'.heard = loopback.heard
        /\ loopback'.state = loopback.state
        /\ effects' \in Nat /\ rerouted' \in BOOLEAN /\ (rerouted => rerouted')
        /\ binary'.mark \in 0..(effects' + 1) /\ elsewhere'.mark \in 0..(effects' + 1)
        /\ \/ rerouted' = rerouted /\ binary'.mark \in binary.mark..(effects' + 1)
           \/ rerouted'
           \/ preflight.at \notin {"hash", "restat", "version", "compare"}
        /\ model' = model \/ (model = "escaped" /\ model' = "gone")
        /\ report' = report \/ report' = "foreign"
    <2> USE DEF PreflightInv, PreflightTypes
    <2>1. CASE EscapedProcessEnds
      BY <2>1 DEF EscapedProcessEnds, ownersVars
    <2>2. CASE OwnerInterferes
      BY <2>2 DEF OwnerInterferes, OwnerMeddles
    <2>3. CASE OwnerReroutes
      <3>1. /\ effects' = effects + 1 /\ binary' = elsewhere /\ elsewhere' = binary
            /\ UNCHANGED <<preflight, fixture, loopback, codexHome, model, overstepped, report>>
        BY <2>3 DEF OwnerReroutes, OwnerMeddles
      <3>2. /\ rerouted' \in BOOLEAN /\ (rerouted => rerouted')
            /\ rerouted' \/ preflight.at \notin {"hash", "restat", "version", "compare"}
        BY <2>3 DEF OwnerReroutes
      <3> QED BY <3>1, <3>2
    <2> QED BY <2>1, <2>2, <2>3
  <1>2. PreflightTypes'
    BY <1>1 DEF PreflightInv, PreflightTypes
  <1>3. BinaryIsFollowed'
    BY <1>1 DEF PreflightInv, PreflightTypes, BinaryIsFollowed
  <1>4. ModelIsFollowed'
    BY <1>1 DEF PreflightInv, ModelIsFollowed, FixtureIsTouched
  <1>5. ProbeIsCleanedUp' /\ ReportIsOfTheEnd'
    BY <1>1 DEF PreflightInv, ProbeIsCleanedUp, ReportIsOfTheEnd
  <1> QED BY <1>2, <1>3, <1>4, <1>5 DEF PreflightInv

LEMMA PreflightStepHolds ==
  ASSUME PreflightInv, [PreflightNext]_preflightVars
  PROVE  PreflightInv'
  <1>1. CASE UNCHANGED preflightVars
    BY <1>1
    DEF preflightVars, PreflightInv, PreflightTypes, BinaryIsFollowed, ModelIsFollowed,
        ProbeIsCleanedUp, ReportIsOfTheEnd, FixtureIsTouched
  <1> QED
    BY <1>1, IdentifyingHolds, PlacingHolds, CallingModelHolds, FindingHolds, CleaningHolds,
       ReportingOrDyingHolds, ModelTouchesHolds, ConnectingHolds, OthersActHolds
    DEF PreflightNext

\* For any fixture and any number of things the model and the owner do, in whatever order:
\* a report that runPreflight wrote after the adversarial probe is true of what the model
\* did to the fixture while it was called and of the connections heard of; and any report is
\* of the binary that was admitted, if no directory above it was exchanged meanwhile.
THEOREM ReportsAreTrue == PreflightSpec => []ReportIsTrue
  <1>1. PreflightInit => PreflightInv
    BY PreflightInitHolds
  <1>2. PreflightInv /\ [PreflightNext]_preflightVars => PreflightInv'
    BY PreflightStepHolds
  <1>3. PreflightInv => ReportIsTrue
    BY DEF PreflightInv, BinaryIsFollowed, ModelIsFollowed, ProbeIsCleanedUp,
           ReportIsOfTheEnd, ReportIsTrue, Passing
  <1> QED BY <1>1, <1>2, <1>3, PTL DEF PreflightSpec

-----------------------------------------------------------------------------
(* The bundles of a journey.

   The argument.  A contract only grows, so a bundle, the beginning of one, stays what it
   was verified to be.  What a policy selects at a horizon is read from the records up to
   the horizon's, and from what these cite, which is earlier; so every bundle that has
   them all shows the same.                                                        *)

\* An event more does not change it.
LEMMA BeginningStands ==
  ASSUME NEW S, NEW log \in Seq(S), NEW event, NEW n \in 0..Len(log)
  PROVE  SubSeq(Append(log, event), 1, n) = SubSeq(log, 1, n)
  <1> DEFINE T == S \cup {event}
             longer == Append(log, event)
  <1>1. log \in Seq(T) /\ longer \in Seq(T) /\ Len(longer) = Len(log) + 1
        /\ \A i \in 1..Len(log) : longer[i] = log[i]
    BY SeqMonotonic
  <1> HIDE DEF longer, T
  <1>2. /\ SubSeq(longer, 1, n) \in Seq(T) /\ Len(SubSeq(longer, 1, n)) = n
        /\ \A i \in 1..n : SubSeq(longer, 1, n)[i] = longer[i]
    BY <1>1, BeginningOfASequence
  <1>3. /\ SubSeq(log, 1, n) \in Seq(T) /\ Len(SubSeq(log, 1, n)) = n
        /\ \A i \in 1..n : SubSeq(log, 1, n)[i] = log[i]
    BY <1>1, BeginningOfASequence
  <1>4. \A i \in 1..n : SubSeq(longer, 1, n)[i] = SubSeq(log, 1, n)[i]
    BY <1>1, <1>2, <1>3
  <1>5. SubSeq(longer, 1, n) = SubSeq(log, 1, n)
    BY <1>2, <1>3, <1>4, SeqEqual
  <1> QED BY <1>5 DEF longer

\* Two logs with the same records up to the horizon's, the shorter one admitted.
LEMMA ViewsOfAHorizonAgree ==
  ASSUME NEW S, NEW log \in Seq(S), NEW longer \in Seq(S), Len(log) <= Len(longer),
         \A i \in 1..Len(log) : longer[i] = log[i], RecordsAdmitted(log),
         NEW horizon, horizon.recordedAsOf \in Nat, horizon.recordedAsOf <= Len(log),
         NEW policy
  PROVE  PolicyView(log, horizon, policy) = PolicyView(longer, horizon, policy)
  <1> DEFINE visible == VisibleRecords(log, horizon)
             decisions == DecisionsOf(log, visible, policy)
             active == ActiveAcceptances(log, horizon, policy)
  <1>1. /\ DOMAIN log = 1..Len(log) /\ DOMAIN longer = 1..Len(longer)
        /\ Len(log) \in Nat /\ Len(longer) \in Nat
    OBVIOUS
  <1>2. VisibleRecords(longer, horizon) = visible /\ visible \subseteq 1..Len(log)
    BY <1>1 DEF VisibleRecords
  <1>3. DecisionsOf(longer, visible, policy) = decisions /\ decisions \subseteq visible
    BY <1>2 DEF DecisionsOf
  <1>4. \A i \in decisions :
          /\ log[i].target \in 1..Len(log)
          /\ longer[i] = log[i] /\ longer[longer[i].target] = log[log[i].target]
    <2> TAKE i \in decisions
    <2>1. i \in 1..Len(log) /\ log[i].kind = "AcceptanceDecision"
      BY <1>2, <1>3 DEF DecisionsOf
    <2>2. DecisionAdmitted(log, i)
      BY <2>1, <1>1 DEF RecordsAdmitted, BodyAdmitted
    <2>3. log[i].target \in 1..(i - 1)
      BY <2>2 DEF DecisionAdmitted, OfKind
    <2> QED BY <2>1, <2>3, <1>1
  <1> DEFINE revokedIn(l) == {l[i].revokes : i \in {d \in decisions : l[d].action = "revoke"}}
  <1>5. revokedIn(longer) = revokedIn(log)
    BY <1>4
  <1>6. ActiveAcceptances(longer, horizon, policy) = active /\ active \subseteq decisions
    <2>1. active = {i \in decisions : /\ log[i].action = "accept" /\ i \notin revokedIn(log)
                                      /\ log[log[i].target].validFrom <= horizon.validAt}
      BY DEF ActiveAcceptances
    <2>2. ActiveAcceptances(longer, horizon, policy) =
            {i \in decisions : /\ longer[i].action = "accept" /\ i \notin revokedIn(longer)
                               /\ longer[longer[i].target].validFrom <= horizon.validAt}
      BY <1>2, <1>3 DEF ActiveAcceptances
    <2> HIDE DEF decisions, revokedIn, active
    <2> QED BY <2>1, <2>2, <1>4, <1>5
  <1> HIDE DEF active, decisions, visible
  <1>7. CASE active = {}
    BY <1>6, <1>7 DEF PolicyView, active
  <1>8. CASE active # {}
    <2> DEFINE decision == CHOOSE d \in active : TRUE
               revision == log[decision].target
               about(l) == {i \in visible : l[i].kind = "Assessment" /\ l[i].target = revision}
    <2>1. decision \in decisions
      BY <1>6, <1>8
    <2> HIDE DEF decision
    <2>2. longer[decision].target = revision /\ longer[revision] = log[revision]
      BY <2>1, <1>4
    <2> HIDE DEF revision
    <2>3. about(longer) = about(log) /\ \A i \in about(log) : longer[i].cites = log[i].cites
      BY <1>2
    <2> HIDE DEF about
    <2>4. {longer[i].cites : i \in about(longer)} = {log[i].cites : i \in about(log)}
      BY <2>3
    <2>5. PolicyView(log, horizon, policy) =
            [decision |-> decision, revision |-> revision, assessments |-> about(log),
             evidence |-> log[revision].cites \cup UNION {log[i].cites : i \in about(log)}]
      BY <1>8 DEF PolicyView, active, visible, decision, revision, about
    <2>6. PolicyView(longer, horizon, policy) =
            [decision |-> decision, revision |-> longer[decision].target,
             assessments |-> {i \in visible : longer[i].kind = "Assessment"
                                              /\ longer[i].target = longer[decision].target},
             evidence |-> longer[longer[decision].target].cites
                            \cup UNION {longer[i].cites :
                                          i \in {i \in visible : longer[i].kind = "Assessment"
                                              /\ longer[i].target = longer[decision].target}}]
      BY <1>8, <1>6, <1>2 DEF PolicyView, decision
    <2> QED BY <2>2, <2>3, <2>4, <2>5, <2>6 DEF about
  <1> QED BY <1>7, <1>8

-----------------------------------------------------------------------------
ContractGrows == \E S : contract \in Seq(S)

KnownBundle(n) == n \in 1..Len(contract) /\ BundleVerifies(BundleOf(n))

BundleInv ==
  /\ profile \in Profiles /\ ContractGrows
  /\ DOMAIN builder = {"at", "root", "records"}
  /\ builder.at # "idle" => builder.records \in 1..Len(contract)
  /\ builder.at \in {"rename", "project"} => KnownBundle(builder.records)
  /\ DOMAIN published = OutputRoots /\ DOMAIN projected = OutputRoots
  /\ \A o \in OutputRoots :
       /\ published[o] = 0 \/ KnownBundle(published[o])
       /\ projected[o] = 0 \/ KnownBundle(projected[o])

LEMMA BundleInitHolds ==
  ASSUME BundleInit
  PROVE  BundleInv
  <1>1. contract \in Seq({})
    BY DEF BundleInit
  <1> QED BY <1>1 DEF BundleInit, BundleInv, ContractGrows, NoBuild

\* What is known stays known.
LEMMA KnownBundlesStand ==
  ASSUME BundleInv, AuthorsEvent, NEW n, KnownBundle(n)
  PROVE  KnownBundle(n)'
  <1>1. PICK S : contract \in Seq(S)
    BY DEF BundleInv, ContractGrows
  <1>2. PICK event : contract' = Append(contract, event)
    BY DEF AuthorsEvent
  <1>3. BundleOf(n)' = BundleOf(n) /\ n \in 1..Len(contract')
    BY <1>1, <1>2, BeginningStands DEF BundleOf, KnownBundle
  <1>4. profile' = profile
    BY DEF AuthorsEvent
  <1> QED BY <1>3, <1>4 DEF KnownBundle, BundleVerifies, Unambiguous

LEMMA AuthorsEventHolds ==
  ASSUME BundleInv, AuthorsEvent
  PROVE  BundleInv'
  <1>1. PICK S : contract \in Seq(S)
    BY DEF BundleInv, ContractGrows
  <1>2. PICK event : contract' = Append(contract, event)
    BY DEF AuthorsEvent
  <1>3. contract' \in Seq(S \cup {event}) /\ Len(contract') = Len(contract) + 1
        /\ Len(contract) \in Nat
    BY <1>1, <1>2, SeqMonotonic
  <1>4. UNCHANGED <<profile, builder, published, projected>>
    BY DEF AuthorsEvent
  <1>5. \A n : KnownBundle(n) => KnownBundle(n)'
    BY KnownBundlesStand
  <1>6. ContractGrows'
    BY <1>3 DEF ContractGrows
  <1>7. \A n \in 1..Len(contract) : n \in 1..Len(contract')
    BY <1>3
  <1> HIDE DEF KnownBundle
  <1> QED BY <1>4, <1>5, <1>6, <1>7 DEF BundleInv

LEMMA BuilderHolds ==
  ASSUME BundleInv, BundleNext, ~AuthorsEvent
  PROVE  BundleInv'
  <1>1. UNCHANGED <<profile, contract>>
    BY DEF BundleNext, BeginBuild, WriteStageFiles, VerifyStage, RenameBundle,
           EndsWithoutBundle, BeginRebuild, WriteProjectionDirectory, OnlyBuilder
  <1>2. \A n : KnownBundle(n)' <=> KnownBundle(n)
    BY <1>1 DEF KnownBundle, BundleOf, BundleVerifies, Unambiguous
  <1>3. ContractGrows' /\ profile' \in Profiles
    BY <1>1 DEF BundleInv, ContractGrows
  <1>4. Len(contract) \in Nat /\ (contract # <<>> => Len(contract) \in 1..Len(contract))
    BY DEF BundleInv, ContractGrows
  <1> HIDE DEF KnownBundle
  <1>5. ASSUME NEW o \in OutputRoots, BeginBuild(o)
        PROVE  BundleInv'
    BY <1>1, <1>2, <1>3, <1>4, <1>5 DEF BeginBuild, BundleInv
  <1>6. CASE WriteStageFiles \/ EndsWithoutBundle
    BY <1>1, <1>2, <1>3, <1>6
    DEF WriteStageFiles, EndsWithoutBundle, BuilderAt, NoBuild, BundleInv
  <1>7. CASE VerifyStage
    BY <1>1, <1>2, <1>3, <1>7 DEF VerifyStage, BuilderAt, BundleInv, KnownBundle
  <1>8. CASE RenameBundle \/ WriteProjectionDirectory
    BY <1>1, <1>2, <1>3, <1>8 DEF RenameBundle, WriteProjectionDirectory, NoBuild, BundleInv
  <1>9. ASSUME NEW o \in OutputRoots, BeginRebuild(o)
        PROVE  BundleInv'
    <2>1. KnownBundle(published[o])
      BY <1>9 DEF BeginRebuild, BundleInv
    <2>2. published[o] \in 1..Len(contract)
      BY <2>1 DEF KnownBundle
    <2> QED BY <1>1, <1>2, <1>3, <1>9, <2>1, <2>2 DEF BeginRebuild, BundleInv
  <1> QED BY <1>5, <1>6, <1>7, <1>8, <1>9 DEF BundleNext

LEMMA KnownViewsStand ==
  ASSUME BundleInv
  PROVE  PublishedViewsStand
  <1>1. PICK S : contract \in Seq(S)
    BY DEF BundleInv, ContractGrows
  <1> DEFINE known == {published[o] : o \in OutputRoots} \cup {projected[o] : o \in OutputRoots}
  <1>2. \A n \in known : n = 0 \/ KnownBundle(n)
    BY DEF BundleInv
  <1> SUFFICES ASSUME NEW n \in known \ {0}
               PROVE  /\ BundleVerifies(BundleOf(n))
                      /\ \A m \in known, h \in DOMAIN profile, p \in Policies :
                           (n <= m /\ profile[h].recordedAsOf <= n) =>
                             PolicyView(BundleOf(n), profile[h], p)
                               = PolicyView(BundleOf(m), profile[h], p)
    BY DEF PublishedViewsStand
  <1> HIDE DEF known
  <1>3. n \in 1..Len(contract) /\ BundleVerifies(BundleOf(n))
    BY <1>2 DEF KnownBundle
  <1>4. ASSUME NEW m \in known, NEW h \in DOMAIN profile, NEW p \in Policies,
               n <= m, profile[h].recordedAsOf <= n
        PROVE  PolicyView(BundleOf(n), profile[h], p) = PolicyView(BundleOf(m), profile[h], p)
    <2>1. m \in 1..Len(contract)
      BY <1>2, <1>3, <1>4 DEF KnownBundle
    <2>2. profile[h].recordedAsOf \in Nat
      BY BundleAssumption DEF BundleInv
    <2>3. /\ BundleOf(n) \in Seq(S) /\ Len(BundleOf(n)) = n
          /\ \A i \in 1..n : BundleOf(n)[i] = contract[i]
      BY <1>1, <1>3, BeginningOfASequence DEF BundleOf
    <2>4. /\ BundleOf(m) \in Seq(S) /\ Len(BundleOf(m)) = m
          /\ \A i \in 1..m : BundleOf(m)[i] = contract[i]
      BY <1>1, <2>1, BeginningOfASequence DEF BundleOf
    <2>5. RecordsAdmitted(BundleOf(n))
      BY <1>3 DEF BundleVerifies
    <2>6. \A i \in 1..n : BundleOf(m)[i] = BundleOf(n)[i]
      BY <1>3, <1>4, <2>1, <2>3, <2>4
    <2> QED BY <1>4, <2>2, <2>3, <2>4, <2>5, <2>6, ViewsOfAHorizonAgree
  <1> QED BY <1>3, <1>4

\* For any sources, policies, profiles and contracts of any length: buildBundle and
\* rebuildProjectionExact never publish anything that goes against what was published.
THEOREM PublishedViewsAreFinal == BundleSpec => []PublishedViewsStand
  <1>1. BundleInit => BundleInv
    BY BundleInitHolds
  <1>2. BundleInv /\ [BundleNext]_bundleVars => BundleInv'
    <2>1. BundleInv /\ UNCHANGED bundleVars => BundleInv'
      BY DEF bundleVars, BundleInv, ContractGrows, KnownBundle, BundleOf, BundleVerifies,
             Unambiguous
    <2> QED BY <2>1, AuthorsEventHolds, BuilderHolds
  <1>3. BundleInv => PublishedViewsStand
    BY KnownViewsStand
  <1> QED BY <1>1, <1>2, <1>3, PTL DEF BundleSpec

-----------------------------------------------------------------------------
(* The public dogfood store.

   The argument.  A capture that was loaded does not change any more, so what the build
   checked of it holds of the bundle.  The two are written apart, and differ: the build
   counts the sources and looks that they are all of the inventory, the verification asks
   that no two are of the same artifact, which follows since there are as many sources as
   artifacts; the build asks for the latest revision as the predecessor, the verification
   computes it.  Of a capture in order the cut of a horizon is where its events end, so
   what was recorded by the cut has its tag, and what that cites no later one.          *)

-----------------------------------------------------------------------------
(* Events.                                                                      *)

Kinds == {"SourceSnapshot", "EvidenceSpan", "AssertionRevision", "Assessment", "Question"}

AnyEvent ==
  {SourceOf(t, x) : t \in Tags, x \in Artifacts}
    \cup {EvidenceOf(t, s) : t \in Tags, s \in Nat}
    \cup {AssertionOf(t, p, cited) : t \in Tags, p \in Nat, cited \in SUBSET Nat}
    \cup {LimitOf(t, p, cited) : t \in Tags, p \in Nat, cited \in SUBSET Nat}
    \cup {QuestionOf(t, basis) : t \in Tags, basis \in SUBSET Nat}

\* Events by their kinds.
LEMMA EventsHaveKinds ==
  ASSUME NEW e \in AnyEvent
  PROVE  /\ e.kind \in Kinds /\ e.tag \in Tags
         /\ e.kind = "SourceSnapshot" => e.artifact \in Artifacts
  <1>1. CASE \E t \in Tags, x \in Artifacts : e = SourceOf(t, x)
    BY <1>1 DEF SourceOf, Kinds
  <1>2. CASE \E t \in Tags, s \in Nat : e = EvidenceOf(t, s)
    BY <1>2 DEF EvidenceOf, Kinds
  <1>3. CASE \E t \in Tags, p \in Nat, cited \in SUBSET Nat : e = AssertionOf(t, p, cited)
    BY <1>3 DEF AssertionOf, Kinds
  <1>4. CASE \E t \in Tags, p \in Nat, cited \in SUBSET Nat : e = LimitOf(t, p, cited)
    BY <1>4 DEF LimitOf, Kinds
  <1>5. CASE \E t \in Tags, basis \in SUBSET Nat : e = QuestionOf(t, basis)
    BY <1>5 DEF QuestionOf, Kinds
  <1> QED BY <1>1, <1>2, <1>3, <1>4, <1>5 DEF AnyEvent

\* The positions that hold an event of a kind, before the i-th and all.
LEMMA FormerEvents ==
  ASSUME NEW log \in Seq(AnyEvent), NEW kind
  PROVE  /\ Len(log) \in Nat /\ DOMAIN log = 1..Len(log)
         /\ All(log, kind) = {j \in 1..Len(log) : log[j].kind = kind}
         /\ \A i \in 1..Len(log) : /\ Former(log, i, kind) \subseteq All(log, kind)
                                   /\ Former(log, i, kind) = {j \in All(log, kind) : j < i}
         /\ \A i \in 1..Len(log) : log[i].kind \in Kinds /\ log[i].tag \in Tags
         /\ \A i \in 1..Len(log) : log[i].kind = "SourceSnapshot" => log[i].artifact \in Artifacts
  <1> DEFINE n == Len(log)
  <1>1. n \in Nat /\ DOMAIN log = 1..n /\ n + 1 - 1 = n
    OBVIOUS
  <1>2. \A i \in 1..n : log[i] \in AnyEvent
    BY ElementOfSeq
  <1> HIDE DEF n
  <1>3. All(log, kind) = {j \in 1..n : log[j].kind = kind}
    <2>1. All(log, kind) = {j \in 1..(n + 1 - 1) : log[j].kind = kind}
      BY DEF All, Former, n
    <2> QED BY <1>1, <2>1
  <1>4. \A i \in 1..n : Former(log, i, kind) = {j \in All(log, kind) : j < i}
    BY <1>1, <1>3 DEF Former
  <1> QED BY <1>1, <1>2, <1>3, <1>4, EventsHaveKinds DEF n

-----------------------------------------------------------------------------
(* What the build checks is what the verification asks.                        *)

\* Each artifact once: as many sources as artifacts, and all of them.
LEMMA SourcesAreOfOtherArtifacts ==
  ASSUME NEW log \in Seq(AnyEvent), ClosureMaterializes(log),
         NEW i \in All(log, "SourceSnapshot"), NEW j \in All(log, "SourceSnapshot"),
         log[i].artifact = log[j].artifact
  PROVE  i = j
  <1> DEFINE S == All(log, "SourceSnapshot")
             f == [k \in S |-> log[k].artifact]
  <1>1. Len(log) \in Nat /\ S = {k \in 1..Len(log) : log[k].kind = "SourceSnapshot"}
    BY FormerEvents
  <1>2. IsFiniteSet(S)
    <2>1. 1 \in Int /\ Len(log) \in Int
      BY <1>1
    <2>2. IsFiniteSet(1..Len(log))
      BY <2>1, FS_Interval
    <2> QED BY <1>1, <2>2, FS_Subset
  <1>3. {log[k].artifact : k \in S} = Artifacts /\ Cardinality(S) = Cardinality(Artifacts)
    BY DEF ClosureMaterializes
  <1> HIDE DEF S
  <1>4. f \in Surjection(S, Artifacts)
    BY <1>3 DEF Surjection
  <1>5. f \in Injection(S, Artifacts)
    <2> HIDE DEF f
    <2> QED BY <1>2, <1>3, <1>4, FS_Surjection
  <1>6. i \in S /\ j \in S /\ f[i] = f[j]
    BY DEF S
  <1> HIDE DEF f
  <1> QED BY <1>5, <1>6 DEF Injection, IsInjective

\* What the build accepted the verification accepts.
LEMMA CheckedRecordsVerify ==
  ASSUME NEW log \in Seq(AnyEvent), EventsMaterialize(log), ClosureMaterializes(log),
         cut \in [Tags -> DOMAIN log], ProfileFits(log, cut)
  PROVE  RecordsVerify(log)
  <1>1. /\ Len(log) \in Nat /\ DOMAIN log = 1..Len(log)
        /\ \A kind, i : i \in 1..Len(log) => /\ Former(log, i, kind) \subseteq All(log, kind)
                                             /\ Former(log, i, kind) = {j \in All(log, kind) : j < i}
        /\ \A kind : All(log, kind) = {j \in 1..Len(log) : log[j].kind = kind}
    <2>1. Len(log) \in Nat /\ DOMAIN log = 1..Len(log)
      BY FormerEvents
    <2>2. ASSUME NEW kind, NEW i \in 1..Len(log)
          PROVE  /\ Former(log, i, kind) \subseteq All(log, kind)
                 /\ Former(log, i, kind) = {j \in All(log, kind) : j < i}
      BY FormerEvents
    <2>3. ASSUME NEW kind PROVE All(log, kind) = {j \in 1..Len(log) : log[j].kind = kind}
      BY FormerEvents
    <2> QED BY <2>1, <2>2, <2>3
  <1>2. ASSUME NEW i \in DOMAIN log
        PROVE  /\ VerifiesSource(log, i) /\ VerifiesEvidence(log, i) /\ VerifiesRevision(log, i)
               /\ VerifiesAssessment(log, i) /\ VerifiesQuestion(log, i)
    <2>1. /\ SourceMaterial(log, i) /\ AssertionMaterial(log, i)
          /\ LimitMaterial(log, i) /\ QuestionMaterial(log, i)
      BY DEF EventsMaterialize
    <2>2. VerifiesSource(log, i)
      <3> SUFFICES ASSUME log[i].kind = "SourceSnapshot"
                   PROVE  /\ ArtifactHorizon[log[i].artifact] = log[i].tag
                          /\ \A j \in Former(log, i, "SourceSnapshot") : log[j].artifact # log[i].artifact
        BY DEF VerifiesSource
      <3>1. i \in All(log, "SourceSnapshot")
        BY <1>1
      <3>2. \A j \in Former(log, i, "SourceSnapshot") : j \in All(log, "SourceSnapshot") /\ j # i
        BY <1>1
      <3>3. \A j \in Former(log, i, "SourceSnapshot") : log[j].artifact # log[i].artifact
        BY <3>1, <3>2, SourcesAreOfOtherArtifacts
      <3> QED BY <2>1, <3>3 DEF SourceMaterial
    <2>3. VerifiesEvidence(log, i)
      BY <2>1 DEF SourceMaterial, VerifiesEvidence
    <2>4. VerifiesRevision(log, i)
      <3> SUFFICES ASSUME log[i].kind = "AssertionRevision"
                   PROVE  VerifiesRevision(log, i)
        BY DEF VerifiesRevision
      <3> DEFINE earlier == Former(log, i, "AssertionRevision")
                 p == log[i].predecessor
      <3>1. earlier \subseteq 1..Len(log)
        BY <1>1
      <3>2. /\ IF earlier = {} THEN p = 0 ELSE p \in earlier /\ \A j \in earlier : j <= p
            /\ log[i].cites \subseteq Former(log, i, "EvidenceSpan") /\ InItsHorizon(log, i, log[i].cites)
        BY <2>1 DEF AssertionMaterial
      <3> HIDE DEF earlier, p
      <3>3. p \in earlier \cup {0} /\ \A k \in earlier : k <= p
        BY <3>2
      <3>4. \A j \in earlier \cup {0} : (\A k \in earlier : k <= j) => j = p
        BY <1>1, <3>1, <3>2, <3>3
      <3>5. p = (CHOOSE j \in earlier \cup {0} : \A k \in earlier : k <= j)
        BY <3>3, <3>4
      <3> QED BY <3>2, <3>5 DEF VerifiesRevision, earlier, p
    <2>5. VerifiesAssessment(log, i)
      BY <2>1 DEF LimitMaterial, VerifiesAssessment
    <2>6. VerifiesQuestion(log, i)
      BY <2>1 DEF QuestionMaterial, VerifiesQuestion
    <2> QED BY <2>2, <2>3, <2>4, <2>5, <2>6
  <1>3. /\ Cardinality(All(log, "SourceSnapshot")) = Cardinality(Artifacts)
        /\ All(log, "Question") # {}
    BY DEF ClosureMaterializes
  <1>4. \A h \in Tags : cut[h] \in DOMAIN log /\ log[cut[h]].tag = h
    BY DEF ProfileFits
  <1> QED BY <1>2, <1>3, <1>4 DEF RecordsVerify

-----------------------------------------------------------------------------
(* The capture is checked before it is built, and does not change any more.    *)

Checked ==
  /\ cut \in [Tags -> DOMAIN capture] /\ asked \in [Tags -> DOMAIN capture]
  /\ ClosureMaterializes(capture) /\ ProfileFits(capture, cut) /\ TaskViewsValid(capture, asked)

DogfoodInv ==
  /\ capture \in Seq(AnyEvent) /\ EventsMaterialize(capture)
  /\ IF cut = << >> THEN asked = << >> /\ publisher = "idle" /\ bundle = "absent" /\ view = << >>
     ELSE Checked
  /\ view # << >> => view = [h \in Tags |-> Shows(capture, h)]

\* A profile that was written is no empty one.
LEMMA SomeProfile ==
  ASSUME NEW S, NEW f \in [Tags -> S]
  PROVE  f # << >>
  <1>1. DOMAIN f = Tags
    OBVIOUS
  <1>2. 1 \in DOMAIN f
    BY <1>1 DEF Tags
  <1>3. DOMAIN << >> = {}
    OBVIOUS
  <1> QED BY <1>2, <1>3

\* What is captured are events.
LEMMA CapturedEvents ==
  ASSUME DogfoodInv, CapturesEvent
  PROVE  capture' \in Seq(AnyEvent)
  <1>1. capture \in Seq(AnyEvent)
    BY DEF DogfoodInv
  <1>2. \A kind : All(capture, kind) \subseteq Nat
    BY <1>1, FormerEvents
  <1>3. \E e \in AnyEvent : capture' = Append(capture, e)
    <2>1. PICK t \in Tags :
            \/ \E x \in Artifacts : capture' = Append(capture, SourceOf(t, x))
            \/ \E s \in Nat : \/ capture' = Append(capture, EvidenceOf(t, s))
                              \/ capture' = Append(capture, QuestionOf(t, {s}))
            \/ \E e, p \in Nat : \/ capture' = Append(capture, AssertionOf(t, p, {e}))
                                 \/ capture' = Append(capture, LimitOf(t, p, {e}))
      <3>1. All(capture, "SourceSnapshot") \subseteq Nat /\ All(capture, "EvidenceSpan") \subseteq Nat
              /\ All(capture, "AssertionRevision") \cup {0} \subseteq Nat
        BY <1>2
      <3> QED BY <3>1 DEF CapturesEvent
    <2>2. \A x \in Artifacts : SourceOf(t, x) \in AnyEvent
      BY DEF AnyEvent
    <2>3. \A s \in Nat : EvidenceOf(t, s) \in AnyEvent /\ QuestionOf(t, {s}) \in AnyEvent
      BY DEF AnyEvent
    <2>4. \A e, p \in Nat : AssertionOf(t, p, {e}) \in AnyEvent /\ LimitOf(t, p, {e}) \in AnyEvent
      BY DEF AnyEvent
    <2> QED BY <2>1, <2>2, <2>3, <2>4
  <1> QED BY <1>1, <1>3, AppendProperties

\* What was checked before the build stays as it was checked.
THEOREM DogfoodInvHolds == DogfoodSpec => []DogfoodInv
  <1>1. DogfoodInit => DogfoodInv
    <2>1. << >> \in Seq(AnyEvent) /\ DOMAIN << >> = {}
      OBVIOUS
    <2> QED BY <2>1 DEF DogfoodInit, DogfoodInv, EventsMaterialize
  <1>2. ASSUME DogfoodInv, [DogfoodNext]_dogfoodVars PROVE DogfoodInv'
    <2>1. CASE UNCHANGED dogfoodVars
      BY <1>2, <2>1 DEF DogfoodInv, Checked, Shows, dogfoodVars
    <2>2. CASE CapturesEvent
      <3>1. capture' \in Seq(AnyEvent)
        BY <1>2, <2>2, CapturedEvents
      <3>2. cut = << >> /\ UNCHANGED <<cut, asked, publisher, bundle, view>> /\ EventsMaterialize(capture')
        BY <2>2 DEF CapturesEvent
      <3> QED BY <1>2, <3>1, <3>2 DEF DogfoodInv
    <2>3. CASE LoadJourney
      <3>1. /\ ClosureMaterializes(capture) /\ ProfileFits(capture, cut')
            /\ TaskViewsValid(capture, asked') /\ UNCHANGED <<capture, bundle, view>>
        BY <2>3 DEF LoadJourney
      <3>2. CASE cut = << >>
        <4>1. cut' \in [Tags -> DOMAIN capture] /\ asked' \in [Tags -> DOMAIN capture] /\ view = << >>
          BY <1>2, <2>3, <3>2 DEF LoadJourney, DogfoodInv
        <4>2. cut' # << >>
          BY <4>1, SomeProfile
        <4> QED BY <1>2, <3>1, <4>1, <4>2 DEF DogfoodInv, Checked
      <3>3. CASE cut # << >>
        <4>1. Checked
          BY <1>2, <3>3 DEF DogfoodInv
        <4>2. asked # << >>
          BY <4>1, SomeProfile DEF Checked
        <4>3. cut' = cut /\ asked' = asked
          BY <2>3, <3>3, <4>2 DEF LoadJourney
        <4> QED BY <1>2, <3>1, <3>3, <4>1, <4>3 DEF DogfoodInv, Checked, Shows
      <3> QED BY <3>2, <3>3
    <2>4. CASE BuildJourneyBundle \/ SomeoneChangesBundle \/ VerifyBundle \/ EndsUnpublished
      <3>1. UNCHANGED <<capture, cut, asked, view>>
        BY <2>4 DEF BuildJourneyBundle, SomeoneChangesBundle, VerifyBundle, EndsUnpublished, OnlyPublisher
      <3>2. cut # << >>
        BY <1>2, <2>4 DEF DogfoodInv, BuildJourneyBundle, SomeoneChangesBundle, VerifyBundle, EndsUnpublished
      <3> QED BY <1>2, <3>1, <3>2 DEF DogfoodInv, Checked, Shows
    <2>5. CASE WriteViews
      <3>1. UNCHANGED <<capture, cut, asked>> /\ view' = [h \in Tags |-> Shows(capture, h)]
        BY <2>5 DEF WriteViews, OnlyPublisher
      <3>2. cut # << >>
        BY <1>2, <2>5 DEF DogfoodInv, WriteViews
      <3> QED BY <1>2, <3>1, <3>2 DEF DogfoodInv, Checked, Shows
    <2> QED BY <1>2, <2>1, <2>2, <2>3, <2>4, <2>5 DEF DogfoodNext
  <1> QED BY <1>1, <1>2, PTL DEF DogfoodSpec

-----------------------------------------------------------------------------
(* What there is to show.                                                       *)

\* The latest revision that was recorded by then, if there is one.
LEMMA LatestIsLatest ==
  ASSUME NEW log \in Seq(AnyEvent), NEW sequence \in Nat
  PROVE  LET visible == {i \in All(log, "AssertionRevision") : i <= sequence}
             latest == LatestVisibleRevision(log, sequence) IN
         /\ visible = {} => latest = 0
         /\ visible # {} => latest \in visible
  <1> DEFINE visible == {i \in All(log, "AssertionRevision") : i <= sequence}
             latest == LatestVisibleRevision(log, sequence)
  <1>1. visible \subseteq 1..Len(log) /\ Len(log) \in Nat
    BY FormerEvents
  <1>2. latest = CHOOSE i \in visible \cup {0} : \A j \in visible : j <= i
    BY DEF LatestVisibleRevision
  <1> HIDE DEF visible, latest
  <1>3. CASE visible = {}
    BY <1>2, <1>3 DEF visible, latest
  <1>4. CASE visible # {}
    <2>1. visible \in SUBSET (0..Len(log))
      BY <1>1
    <2>2. \E i \in visible \cup {0} : \A j \in visible : j <= i
      BY <1>1, <1>4, <2>1, GreatestNumber
    <2>3. latest \in visible \cup {0} /\ \A j \in visible : j <= latest
      BY <1>2, <2>2
    <2>4. latest # 0
      <3>1. PICK j \in visible : TRUE
        BY <1>4
      <3>2. j \in 1..Len(log) /\ j <= latest /\ latest \in Nat
        BY <1>1, <2>3, <3>1
      <3> QED BY <3>2
    <2> QED BY <1>4, <2>3, <2>4 DEF visible, latest
  <1> QED BY <1>3, <1>4

\* Of a capture in order something is shown at each horizon: an event of that horizon or
\* of the one before, recorded by its cut.
LEMMA OrderedShows ==
  ASSUME DogfoodInv, Checked, InOrder, NEW h \in Tags
  PROVE  /\ Shows(capture, h) \in DOMAIN capture /\ Shows(capture, h) <= cut[h]
         /\ capture[Shows(capture, h)].tag <= h
         /\ capture[Shows(capture, h)].kind # "EvidenceSpan"
  <1> DEFINE n == Len(capture)
             a == asked[h]
             s == Shows(capture, h)
  <1>1. /\ capture \in Seq(AnyEvent) /\ n \in Nat /\ DOMAIN capture = 1..n
        /\ \A i \in 1..n : capture[i].tag \in 1..2
        /\ All(capture, "AssertionRevision") = {j \in 1..n : capture[j].kind = "AssertionRevision"}
    BY FormerEvents DEF DogfoodInv, Tags
  <1>2. /\ cut[1] \in 1..n /\ cut[2] = n /\ cut[h] \in 1..n /\ a \in 1..n
        /\ h = 1 \/ h = 2
    BY <1>1 DEF Checked, ProfileFits, Tags
  <1>3. \A i \in 1..n : capture[i].tag <= h <=> i <= cut[h]
    <2>1. \A i \in 1..n : capture[i].tag = 1 <=> i <= cut[1]
      BY <1>1 DEF InOrder
    <2>2. CASE h = 1
      BY <1>1, <1>2, <2>1, <2>2
    <2>3. CASE h = 2
      BY <1>1, <1>2, <2>3
    <2> QED BY <1>2, <2>2, <2>3
  <1>4. CASE capture[a].kind = "AssertionRevision"
    <2> DEFINE visible == {i \in All(capture, "AssertionRevision") : i <= cut[h]}
    <2>1. PICK i \in All(capture, "AssertionRevision") : capture[i].tag <= h
      BY <1>4 DEF Checked, TaskViewsValid
    <2>2. i \in visible
      BY <1>1, <1>3, <2>1
    <2>3. s = LatestVisibleRevision(capture, cut[h])
      BY <1>4 DEF Shows
    <2>4. s \in visible
      <3>1. cut[h] \in Nat
        BY <1>2
      <3> QED BY <1>1, <2>2, <2>3, <3>1, LatestIsLatest
    <2> HIDE DEF s
    <2>5. s \in 1..n /\ s <= cut[h] /\ capture[s].kind = "AssertionRevision"
      BY <1>1, <2>4
    <2> QED BY <1>1, <1>3, <2>5 DEF s
  <1>5. CASE capture[a].kind # "AssertionRevision"
    <2>1. s = a /\ capture[a].kind # "EvidenceSpan" /\ capture[a].tag <= h
      BY <1>5 DEF Shows, Checked, TaskViewsValid
    <2> QED BY <1>1, <1>2, <1>3, <2>1
  <1> QED BY <1>4, <1>5

\* A bundle that was built verifies, and shows something if its capture was in order.
THEOREM BuiltBundlesVerify == DogfoodSpec => []BuiltBundleVerifies
  <1>1. DogfoodInv => BuiltBundleVerifies
    <2> SUFFICES ASSUME DogfoodInv, bundle = "built"
                 PROVE  VerifiesBundle /\ (InOrder => Derives)
      BY DEF BuiltBundleVerifies
    <2>1. Checked
      BY DEF DogfoodInv
    <2>2. RecordsVerify(capture)
      BY <2>1, CheckedRecordsVerify DEF DogfoodInv, Checked
    <2>3. ASSUME InOrder PROVE Derives
      <3> SUFFICES ASSUME NEW h \in Tags PROVE Shows(capture, h) # 0
        BY DEF Derives
      <3>1. Shows(capture, h) \in 1..Len(capture) /\ Len(capture) \in Nat
        BY <2>1, <2>3, OrderedShows, FormerEvents DEF DogfoodInv
      <3> QED BY <3>1
    <2> QED BY <2>1, <2>2, <2>3 DEF VerifiesBundle, Checked
  <1> QED BY <1>1, DogfoodInvHolds, PTL

\* The views of a capture in order name sources of their horizon and the one before.
THEOREM OrderedViewsHold == DogfoodSpec => []OrderedViewsAreAsOf
  <1>1. DogfoodInv => OrderedViewsAreAsOf
    <2> SUFFICES ASSUME DogfoodInv, view # << >>, InOrder, NEW h \in Tags
                 PROVE  /\ view[h] <= cut[h]
                        /\ \A s \in SourcesUnder(capture, view[h]) : capture[s].tag <= h
      BY DEF OrderedViewsAreAsOf, ViewsAreAsOf
    <2> DEFINE n == Len(capture)
               i == Shows(capture, h)
    <2>1. Checked /\ view[h] = i
      BY DEF DogfoodInv
    <2>2. i \in 1..n /\ i <= cut[h] /\ capture[i].tag <= h /\ capture[i].kind # "EvidenceSpan"
      BY <2>1, OrderedShows, FormerEvents DEF DogfoodInv
    <2>3. /\ capture \in Seq(AnyEvent) /\ n \in Nat /\ DOMAIN capture = 1..n
          /\ \A j \in 1..n : capture[j].tag \in 1..2 /\ capture[j].kind \in Kinds
          /\ \A kind, j : j \in 1..n => Former(capture, j, kind) \subseteq
                                          {k \in 1..n : capture[k].kind = kind}
      BY FormerEvents DEF DogfoodInv, Tags
    <2>4. \A j \in 1..n : /\ SourceMaterial(capture, j) /\ AssertionMaterial(capture, j)
                          /\ LimitMaterial(capture, j) /\ QuestionMaterial(capture, j)
      BY <2>3 DEF DogfoodInv, EventsMaterialize
    <2> HIDE DEF i
    <2>5. h \in 1..2
      BY DEF Tags
    <2>6. \A s \in SourcesUnder(capture, i) : capture[s].tag <= h
      <3>1. CASE capture[i].kind = "SourceSnapshot"
        BY <2>2, <3>1 DEF SourcesUnder
      <3>2. CASE capture[i].kind = "Question"
        <4>1. /\ SourcesUnder(capture, i) = capture[i].basis
              /\ capture[i].basis \subseteq Former(capture, i, "SourceSnapshot")
              /\ \A s \in capture[i].basis : capture[s].tag <= capture[i].tag
          BY <2>2, <2>4, <3>2 DEF SourcesUnder, QuestionMaterial, InItsHorizon
        <4>2. \A s \in capture[i].basis : capture[s].tag \in 1..2
          BY <2>2, <2>3, <4>1
        <4> QED BY <2>2, <2>3, <2>5, <4>1, <4>2
      <3>3. CASE capture[i].kind \in {"AssertionRevision", "Assessment"}
        <4>1. SourcesUnder(capture, i) = {capture[e].source : e \in capture[i].cites}
          BY <3>3 DEF SourcesUnder
        <4>2. /\ capture[i].cites \subseteq Former(capture, i, "EvidenceSpan")
              /\ \A e \in capture[i].cites : capture[e].tag <= capture[i].tag
          BY <2>2, <2>4, <3>3 DEF AssertionMaterial, LimitMaterial, InItsHorizon
        <4>3. ASSUME NEW e \in capture[i].cites PROVE capture[capture[e].source].tag <= h
          <5>1. e \in 1..n /\ capture[e].kind = "EvidenceSpan"
            BY <2>2, <2>3, <4>2
          <5>2. /\ capture[e].source \in Former(capture, e, "SourceSnapshot")
                /\ capture[capture[e].source].tag <= capture[e].tag
            BY <2>4, <5>1 DEF SourceMaterial, InItsHorizon
          <5>3. capture[e].source \in 1..n
            BY <2>3, <5>1, <5>2
          <5> QED BY <2>2, <2>3, <2>5, <4>2, <5>1, <5>2, <5>3
        <4> QED BY <4>1, <4>3
      <3> QED BY <2>2, <2>3, <3>1, <3>2, <3>3 DEF Kinds
    <2> QED BY <2>1, <2>2, <2>6
  <1> QED BY <1>1, DogfoodInvHolds, PTL

=============================================================================
