-------------------------- MODULE EvaluationProofs ---------------------------
(* What goes before a judgment: the lock of a private pack (PackLock), the review of a
   locked pack (G1Review), the freeze of an evaluation (EvaluationFreeze) and the contract
   that is frozen in it (EvaluationContract), for any number of files, changes, calls,
   reviewers, anchors, starts, kills, horizons and items.                              *)
EXTENDS PackLock, G1Review, EvaluationFreeze, EvaluationContract, FunctionTheorems,
        FiniteSetTheorems, TLAPS

-----------------------------------------------------------------------------
(* The lock of a pack.

   The argument.  Marks only grow, so a file that has the mark of the first scan has the
   content it had then, and a directory that has its mark has the names it had then.  When
   what was read has been judged, either the pack is, at this moment, what was read, or a
   file or the directory has a newer mark already, and the second scan will find it. *)

LockTypes ==
  /\ clock \in Nat /\ dirMark \in 0..clock
  /\ "roles" \in DOMAIN pack
  /\ \A n \in DOMAIN pack :
       DOMAIN pack[n] = {"content", "mark"} /\ pack[n].mark \in 0..clock
  /\ DOMAIN tool = {"at", "create", "todo", "dir", "marks", "read"}
  /\ tool.dir \in 0..clock
  /\ \A n \in DOMAIN tool.marks : tool.marks[n] \in 0..clock
  /\ fitted \in BOOLEAN

\* What the call has collected holds of the pack as far as the marks are the same.
ScanHolds ==
  /\ tool.at = "scan" => DOMAIN tool.marks = {}
  /\ tool.at \in {"scan", "marks"} => DOMAIN tool.read = {}
  /\ tool.at = "marks" /\ dirMark = tool.dir => DOMAIN pack = DOMAIN tool.marks \cup tool.todo
  /\ tool.at \in {"read", "rescan"} /\ dirMark = tool.dir => DOMAIN pack = DOMAIN tool.marks
  /\ tool.at = "read" =>
       /\ DOMAIN tool.marks = DOMAIN tool.read \cup tool.todo
       /\ \A n \in DOMAIN tool.read : SameMark(n) => pack[n].content = tool.read[n]
  /\ tool.at = "rescan" => tool.todo \subseteq DOMAIN tool.marks

\* A pack that changed under the call is one that the rest of the call finds changed.
Doomed == dirMark # tool.dir \/ \E n \in tool.todo : ~SameMark(n)

LockInv ==
  /\ LockTypes
  /\ ScanHolds
  /\ tool.at # "idle" => (Fits(pack) => fitted)
  /\ tool.at = "rescan" /\ ~tool.create => fitted \/ Doomed
  /\ tool.at # "idle" => packAnswer # "ok"
  /\ LockDescribesOneState

-----------------------------------------------------------------------------
LEMMA AtRest ==
  /\ DOMAIN Resting = {"at", "create", "todo", "dir", "marks", "read"}
  /\ Resting.at = "idle" /\ Resting.dir = 0 /\ DOMAIN Resting.marks = {}
  /\ DOMAIN Resting.read = {}
  BY DEF Resting, NoFiles

LEMMA LockInitHolds ==
  ASSUME PackInit
  PROVE  LockInv
  <1>1. /\ dirMark = 0 /\ clock = 0 /\ tool = Resting /\ packAnswer = "none"
        /\ fitted = FALSE
    BY DEF PackInit
  <1>2. \A n \in DOMAIN pack : DOMAIN pack[n] = {"content", "mark"} /\ pack[n].mark = 0
    <2>1. PICK all : pack = [n \in DOMAIN all |-> [content |-> all[n], mark |-> 0]]
      BY DEF PackInit
    <2> QED BY <2>1
  <1>3. "roles" \in DOMAIN pack
    <2>1. PICK there \in SUBSET PackFiles \ {{}}, c \in Contents, lock \in {"none", "whole", "partial"} :
            LET data == [n \in there \cup {"roles"} |-> IF n = "roles" THEN there ELSE c]
                all == CASE lock = "none" -> data
                         [] lock = "whole" -> With(data, "lock", data)
                         [] lock = "partial" -> With(data, "lock", PartialLock) IN
            pack = [n \in DOMAIN all |-> [content |-> all[n], mark |-> 0]]
      BY DEF PackInit
    <2> DEFINE data == [n \in there \cup {"roles"} |-> IF n = "roles" THEN there ELSE c]
    <2>2. "roles" \in DOMAIN data /\ "roles" \in DOMAIN With(data, "lock", data)
          /\ "roles" \in DOMAIN With(data, "lock", PartialLock)
      BY DEF With
    <2> QED BY <2>1, <2>2
  <1>4. LockTypes
    <2>1. DOMAIN tool = {"at", "create", "todo", "dir", "marks", "read"}
          /\ tool.dir = 0 /\ DOMAIN tool.marks = {}
      BY <1>1, AtRest
    <2>2. clock \in Nat /\ dirMark \in 0..clock /\ tool.dir \in 0..clock
      BY <1>1, <2>1
    <2>3. fitted \in BOOLEAN
      BY <1>1
    <2>4. \A n \in DOMAIN pack : pack[n].mark \in 0..clock
      BY <1>1, <1>2
    <2> QED BY <1>2, <1>3, <2>1, <2>2, <2>3, <2>4 DEF LockTypes
  <1> QED
    BY <1>1, <1>4, AtRest DEF LockInv, ScanHolds, LockDescribesOneState

\* A step that changes the pack as its owner does: what is new has a new mark.
NewMarks(files, dir) ==
  /\ "roles" \in DOMAIN files
  /\ \A n \in DOMAIN files :
       /\ DOMAIN files[n] = {"content", "mark"}
       /\ files[n].mark = clock + 1 \/ (n \in DOMAIN pack /\ files[n] = pack[n])
  /\ dir = clock + 1 \/ (dir = dirMark /\ DOMAIN files = DOMAIN pack)

LEMMA PackMayChange ==
  ASSUME LockInv, NEW files, NEW dir, NewMarks(files, dir), PackBecomes(files, dir),
         UNCHANGED tool, UNCHANGED packAnswer
  PROVE  LockInv'
  <1>1. /\ pack' = files /\ dirMark' = dir /\ clock' = clock + 1
        /\ fitted' = (fitted \/ Fits(pack'))
    BY DEF PackBecomes
  <1>2. LockTypes'
    BY <1>1 DEF LockInv, LockTypes, NewMarks
  <1>3. \A n \in DOMAIN tool.marks :
          SameMark(n)' => SameMark(n) /\ pack'[n] = pack[n]
    BY <1>1 DEF LockInv, LockTypes, NewMarks, SameMark
  <1>4. dirMark' = tool.dir => dirMark = tool.dir /\ DOMAIN pack' = DOMAIN pack
    BY <1>1 DEF LockInv, LockTypes, NewMarks
  <1>5. ScanHolds'
    BY <1>3, <1>4 DEF LockInv, ScanHolds
  <1>6. tool.todo \subseteq DOMAIN tool.marks /\ Doomed => Doomed'
    BY <1>3, <1>4 DEF Doomed
  <1> QED
    BY <1>1, <1>2, <1>5, <1>6 DEF LockInv, LockDescribesOneState, ScanHolds

LEMMA OwnerEditsHolds ==
  ASSUME LockInv, OwnerEdits
  PROVE  LockInv'
  <1>1. ASSUME NEW n \in PackFiles, NEW c \in Contents,
               PackBecomes(Written(n, c), IF n \in DOMAIN pack THEN dirMark ELSE clock + 1)
        PROVE  LockInv'
    <2>1. NewMarks(Written(n, c), IF n \in DOMAIN pack THEN dirMark ELSE clock + 1)
      BY DEF NewMarks, Written, With, LockInv, LockTypes
    <2> QED BY <1>1, <2>1, PackMayChange DEF OwnerEdits
  <1>2. ASSUME NEW n \in (PackFiles \cup {"lock"}) \cap DOMAIN pack,
               PackBecomes([m \in DOMAIN pack \ {n} |-> pack[m]], clock + 1)
        PROVE  LockInv'
    <2>1. NewMarks([m \in DOMAIN pack \ {n} |-> pack[m]], clock + 1)
      BY PackAssumption DEF NewMarks, LockInv, LockTypes
    <2> QED BY <1>2, <2>1, PackMayChange DEF OwnerEdits
  <1>3. ASSUME PackBecomes(Written("roles", PackFiles \cap DOMAIN pack), dirMark)
        PROVE  LockInv'
    <2>1. NewMarks(Written("roles", PackFiles \cap DOMAIN pack), dirMark)
      BY DEF NewMarks, Written, With, LockInv, LockTypes
    <2> QED BY <1>3, <2>1, PackMayChange DEF OwnerEdits
  <1> QED BY <1>1, <1>2, <1>3 DEF OwnerEdits

LEMMA RejectingCallHolds ==
  ASSUME LockInv, Answers("rejected"), OnlyTool
  PROVE  LockInv'
  <1>1. tool' = Resting /\ tool'.at = "idle" /\ packAnswer' = "rejected"
        /\ UNCHANGED <<pack, dirMark, clock, fitted>>
    BY DEF Answers, OnlyTool, Resting
  <1>2. LockTypes'
    BY <1>1 DEF LockInv, LockTypes, Resting, NoFiles
  <1> QED
    BY <1>1, <1>2 DEF LockInv, ScanHolds, LockDescribesOneState

LEMMA CallBeginsHolds ==
  ASSUME LockInv, CallBegins
  PROVE  LockInv'
  <1>1. /\ fitted' = Fits(pack) /\ UNCHANGED <<pack, dirMark, clock>>
        /\ packAnswer' \in {"rejected", "none"}
        /\ tool'.at \in {"idle", "scan"} /\ tool'.dir = 0
        /\ DOMAIN tool'.marks = {} /\ DOMAIN tool'.read = {}
        /\ DOMAIN tool' = {"at", "create", "todo", "dir", "marks", "read"}
    <2>1. PICK create \in BOOLEAN :
            IF create /\ "lock" \in DOMAIN pack THEN Answers("rejected")
            ELSE tool' = [Resting EXCEPT !.at = "scan", !.create = create] /\ packAnswer' = "none"
      BY DEF CallBegins
    <2> DEFINE begun == [Resting EXCEPT !.at = "scan", !.create = create]
    <2>2. begun.at = "scan" /\ begun.dir = 0 /\ DOMAIN begun = DOMAIN Resting
          /\ DOMAIN begun.marks = {} /\ DOMAIN begun.read = {}
      BY AtRest
    <2> QED BY <2>1, <2>2, AtRest DEF CallBegins, Answers
  <1>2. Fits(pack)' = Fits(pack) /\ Fits(pack) \in BOOLEAN
    BY <1>1 DEF Fits, RolesFit, LockFits
  <1>3. LockTypes'
    BY <1>1, <1>2 DEF LockInv, LockTypes
  <1> QED
    BY <1>1, <1>2, <1>3 DEF LockInv, ScanHolds, LockDescribesOneState

\* A call that goes on.
LEMMA ContinuingTypes ==
  ASSUME LockTypes, OnlyTool, NEW state, Continues(state),
         DOMAIN state = DOMAIN tool, state.dir \in 0..clock,
         \A n \in DOMAIN state.marks : state.marks[n] \in 0..clock
  PROVE  LockTypes'
  BY DEF LockTypes, OnlyTool, Continues

LEMMA ScanningHolds ==
  ASSUME LockInv, ScanDirectory \/ ScanFile \/ ScanEnds
  PROVE  LockInv'
  <1>1. CASE ScanDirectory
    <2> DEFINE state == [tool EXCEPT !.at = "marks", !.dir = dirMark, !.todo = DOMAIN pack]
    <2>1. /\ DOMAIN state = DOMAIN tool /\ state.dir = dirMark /\ state.marks = tool.marks
          /\ state.at = "marks" /\ state.todo = DOMAIN pack /\ state.read = tool.read
          /\ tool.at = "scan" /\ Continues(state) /\ OnlyTool
      BY <1>1 DEF ScanDirectory, LockInv, LockTypes
    <2>2. LockTypes'
      BY <2>1, ContinuingTypes DEF LockInv, LockTypes
    <2> QED BY <2>1, <2>2 DEF Continues, OnlyTool, LockInv, ScanHolds, LockDescribesOneState
  <1>2. CASE ScanFile
    <2> DEFINE n == Next1(tool.todo)
               state == [tool EXCEPT !.todo = @ \ {n}, !.marks = With(@, n, pack[n].mark)]
    <2>1. CASE Answers("rejected")
      BY <1>2, <2>1, RejectingCallHolds DEF ScanFile
    <2>2. CASE ~Answers("rejected")
      <3>1. n \in tool.todo /\ n \in DOMAIN pack /\ tool.at = "marks" /\ Continues(state) /\ OnlyTool
        BY <1>2, <2>2 DEF ScanFile, Next1
      <3>2. /\ DOMAIN state = DOMAIN tool /\ state.dir = tool.dir /\ state.at = "marks"
            /\ state.todo = tool.todo \ {n} /\ state.read = tool.read
            /\ state.marks = With(tool.marks, n, pack[n].mark)
        BY <3>1 DEF LockInv, LockTypes
      <3> HIDE DEF n, state
      <3>3. DOMAIN state.marks \cup state.todo = DOMAIN tool.marks \cup tool.todo
        BY <3>1, <3>2 DEF With
      <3>4. \A m \in DOMAIN state.marks : state.marks[m] \in 0..clock
        BY <3>1, <3>2 DEF With, LockInv, LockTypes
      <3>5. LockTypes'
        BY <3>1, <3>2, <3>4, ContinuingTypes DEF LockInv, LockTypes
      <3> QED BY <3>1, <3>2, <3>3, <3>5
              DEF Continues, OnlyTool, LockInv, ScanHolds, LockDescribesOneState
    <2> QED BY <2>1, <2>2
  <1>3. CASE ScanEnds
    <2> DEFINE state == [tool EXCEPT !.at = "read", !.todo = DOMAIN tool.marks]
    <2>1. CASE Answers("rejected")
      BY <1>3, <2>1, RejectingCallHolds DEF ScanEnds
    <2>2. CASE ~Answers("rejected")
      <3>1. /\ tool.at = "marks" /\ tool.todo = {} /\ Continues(state) /\ OnlyTool
            /\ dirMark = tool.dir
        BY <1>3, <2>2 DEF ScanEnds
      <3>2. /\ DOMAIN state = DOMAIN tool /\ state.dir = tool.dir /\ state.at = "read"
            /\ state.todo = DOMAIN tool.marks /\ state.read = tool.read /\ state.marks = tool.marks
        BY <3>1 DEF LockInv, LockTypes
      <3>3. LockTypes'
        BY <3>1, <3>2, ContinuingTypes DEF LockInv, LockTypes
      <3> QED BY <3>1, <3>2, <3>3
              DEF Continues, OnlyTool, LockInv, ScanHolds, LockDescribesOneState
    <2> QED BY <2>1, <2>2
  <1> QED BY <1>1, <1>2, <1>3

LEMMA ReadingFileHolds ==
  ASSUME LockInv, ReadFile
  PROVE  LockInv'
  <1> DEFINE n == Next1(tool.todo)
             state == [tool EXCEPT !.todo = @ \ {n}, !.read = With(@, n, pack[n].content)]
  <1>1. CASE Answers("rejected")
    BY <1>1, RejectingCallHolds DEF ReadFile
  <1>2. CASE ~Answers("rejected")
    <2>1. n \in tool.todo /\ SameMark(n) /\ tool.at = "read" /\ Continues(state) /\ OnlyTool
      BY <1>2 DEF ReadFile, Next1
    <2>2. /\ DOMAIN state = DOMAIN tool /\ state.dir = tool.dir /\ state.at = "read"
          /\ state.todo = tool.todo \ {n} /\ state.marks = tool.marks
          /\ state.read = With(tool.read, n, pack[n].content)
      BY <2>1 DEF LockInv, LockTypes
    <2> HIDE DEF n, state
    <2>3. DOMAIN state.read \cup state.todo = DOMAIN tool.read \cup tool.todo
      BY <2>1, <2>2 DEF With
    <2>4. \A m \in DOMAIN state.read : SameMark(m) => pack[m].content = state.read[m]
      BY <2>1, <2>2 DEF With, LockInv, ScanHolds
    <2>5. LockTypes'
      BY <2>1, <2>2, ContinuingTypes DEF LockInv, LockTypes
    <2>6. ScanHolds'
      BY <2>1, <2>2, <2>3, <2>4
      DEF Continues, OnlyTool, LockInv, ScanHolds, SameMark
    <2> QED BY <2>1, <2>2, <2>5, <2>6
            DEF Continues, OnlyTool, LockInv, LockDescribesOneState
  <1> QED BY <1>1, <1>2

\* What was read fits, and nothing has a newer mark: then this is the pack.
LEMMA JudgedPackFits ==
  ASSUME LockInv, tool.at = "read", tool.todo = {}, RolesFit(tool.read), LockFits(tool.read),
         dirMark = tool.dir, \A n \in DOMAIN tool.marks : SameMark(n)
  PROVE  Fits(pack)
  <1>1. DOMAIN tool.read = DOMAIN pack /\ \A n \in DOMAIN pack : pack[n].content = tool.read[n]
    BY DEF LockInv, ScanHolds
  <1>2. DOMAIN ContentsOf(pack) = DOMAIN pack
        /\ \A n \in DOMAIN pack : ContentsOf(pack)[n] = tool.read[n]
    BY <1>1 DEF ContentsOf
  <1>3. Inventory(ContentsOf(pack)) = Inventory(tool.read)
    BY <1>1, <1>2 DEF Inventory
  <1>4. RolesFit(ContentsOf(pack))
    BY <1>1, <1>2 DEF RolesFit
  <1>5. LockFits(ContentsOf(pack))
    BY <1>1, <1>2, <1>3 DEF LockFits
  <1> QED BY <1>4, <1>5 DEF Fits

LEMMA JudgingHolds ==
  ASSUME LockInv, JudgeSnapshot
  PROVE  LockInv'
  <1> DEFINE state == [tool EXCEPT !.at = "rescan", !.todo = DOMAIN tool.marks]
  <1>1. CASE Answers("rejected")
    BY <1>1, RejectingCallHolds DEF JudgeSnapshot
  <1>2. CASE ~Answers("rejected")
    <2>1. /\ tool.at = "read" /\ tool.todo = {} /\ Continues(state) /\ OnlyTool
          /\ RolesFit(tool.read) /\ (tool.create \/ LockFits(tool.read))
      BY <1>2 DEF JudgeSnapshot
    <2>2. /\ DOMAIN state = DOMAIN tool /\ state.dir = tool.dir /\ state.at = "rescan"
          /\ state.todo = DOMAIN tool.marks /\ state.marks = tool.marks
          /\ state.create = tool.create
      BY <2>1 DEF LockInv, LockTypes
    <2> HIDE DEF state
    <2>3. LockTypes'
      BY <2>1, <2>2, ContinuingTypes DEF LockInv, LockTypes
    <2>4. ScanHolds'
      BY <2>1, <2>2 DEF Continues, OnlyTool, LockInv, ScanHolds
    <2>5. ~tool.create => fitted' \/ Doomed'
      <3>1. ~tool.create /\ dirMark = tool.dir /\ (\A n \in DOMAIN tool.marks : SameMark(n)) => fitted
        BY <2>1, JudgedPackFits DEF LockInv
      <3>2. dirMark # tool.dir \/ (\E n \in DOMAIN tool.marks : ~SameMark(n)) => Doomed'
        BY <2>1, <2>2 DEF Doomed, SameMark, Continues, OnlyTool
      <3> QED BY <2>1, <3>1, <3>2 DEF OnlyTool
    <2>6. tool'.create = tool.create /\ UNCHANGED <<packAnswer, pack, fitted>>
      BY <2>1, <2>2 DEF Continues, OnlyTool
    <2> QED BY <2>1, <2>3, <2>4, <2>5, <2>6 DEF LockInv, LockDescribesOneState, Fits
  <1> QED BY <1>1, <1>2

LEMMA RescanningHolds ==
  ASSUME LockInv, RescanFile \/ RescanEnds
  PROVE  LockInv'
  <1>1. CASE Answers("rejected")
    BY <1>1, RejectingCallHolds DEF RescanFile, RescanEnds
  <1>2. CASE RescanFile /\ ~Answers("rejected")
    <2> DEFINE n == Next1(tool.todo)
               state == [tool EXCEPT !.todo = @ \ {n}]
    <2>1. /\ tool.at = "rescan" /\ n \in tool.todo /\ SameMark(n) /\ Continues(state) /\ OnlyTool
      BY <1>2 DEF RescanFile, Next1
    <2>2. /\ DOMAIN state = DOMAIN tool /\ state.dir = tool.dir /\ state.at = "rescan"
          /\ state.todo = tool.todo \ {n} /\ state.marks = tool.marks
          /\ state.create = tool.create
      BY <2>1 DEF LockInv, LockTypes
    <2> HIDE DEF state, n
    <2>3. LockTypes'
      BY <2>1, <2>2, ContinuingTypes DEF LockInv, LockTypes
    <2>4. ScanHolds'
      BY <2>1, <2>2 DEF Continues, OnlyTool, LockInv, ScanHolds
    <2>5. Doomed => Doomed'
      BY <2>1, <2>2 DEF Doomed, SameMark, Continues, OnlyTool
    <2> QED BY <2>1, <2>2, <2>3, <2>4, <2>5
            DEF LockInv, LockDescribesOneState, Continues, OnlyTool
  <1>3. CASE RescanEnds /\ ~Answers("rejected") /\ tool.create
    <2> DEFINE state == [tool EXCEPT !.at = "write", !.marks = NoFiles]
    <2>1. tool.at = "rescan" /\ Continues(state) /\ OnlyTool
      BY <1>3 DEF RescanEnds
    <2>2. /\ DOMAIN state = DOMAIN tool /\ state.dir = tool.dir /\ state.at = "write"
          /\ DOMAIN state.marks = {}
      BY <2>1 DEF LockInv, LockTypes, NoFiles
    <2> HIDE DEF state
    <2>3. LockTypes'
      BY <2>1, <2>2, ContinuingTypes DEF LockInv, LockTypes
    <2> QED BY <2>1, <2>2, <2>3
            DEF LockInv, ScanHolds, LockDescribesOneState, Continues, OnlyTool
  <1>4. CASE RescanEnds /\ ~Answers("rejected") /\ ~tool.create
    <2>1. /\ tool.at = "rescan" /\ tool.todo = {} /\ dirMark = tool.dir /\ OnlyTool
          /\ tool' = Resting /\ packAnswer' = "ok"
      BY <1>4 DEF RescanEnds, Answers
    <2>2. fitted
      BY <1>4, <2>1 DEF LockInv, Doomed
    <2>3. LockTypes'
      BY <2>1, AtRest DEF LockInv, LockTypes, OnlyTool
    <2> QED BY <2>1, <2>2, <2>3, AtRest DEF LockInv, ScanHolds, LockDescribesOneState, OnlyTool
  <1> QED BY <1>1, <1>2, <1>3, <1>4

LEMMA CreatingLockHolds ==
  ASSUME LockInv, CreateLockFile
  PROVE  LockInv'
  <1> DEFINE files == Written("lock", PartialLock)
             state == [tool EXCEPT !.at = "fill"]
  <1>1. CASE Answers("rejected")
    <2>1. tool'.at = "idle"
      BY <1>1, AtRest DEF Answers
    <2>2. state.at = "fill"
      BY DEF LockInv, LockTypes
    <2> QED BY <1>1, <2>1, <2>2, RejectingCallHolds DEF CreateLockFile, Continues, OnlyTool
  <1>2. CASE ~Answers("rejected")
    <2>1. /\ tool.at = "write" /\ PackBecomes(files, clock + 1) /\ Continues(state)
      BY <1>2 DEF CreateLockFile
    <2>2. /\ DOMAIN state = DOMAIN tool /\ state.dir = tool.dir /\ state.at = "fill"
          /\ state.marks = tool.marks
      BY <2>1 DEF LockInv, LockTypes
    <2>3. NewMarks(files, clock + 1)
      BY DEF NewMarks, Written, With, LockInv, LockTypes
    <2> HIDE DEF state, files
    <2>4. LockTypes'
      BY <2>1, <2>2, <2>3 DEF NewMarks, PackBecomes, Continues, LockInv, LockTypes
    <2>5. Fits(pack') => fitted'
      BY <2>1 DEF PackBecomes
    <2> QED BY <2>1, <2>2, <2>4, <2>5
            DEF LockInv, ScanHolds, LockDescribesOneState, Continues
  <1> QED BY <1>1, <1>2

LEMMA WritingLockHolds ==
  ASSUME LockInv, WriteLock
  PROVE  LockInv'
  <1> DEFINE state == [Resting EXCEPT !.at = "scan"]
  <1>1. /\ tool.at = "fill" /\ Continues(state) /\ fitted' = Fits(pack')
        /\ UNCHANGED <<dirMark, clock>>
    BY DEF WriteLock
  <1>2. /\ DOMAIN pack' = DOMAIN pack
        /\ \A n \in DOMAIN pack :
             DOMAIN pack'[n] = DOMAIN pack[n] /\ pack'[n].mark = pack[n].mark
    BY DEF WriteLock, LockInv, LockTypes
  <1>3. /\ DOMAIN state = DOMAIN Resting /\ state.dir = 0 /\ state.at = "scan"
        /\ DOMAIN state.marks = {} /\ DOMAIN state.read = {}
    BY AtRest
  <1>4. Fits(pack') \in BOOLEAN
    BY DEF Fits, RolesFit, LockFits
  <1> HIDE DEF state
  <1>5. LockTypes'
    BY <1>1, <1>2, <1>3, <1>4, AtRest DEF LockInv, LockTypes, Continues
  <1> QED BY <1>1, <1>3, <1>5 DEF LockInv, ScanHolds, LockDescribesOneState, Continues

LEMMA LockStepHolds ==
  ASSUME LockInv, [PackNext]_packVars
  PROVE  LockInv'
  <1>1. CASE OwnerEdits
    BY <1>1, OwnerEditsHolds
  <1>2. CASE CallBegins
    BY <1>2, CallBeginsHolds
  <1>3. CASE ScanDirectory \/ ScanFile \/ ScanEnds
    BY <1>3, ScanningHolds
  <1>4. CASE ReadFile
    BY <1>4, ReadingFileHolds
  <1>5. CASE JudgeSnapshot
    BY <1>5, JudgingHolds
  <1>6. CASE RescanFile \/ RescanEnds
    BY <1>6, RescanningHolds
  <1>7. CASE CreateLockFile
    BY <1>7, CreatingLockHolds
  <1>8. CASE WriteLock
    BY <1>8, WritingLockHolds
  <1>9. CASE ToolKilled
    BY <1>9, RejectingCallHolds DEF ToolKilled
  <1>10. CASE UNCHANGED packVars
    <2>1. UNCHANGED <<LockTypes, ScanHolds, Doomed, LockDescribesOneState>>
      BY <1>10 DEF packVars, LockTypes, ScanHolds, Doomed, LockDescribesOneState, SameMark
    <2> QED BY <1>10, <2>1 DEF packVars, LockInv, Fits
  <1> QED
    BY <1>1, <1>2, <1>3, <1>4, <1>5, <1>6, <1>7, <1>8, <1>9, <1>10 DEF PackNext, ToolStep

\* For any files, contents and number of changes and calls: a call that accepts a pack
\* (verifyPackLock, and createPackLock that verifies what it wrote) accepts what the pack
\* once was, all of it at one moment.
THEOREM AcceptedLocksDescribeOneState == PackSpec => []LockDescribesOneState
  <1>1. PackInit => LockInv
    BY LockInitHolds
  <1>2. LockInv /\ [PackNext]_packVars => LockInv'
    BY LockStepHolds
  <1>3. LockInv => LockDescribesOneState
    BY DEF LockInv
  <1> QED BY <1>1, <1>2, <1>3, PTL DEF PackSpec

-----------------------------------------------------------------------------
(* The review of a locked pack, for any number of reviewers, anchors, files and acts of the
   owner.

   The argument.  The preflight report, created exclusively, makes its writer the holder
   of the anchor; everything else there is written, and the model called, by the holder
   only, who does each once because he never goes back.  The bundle agrees with the lock
   he sealed file by file, whatever is in the pack by then.                            *)

\* Where a reviewer is once he wrote the preflight report; has called the model; found
\* everything as it was before.
AfterTheCall == {"after", "relock", "tools", "trace", "result", "record", "done"}
Holding == {"inventory", "call"} \cup AfterTheCall
Satisfied == {"trace", "result", "record", "done"}

Shapes ==
  /\ DOMAIN review = Reviewers
  /\ \A r \in Reviewers :
       DOMAIN review[r] = {"at", "anchor", "tools", "sealed", "bundle", "failed"}
  /\ DOMAIN anchor = Anchors
  /\ \A a \in Anchors : DOMAIN anchor[a] = {"preflight", "trace", "record"}
  /\ modelCalls \in [Anchors -> Nat]
  /\ inputLock \in [InputFiles -> Digests] /\ input \in [InputFiles -> Digests]

\* What a reviewer has read, by the place s.at where it is.
BundleIsAsSealed(s) ==
  /\ s.at \in {"verify", "seal", "bundle"} => s.bundle = NotRead
  /\ s.at \in {"bundle", "artifacts"} => s.sealed \in [InputFiles -> Digests]
  /\ s.at = "artifacts" =>
       /\ s.bundle = [f \in DOMAIN s.bundle |-> s.sealed[f]]
       /\ DOMAIN s.bundle \subseteq InputFiles
  /\ s.at \in {"preflight"} \cup Holding => s.bundle = s.sealed

HoldersHaveTheirAnchor ==
  /\ \A r \in Reviewers :
       /\ review[r].at \notin {"start", "rejected"} => review[r].anchor \in Anchors
       /\ review[r].at \in Holding => anchor[review[r].anchor].preflight = r
  /\ \A a \in Anchors : anchor[a].preflight # "none" =>
       LET r == anchor[a].preflight IN
       /\ r \in Reviewers /\ review[r].anchor = a
       /\ review[r].at \in Holding \cup {"rejected"}

CallsAreTheHolders ==
  /\ \A a \in Anchors : modelCalls[a] # 0 =>
       /\ modelCalls[a] = 1 /\ anchor[a].preflight # "none"
       /\ review[anchor[a].preflight].at \in AfterTheCall \cup {"rejected"}
  /\ \A r \in Reviewers :
       review[r].at \in AfterTheCall => review[r].failed \/ modelCalls[review[r].anchor] = 1

EvidenceIsTheHolders ==
  /\ \A r \in Reviewers :
       /\ review[r].at \in Satisfied => ~review[r].failed
       /\ review[r].at \in {"result", "record", "done"} => anchor[review[r].anchor].trace = r
       /\ review[r].at \in {"record", "done"} => output = r
  /\ \A a \in Anchors : anchor[a].record # "none" =>
       LET r == anchor[a].record IN
       r \in Reviewers /\ review[r].at = "done" /\ review[r].anchor = a

ReviewInv ==
  /\ Shapes
  /\ \A r \in Reviewers : BundleIsAsSealed(review[r])
  /\ HoldersHaveTheirAnchor
  /\ CallsAreTheHolders
  /\ EvidenceIsTheHolders

-----------------------------------------------------------------------------
LEMMA ReviewInitHolds ==
  ASSUME ReviewInit
  PROVE  ReviewInv
  <1>1. \A r \in Reviewers : review[r] = NotStarted
    BY DEF ReviewInit
  <1>2. Shapes
    BY DEF ReviewInit, Shapes, NotStarted, Empty
  <1>3. \A r \in Reviewers : BundleIsAsSealed(review[r])
    BY <1>1 DEF NotStarted, BundleIsAsSealed, Holding, AfterTheCall
  <1>4. \A a \in Anchors : anchor[a] = Empty /\ modelCalls[a] = 0
    BY DEF ReviewInit
  <1> QED
    BY <1>1, <1>2, <1>3, <1>4
    DEF ReviewInv, HoldersHaveTheirAnchor, CallsAreTheHolders, EvidenceIsTheHolders,
        NotStarted, Empty, Holding, AfterTheCall, Satisfied

\* What it is to go somewhere.
LEMMA Going ==
  ASSUME Shapes, NEW r \in Reviewers, NEW to, Goes(r, to)
  PROVE  /\ DOMAIN review' = Reviewers
         /\ DOMAIN review'[r] = DOMAIN review[r]
         /\ review'[r].at = to
         /\ \A part \in {"anchor", "tools", "sealed", "bundle", "failed"} :
              review'[r][part] = review[r][part]
         /\ \A q \in Reviewers \ {r} : review'[q] = review[q]
  BY DEF Shapes, Goes

\* To go nowhere is always possible.
LEMMA RejectingHolds ==
  ASSUME ReviewInv, NEW r \in Reviewers, Goes(r, "rejected"), OnlyReview,
         review[r].at \notin {"start", "done"}
  PROVE  ReviewInv'
  <1>1. Shapes'
    BY Going DEF ReviewInv, Shapes, OnlyReview
  <1>2. BundleIsAsSealed(review'[r])
    BY Going DEF ReviewInv, BundleIsAsSealed, Holding, AfterTheCall
  <1>3. \A q \in Reviewers : BundleIsAsSealed(review'[q])
    BY <1>2, Going DEF ReviewInv
  <1> QED
    BY <1>1, <1>3, Going
    DEF ReviewInv, OnlyReview, HoldersHaveTheirAnchor, CallsAreTheHolders,
        EvidenceIsTheHolders, Holding, AfterTheCall, Satisfied

\* The steps that only look.
LEMMA CheckingHolds ==
  ASSUME ReviewInv, NEW r \in Reviewers, NEW to, Goes(r, to), OnlyReview,
         \/ review[r].at = "verify" /\ to = "seal"
         \/ review[r].at = "bundle" /\ to = "artifacts"
         \/ review[r].at = "artifacts" /\ to = "preflight" /\ DOMAIN review[r].bundle = InputFiles
         \/ review[r].at = "inventory" /\ to = "call"
         \/ review[r].at = "after" /\ to = "relock"
         \/ review[r].at = "relock" /\ to = "tools"
         \/ review[r].at = "tools" /\ to = "trace" /\ ~review[r].failed
  PROVE  ReviewInv'
  <1>1. Shapes'
    BY Going DEF ReviewInv, Shapes, OnlyReview
  <1>2. BundleIsAsSealed(review'[r])
    <2>1. BundleIsAsSealed(review[r])
      BY DEF ReviewInv
    <2>2. /\ review'[r].at = to /\ review'[r].bundle = review[r].bundle
          /\ review'[r].sealed = review[r].sealed
      BY Going DEF ReviewInv
    <2>3. CASE review[r].at = "artifacts"
      <3>1. review[r].sealed = [f \in InputFiles |-> review[r].sealed[f]]
        BY <2>1, <2>3 DEF BundleIsAsSealed
      <3>2. review[r].bundle = review[r].sealed
        BY <2>1, <2>3, <3>1 DEF BundleIsAsSealed
      <3> QED BY <2>2, <2>3, <3>2 DEF BundleIsAsSealed, Holding, AfterTheCall
    <2>4. CASE review[r].at = "bundle"
      <3>1. DOMAIN NotRead = {} /\ NotRead = [f \in {} |-> review[r].sealed[f]]
        BY DEF NotRead
      <3>2. review[r].bundle = NotRead /\ to = "artifacts"
        BY <2>1, <2>4 DEF BundleIsAsSealed
      <3> QED BY <2>1, <2>2, <2>4, <3>1, <3>2 DEF BundleIsAsSealed, Holding, AfterTheCall
    <2>5. CASE review[r].at \notin {"artifacts", "bundle"}
      BY <2>1, <2>2, <2>5 DEF BundleIsAsSealed, Holding, AfterTheCall
    <2> QED BY <2>3, <2>4, <2>5
  <1>3. \A q \in Reviewers : BundleIsAsSealed(review'[q])
    BY <1>2, Going DEF ReviewInv
  <1> QED
    BY <1>1, <1>3, Going
    DEF ReviewInv, OnlyReview, HoldersHaveTheirAnchor, CallsAreTheHolders,
        EvidenceIsTheHolders, Holding, AfterTheCall, Satisfied

-----------------------------------------------------------------------------
LEMMA ResolvingHolds ==
  ASSUME ReviewInv, NEW r \in Reviewers, NEW a \in Anchors, ResolveLayout(r, a)
  PROVE  ReviewInv'
  <1>1. /\ DOMAIN review' = Reviewers /\ DOMAIN review'[r] = DOMAIN NotStarted
        /\ review[r].at = "start"
        /\ review'[r].at = "verify" /\ review'[r].anchor = a
        /\ review'[r].bundle = NotRead
        /\ \A q \in Reviewers \ {r} : review'[q] = review[q]
        /\ OnlyReview
    BY DEF ResolveLayout, NotStarted, ReviewInv, Shapes
  <1>2. Shapes'
    BY <1>1 DEF ReviewInv, Shapes, OnlyReview, NotStarted
  <1>3. BundleIsAsSealed(review'[r])
    BY <1>1 DEF BundleIsAsSealed, Holding, AfterTheCall
  <1>4. \A q \in Reviewers : BundleIsAsSealed(review'[q])
    BY <1>1, <1>3 DEF ReviewInv
  <1> QED
    BY <1>1, <1>2, <1>4
    DEF ReviewInv, OnlyReview, HoldersHaveTheirAnchor, CallsAreTheHolders,
        EvidenceIsTheHolders, Holding, AfterTheCall, Satisfied

LEMMA SealingHolds ==
  ASSUME ReviewInv, NEW r \in Reviewers, SealLock(r)
  PROVE  ReviewInv'
  <1>1. /\ DOMAIN review' = Reviewers /\ DOMAIN review'[r] = DOMAIN review[r]
        /\ review[r].at = "seal" /\ review'[r].at = "bundle"
        /\ review'[r].sealed = inputLock /\ review'[r].bundle = review[r].bundle
        /\ review'[r].anchor = review[r].anchor
        /\ \A q \in Reviewers \ {r} : review'[q] = review[q]
        /\ OnlyReview
    BY DEF SealLock, ReviewInv, Shapes
  <1>2. Shapes'
    BY <1>1 DEF ReviewInv, Shapes, OnlyReview
  <1>3. BundleIsAsSealed(review'[r])
    BY <1>1 DEF ReviewInv, Shapes, BundleIsAsSealed, Holding, AfterTheCall
  <1>4. \A q \in Reviewers : BundleIsAsSealed(review'[q])
    BY <1>1, <1>3 DEF ReviewInv
  <1> QED
    BY <1>1, <1>2, <1>4
    DEF ReviewInv, OnlyReview, HoldersHaveTheirAnchor, CallsAreTheHolders,
        EvidenceIsTheHolders, Holding, AfterTheCall, Satisfied

LEMMA ReadingHolds ==
  ASSUME ReviewInv, NEW r \in Reviewers, ReadArtifact(r)
  PROVE  ReviewInv'
  <1>1. CASE review' = [review EXCEPT ![r].at = "rejected"]
    BY <1>1, RejectingHolds DEF ReadArtifact, Goes
  <1>2. CASE review' # [review EXCEPT ![r].at = "rejected"]
    <2>1. PICK f \in InputFiles \ DOMAIN review[r].bundle :
            /\ input[f] = review[r].sealed[f]
            /\ review' = [review EXCEPT ![r].bundle =
                 [g \in DOMAIN @ \cup {f} |-> IF g = f THEN input[f] ELSE @[g]]]
      BY <1>2 DEF ReadArtifact, AsDeclared
    <2> DEFINE read == review[r].bundle
               more == [g \in DOMAIN read \cup {f} |-> IF g = f THEN input[f] ELSE read[g]]
    <2>2. /\ DOMAIN review' = Reviewers /\ DOMAIN review'[r] = DOMAIN review[r]
          /\ review[r].at = "artifacts" /\ review'[r].at = "artifacts"
          /\ review'[r].sealed = review[r].sealed /\ review'[r].bundle = more
          /\ review'[r].anchor = review[r].anchor
          /\ \A q \in Reviewers \ {r} : review'[q] = review[q]
          /\ OnlyReview
      BY <2>1 DEF ReadArtifact, ReviewInv, Shapes
    <2>3. Shapes'
      BY <2>2 DEF ReviewInv, Shapes, OnlyReview
    <2>4. /\ read = [g \in DOMAIN read |-> review[r].sealed[g]]
          /\ DOMAIN read \subseteq InputFiles
          /\ review[r].sealed \in [InputFiles -> Digests]
      BY <2>2 DEF ReviewInv, BundleIsAsSealed
    <2>5. \A g \in DOMAIN read : read[g] = review[r].sealed[g]
      BY <2>4
    <2>6. more = [g \in DOMAIN more |-> review[r].sealed[g]] /\ DOMAIN more \subseteq InputFiles
      BY <2>1, <2>4, <2>5
    <2>7. BundleIsAsSealed(review'[r])
      BY <2>2, <2>4, <2>6 DEF BundleIsAsSealed, Holding, AfterTheCall
    <2>8. \A q \in Reviewers : BundleIsAsSealed(review'[q])
      BY <2>2, <2>7 DEF ReviewInv
    <2> QED
      BY <2>2, <2>3, <2>8
      DEF ReviewInv, OnlyReview, HoldersHaveTheirAnchor, CallsAreTheHolders,
          EvidenceIsTheHolders, Holding, AfterTheCall, Satisfied
  <1> QED BY <1>1, <1>2

\* Whoever finds the report missing becomes the holder.
LEMMA ReportingHolds ==
  ASSUME ReviewInv, NEW r \in Reviewers, WritePreflightReport(r)
  PROVE  ReviewInv'
  <1>1. CASE Goes(r, "rejected") /\ UNCHANGED anchor
    BY <1>1, RejectingHolds DEF WritePreflightReport, OnlyReview
  <1>2. CASE /\ PreflightFree(AnchorOf(r))
             /\ anchor' = [anchor EXCEPT ![AnchorOf(r)].preflight = r]
             /\ Goes(r, "inventory")
    <2> DEFINE a == review[r].anchor
    <2>1. a \in Anchors /\ review[r].at = "preflight" /\ anchor[a].preflight = "none"
      BY <1>2 DEF WritePreflightReport, PreflightFree, AnchorOf, ReviewInv, HoldersHaveTheirAnchor
    <2>2. /\ DOMAIN anchor' = Anchors /\ DOMAIN anchor'[a] = DOMAIN anchor[a]
          /\ anchor'[a].preflight = r
          /\ anchor'[a].trace = anchor[a].trace /\ anchor'[a].record = anchor[a].record
          /\ \A b \in Anchors \ {a} : anchor'[b] = anchor[b]
      BY <1>2, <2>1 DEF AnchorOf, ReviewInv, Shapes
    <2>3. UNCHANGED <<input, inputLock, output, modelCalls>>
      BY DEF WritePreflightReport
    <2>4. Shapes'
      BY <1>2, <2>2, <2>3, Going DEF ReviewInv, Shapes
    <2>5. BundleIsAsSealed(review'[r])
      BY <1>2, <2>1, Going DEF ReviewInv, BundleIsAsSealed, Holding, AfterTheCall
    <2>6. \A q \in Reviewers : BundleIsAsSealed(review'[q])
      BY <1>2, <2>5, Going DEF ReviewInv
    <2>7. \A q \in Reviewers : review[q].at \in Holding => review[q].anchor # a
      BY <2>1, ReviewAssumption DEF ReviewInv, HoldersHaveTheirAnchor
    <2>m. \A b \in Anchors : anchor[b].preflight # r
      BY <2>1, ReviewAssumption DEF ReviewInv, HoldersHaveTheirAnchor, Holding, AfterTheCall
    <2>n. /\ review'[r].at = "inventory" /\ review'[r].anchor = a
          /\ \A q \in Reviewers \ {r} : review'[q] = review[q]
      BY <1>2, Going DEF ReviewInv
    <2>8. HoldersHaveTheirAnchor'
      <3>1. \A q \in Reviewers :
              /\ review'[q].at \notin {"start", "rejected"} => review'[q].anchor \in Anchors
              /\ review'[q].at \in Holding => anchor'[review'[q].anchor].preflight = q
        <4>1. /\ review'[r].anchor \in Anchors
              /\ anchor'[review'[r].anchor].preflight = r
          BY <2>1, <2>2, <2>n
        <4>2. ASSUME NEW q \in Reviewers \ {r}
              PROVE  /\ review'[q].at \notin {"start", "rejected"} => review'[q].anchor \in Anchors
                     /\ review'[q].at \in Holding => anchor'[review'[q].anchor].preflight = q
          <5>1. review'[q] = review[q]
            BY <2>n
          <5>2. review[q].at \notin {"start", "rejected"} => review[q].anchor \in Anchors
            BY DEF ReviewInv, HoldersHaveTheirAnchor
          <5>3. review[q].at \in Holding =>
                  review[q].anchor \in Anchors \ {a} /\ anchor[review[q].anchor].preflight = q
            BY <2>7 DEF ReviewInv, HoldersHaveTheirAnchor, Holding, AfterTheCall
          <5> QED BY <5>1, <5>2, <5>3, <2>2
        <4> QED BY <4>1, <4>2
      <3>2. ASSUME NEW b \in Anchors, anchor'[b].preflight # "none"
            PROVE  LET q == anchor'[b].preflight IN
                   /\ q \in Reviewers /\ review'[q].anchor = b
                   /\ review'[q].at \in Holding \cup {"rejected"}
        <4>1. CASE b = a
          BY <4>1, <2>2, <2>n DEF Holding
        <4>2. CASE b # a
          BY <3>2, <4>2, <2>2, <2>n, <2>m DEF ReviewInv, HoldersHaveTheirAnchor
        <4> QED BY <4>1, <4>2
      <3> QED BY <3>1, <3>2 DEF HoldersHaveTheirAnchor
    <2>9. CallsAreTheHolders'
      <3>1. ASSUME NEW b \in Anchors, modelCalls'[b] # 0
            PROVE  /\ modelCalls'[b] = 1 /\ anchor'[b].preflight # "none"
                   /\ review'[anchor'[b].preflight].at \in AfterTheCall \cup {"rejected"}
        <4>1. /\ b # a /\ modelCalls[b] = 1 /\ anchor[b].preflight # "none"
              /\ review[anchor[b].preflight].at \in AfterTheCall \cup {"rejected"}
          BY <3>1, <2>1, <2>3 DEF ReviewInv, CallsAreTheHolders
        <4>2. anchor[b].preflight \in Reviewers \ {r}
          BY <4>1, <2>m DEF ReviewInv, HoldersHaveTheirAnchor
        <4> QED BY <4>1, <4>2, <2>2, <2>3, <2>n
      <3>2. ASSUME NEW q \in Reviewers, review'[q].at \in AfterTheCall
            PROVE  review'[q].failed \/ modelCalls'[review'[q].anchor] = 1
        <4>1. q # r
          BY <3>2, <2>n DEF AfterTheCall
        <4> QED BY <3>2, <4>1, <2>3, <2>n DEF ReviewInv, CallsAreTheHolders
      <3> QED BY <3>1, <3>2 DEF CallsAreTheHolders
    <2>10. EvidenceIsTheHolders'
      BY <1>2, <2>1, <2>2, <2>3, Going
      DEF ReviewInv, HoldersHaveTheirAnchor, EvidenceIsTheHolders, Satisfied
    <2> QED BY <2>4, <2>6, <2>8, <2>9, <2>10 DEF ReviewInv
  <1> QED BY <1>1, <1>2 DEF WritePreflightReport

\* The first call for the anchor, since the holder has not made one yet.
LEMMA CallingHolds ==
  ASSUME ReviewInv, NEW r \in Reviewers, CallModel(r)
  PROVE  ReviewInv'
  <1> DEFINE a == review[r].anchor
  <1>1. /\ review[r].at = "call" /\ a \in Anchors /\ anchor[a].preflight = r
        /\ UNCHANGED <<input, inputLock, anchor, output>>
    BY DEF CallModel, ReviewInv, HoldersHaveTheirAnchor, Holding
  <1>2. modelCalls[a] = 0
    BY <1>1, ReviewAssumption DEF ReviewInv, CallsAreTheHolders, AfterTheCall
  <1>3. /\ DOMAIN review' = Reviewers /\ DOMAIN review'[r] = DOMAIN review[r]
        /\ review'[r].at = "after"
        /\ review'[r].anchor = a /\ review'[r].bundle = review[r].bundle
        /\ review'[r].sealed = review[r].sealed
        /\ \A q \in Reviewers \ {r} : review'[q] = review[q]
    BY DEF CallModel, ReviewInv, Shapes
  <1>4. /\ modelCalls' \in [Anchors -> Nat]
        /\ \A b \in Anchors \ {a} : modelCalls'[b] = modelCalls[b]
        /\ modelCalls'[a] \in {0, 1}
        /\ review'[r].failed \/ modelCalls'[a] = 1
    BY <1>1, <1>2 DEF CallModel, AnchorOf, ReviewInv, Shapes
  <1>5. Shapes'
    BY <1>1, <1>3, <1>4 DEF ReviewInv, Shapes
  <1>6. BundleIsAsSealed(review'[r])
    BY <1>1, <1>3 DEF ReviewInv, BundleIsAsSealed, Holding, AfterTheCall
  <1>7. \A q \in Reviewers : BundleIsAsSealed(review'[q])
    BY <1>3, <1>6 DEF ReviewInv
  <1>8. HoldersHaveTheirAnchor'
    BY <1>1, <1>3 DEF ReviewInv, HoldersHaveTheirAnchor, Holding, AfterTheCall
  <1>9. CallsAreTheHolders'
    <2>1. \A q \in Reviewers \ {r} : review[q].at \in AfterTheCall => review[q].anchor \in Anchors \ {a}
      BY <1>1 DEF ReviewInv, HoldersHaveTheirAnchor, Holding, AfterTheCall
    <2>2. \A b \in Anchors \ {a} : anchor[b].preflight # r
      BY <1>1, ReviewAssumption DEF ReviewInv, HoldersHaveTheirAnchor
    <2>3. ASSUME NEW b \in Anchors, modelCalls'[b] # 0
          PROVE  /\ modelCalls'[b] = 1 /\ anchor'[b].preflight # "none"
                 /\ review'[anchor'[b].preflight].at \in AfterTheCall \cup {"rejected"}
      <3>1. CASE b = a
        BY <3>1, <2>3, <1>1, <1>3, <1>4, ReviewAssumption DEF AfterTheCall
      <3>2. CASE b # a
        <4>1. /\ modelCalls[b] = 1 /\ anchor[b].preflight # "none"
              /\ review[anchor[b].preflight].at \in AfterTheCall \cup {"rejected"}
          BY <3>2, <2>3, <1>4 DEF ReviewInv, CallsAreTheHolders
        <4>2. anchor[b].preflight \in Reviewers \ {r}
          BY <4>1, <2>2, <3>2 DEF ReviewInv, HoldersHaveTheirAnchor
        <4> QED BY <4>1, <4>2, <1>1, <1>3, <1>4, <3>2
      <3> QED BY <3>1, <3>2
    <2>4. ASSUME NEW q \in Reviewers, review'[q].at \in AfterTheCall
          PROVE  review'[q].failed \/ modelCalls'[review'[q].anchor] = 1
      <3>1. CASE q = r
        BY <3>1, <1>3, <1>4
      <3>2. CASE q # r
        BY <3>2, <2>4, <2>1, <1>3, <1>4 DEF ReviewInv, CallsAreTheHolders
      <3> QED BY <3>1, <3>2
    <2> QED BY <2>3, <2>4 DEF CallsAreTheHolders
  <1>10. EvidenceIsTheHolders'
    BY <1>1, <1>3 DEF ReviewInv, HoldersHaveTheirAnchor, EvidenceIsTheHolders, Satisfied
  <1> QED BY <1>5, <1>7, <1>8, <1>9, <1>10 DEF ReviewInv

\* The holder writes what is not there.
LEMMA WritingHolds ==
  ASSUME ReviewInv, NEW r \in Reviewers, WriteTrace(r) \/ WriteResult(r) \/ WriteRunRecord(r)
  PROVE  ReviewInv'
  <1> DEFINE a == review[r].anchor
  <1>1. CASE Goes(r, "rejected") /\ UNCHANGED <<anchor, output>>
    BY <1>1, RejectingHolds DEF WriteTrace, WriteResult, WriteRunRecord, OnlyReview
  <1>2. CASE ~(Goes(r, "rejected") /\ UNCHANGED <<anchor, output>>)
    <2>1. PICK to \in {"result", "record", "done"} :
            /\ Goes(r, to)
            /\ to = "result" =>
                 /\ review[r].at = "trace" /\ UNCHANGED output
                 /\ anchor' = [anchor EXCEPT ![a].trace = r] /\ anchor[a].trace = "none"
            /\ to = "record" =>
                 review[r].at = "result" /\ output' = r /\ output = "none" /\ UNCHANGED anchor
            /\ to = "done" =>
                 /\ review[r].at = "record" /\ UNCHANGED output
                 /\ anchor' = [anchor EXCEPT ![a].record = r] /\ anchor[a].record = "none"
      BY <1>2 DEF WriteTrace, WriteResult, WriteRunRecord, AnchorOf
    <2>2. /\ review[r].at \in {"trace", "result", "record"}
          /\ UNCHANGED <<input, inputLock, tools, modelCalls>>
      BY DEF WriteTrace, WriteResult, WriteRunRecord
    <2>3. a \in Anchors /\ anchor[a].preflight = r
      BY <2>2 DEF ReviewInv, HoldersHaveTheirAnchor, Holding, AfterTheCall
    <2>4. /\ DOMAIN anchor' = Anchors /\ DOMAIN anchor'[a] = DOMAIN anchor[a]
          /\ anchor'[a].preflight = r
          /\ to = "result" => anchor'[a].trace = r /\ anchor'[a].record = anchor[a].record
          /\ to = "record" => UNCHANGED anchor
          /\ to = "done" => anchor'[a].record = r /\ anchor'[a].trace = anchor[a].trace
          /\ \A b \in Anchors \ {a} : anchor'[b] = anchor[b]
      BY <2>1, <2>3 DEF ReviewInv, Shapes
    <2>5. Shapes'
      BY <2>1, <2>2, <2>4, Going DEF ReviewInv, Shapes
    <2>6. BundleIsAsSealed(review'[r])
      BY <2>1, <2>2, Going DEF ReviewInv, BundleIsAsSealed, Holding, AfterTheCall
    <2>7. \A q \in Reviewers : BundleIsAsSealed(review'[q])
      BY <2>1, <2>6, Going DEF ReviewInv
    <2>8. /\ review'[r].at = to /\ review'[r].anchor = a /\ review'[r].failed = review[r].failed
          /\ \A q \in Reviewers \ {r} : review'[q] = review[q]
      BY <2>1, Going DEF ReviewInv
    <2>9. \A b \in Anchors : anchor'[b].preflight = anchor[b].preflight
      BY <2>3, <2>4
    <2>10. HoldersHaveTheirAnchor'
      BY <2>2, <2>3, <2>8, <2>9 DEF ReviewInv, HoldersHaveTheirAnchor, Holding, AfterTheCall
    <2>11. CallsAreTheHolders'
      BY <2>2, <2>3, <2>8, <2>9
      DEF ReviewInv, HoldersHaveTheirAnchor, CallsAreTheHolders, Holding, AfterTheCall
    <2>12. EvidenceIsTheHolders'
      <3>1. ASSUME NEW q \in Reviewers \ {r}
            PROVE  /\ review[q].at \in {"result", "record", "done"} =>
                        review[q].anchor \in Anchors \ {a}
                   /\ review[q].at \in {"record", "done"} => to # "record"
        BY <2>1, <2>3, ReviewAssumption
        DEF ReviewInv, HoldersHaveTheirAnchor, EvidenceIsTheHolders, Holding, AfterTheCall
      <3>2. ASSUME NEW q \in Reviewers
            PROVE  /\ review'[q].at \in Satisfied => ~review'[q].failed
                   /\ review'[q].at \in {"result", "record", "done"} =>
                        anchor'[review'[q].anchor].trace = q
                   /\ review'[q].at \in {"record", "done"} => output' = q
        <4>1. CASE q = r
          BY <4>1, <2>1, <2>2, <2>4, <2>8 DEF ReviewInv, EvidenceIsTheHolders, Satisfied
        <4>2. CASE q # r
          BY <4>2, <3>1, <2>1, <2>4, <2>8 DEF ReviewInv, EvidenceIsTheHolders
        <4> QED BY <4>1, <4>2
      <3>3. ASSUME NEW b \in Anchors, anchor'[b].record # "none"
            PROVE  LET q == anchor'[b].record IN
                   q \in Reviewers /\ review'[q].at = "done" /\ review'[q].anchor = b
        <4>1. CASE b = a /\ to = "done"
          BY <4>1, <2>4, <2>8
        <4>2. CASE ~(b = a /\ to = "done")
          <5>1. anchor'[b].record = anchor[b].record
            BY <4>2, <2>1, <2>4
          <5>2. /\ anchor[b].record \in Reviewers /\ review[anchor[b].record].at = "done"
                /\ review[anchor[b].record].anchor = b
            BY <3>3, <5>1 DEF ReviewInv, EvidenceIsTheHolders
          <5> QED BY <5>1, <5>2, <2>2, <2>8
        <4> QED BY <4>1, <4>2
      <3> QED BY <3>2, <3>3 DEF EvidenceIsTheHolders
    <2> QED BY <2>5, <2>7, <2>10, <2>11, <2>12 DEF ReviewInv
  <1> QED BY <1>1, <1>2

LEMMA OwnerActsHolds ==
  ASSUME ReviewInv, OwnerActs
  PROVE  ReviewInv'
  <1>1. Shapes'
    BY DEF OwnerActs, ReviewInv, Shapes
  <1>2. UNCHANGED <<anchor, output, review, modelCalls>>
    BY DEF OwnerActs
  <1> QED
    BY <1>1, <1>2
    DEF ReviewInv, HoldersHaveTheirAnchor, CallsAreTheHolders, EvidenceIsTheHolders

LEMMA ReviewStepHolds ==
  ASSUME ReviewInv, NEW r \in Reviewers, ReviewStep(r)
  PROVE  ReviewInv'
  <1>1. CASE \E a \in Anchors : ResolveLayout(r, a)
    BY <1>1, ResolvingHolds
  <1>2. CASE SealLock(r) \/ ReadArtifact(r) \/ WritePreflightReport(r) \/ CallModel(r)
    BY <1>2, SealingHolds, ReadingHolds, ReportingHolds, CallingHolds
  <1>3. CASE WriteTrace(r) \/ WriteResult(r) \/ WriteRunRecord(r)
    BY <1>3, WritingHolds
  <1>4. CASE \/ VerifyLockBefore(r) \/ OpenBundle(r) \/ CloseBundle(r) \/ CheckInventories(r)
             \/ VerifyLockAfter(r) \/ CompareLock(r) \/ CheckTools(r) \/ ReviewKilled(r)
    <2>1. CASE Goes(r, "rejected")
      BY <1>4, <2>1, RejectingHolds
      DEF VerifyLockBefore, OpenBundle, CloseBundle, CheckInventories, VerifyLockAfter,
          CompareLock, CheckTools, ReviewKilled, Checks, OnlyReview
    <2>2. CASE ~Goes(r, "rejected")
      <3>1. \E to : /\ Goes(r, to) /\ OnlyReview
                    /\ \/ review[r].at = "verify" /\ to = "seal"
                       \/ review[r].at = "bundle" /\ to = "artifacts"
                       \/ /\ review[r].at = "artifacts" /\ to = "preflight"
                          /\ DOMAIN review[r].bundle = InputFiles
                       \/ review[r].at = "inventory" /\ to = "call"
                       \/ review[r].at = "after" /\ to = "relock"
                       \/ review[r].at = "relock" /\ to = "tools"
                       \/ review[r].at = "tools" /\ to = "trace" /\ ~review[r].failed
        BY <1>4, <2>2
        DEF VerifyLockBefore, OpenBundle, CloseBundle, CheckInventories, VerifyLockAfter,
            CompareLock, CheckTools, ReviewKilled, Checks, OnlyReview
      <3> QED BY <3>1, CheckingHolds
    <2> QED BY <2>1, <2>2
  <1> QED BY <1>1, <1>2, <1>3, <1>4 DEF ReviewStep

LEMMA ReviewInvariant == ReviewSpec => []ReviewInv
  <1>1. ReviewInit => ReviewInv
    BY ReviewInitHolds
  <1>2. ReviewInv /\ [ReviewNext]_reviewVars => ReviewInv'
    <2>1. CASE ReviewNext
      BY <2>1, ReviewStepHolds, OwnerActsHolds DEF ReviewNext
    <2>2. CASE UNCHANGED reviewVars
      BY <2>2
      DEF reviewVars, ReviewInv, Shapes, HoldersHaveTheirAnchor, CallsAreTheHolders,
          EvidenceIsTheHolders
    <2> QED BY <2>1, <2>2
  <1> QED BY <1>1, <1>2, PTL DEF ReviewSpec

-----------------------------------------------------------------------------
\* One anchor, one call, and its report was there first.
THEOREM AnchorsStandForOneCall == ReviewSpec => []OneCallPerAnchor
  <1>1. ReviewInv => OneCallPerAnchor
    BY DEF ReviewInv, CallsAreTheHolders, OneCallPerAnchor, Shapes
  <1> QED BY <1>1, ReviewInvariant, PTL

\* A run record is of one review from its report to its result, over exactly the files
\* that its lock names.
THEOREM RecordsAreOfOneReview == ReviewSpec => []RecordIsOfOneReview
  <1>1. ASSUME ReviewInv, NEW a \in Anchors, anchor[a].record # "none"
        PROVE  LET r == anchor[a].record IN
               /\ anchor[a].preflight = r /\ anchor[a].trace = r /\ output = r
               /\ modelCalls[a] = 1 /\ ~review[r].failed
               /\ review[r].bundle = review[r].sealed
    <2> DEFINE r == anchor[a].record
    <2>1. r \in Reviewers /\ review[r].at = "done" /\ review[r].anchor = a
      BY <1>1 DEF ReviewInv, EvidenceIsTheHolders
    <2>2. anchor[a].preflight = r
      BY <1>1, <2>1 DEF ReviewInv, HoldersHaveTheirAnchor, Holding, AfterTheCall
    <2>3. anchor[a].trace = r /\ output = r /\ ~review[r].failed
      BY <1>1, <2>1 DEF ReviewInv, EvidenceIsTheHolders, Satisfied
    <2>4. modelCalls[a] = 1
      BY <1>1, <2>1, <2>3 DEF ReviewInv, CallsAreTheHolders, AfterTheCall
    <2>5. review[r].bundle = review[r].sealed
      BY <1>1, <2>1 DEF ReviewInv, BundleIsAsSealed, Holding, AfterTheCall
    <2> QED BY <2>2, <2>3, <2>4, <2>5
  <1>2. ReviewInv => RecordIsOfOneReview
    BY <1>1 DEF RecordIsOfOneReview
  <1> QED BY <1>2, ReviewInvariant, PTL

-----------------------------------------------------------------------------
(* The freeze (EvaluationFreeze) for any number of starts, kills, failed steps and changes of what
   is frozen: calls are accounted for, a release is earned, and what is printed is what
   is on disk.

   The argument.  A root that is there is never worked on again, so all that is in it
   was written by one process in the order of its steps.  FreezeInv says what each step
   finds: the markers of the steps before it, the calls counted and made, and, from the
   moment a terminal record or a release exists, that only the end is left.  The core
   that is verified after the auditor answered was intact then, which coreHeld keeps. *)

\* Before the root is made, and when no process runs.
Early == {"inputs", "projection", "preflight-run", "rg", "identity", "root"}
Rest == {"ended", "killed"}

\* The steps that come after a marker was written, the last marker first.
AfterAuditorTrace ==
  {"core-verify-again", "audit-validate", "toolchain-again", "audit-staging", "audit-freeze",
   "audit-verify", "core-verify-last", "release-staging", "release-freeze", "release-verify",
   "terminal", "close-root"}
AfterAuditorConsumed == {"auditor-call", "auditor-result", "auditor-trace"} \cup AfterAuditorTrace
AfterCoreFrozen == {"toolchain", "auditor-consumed"} \cup AfterAuditorConsumed
AfterAuthorTrace ==
  {"author-contract", "contract", "core-staging", "core-freeze", "core-verify", "core-frozen"}
    \cup AfterCoreFrozen
AfterAuthorConsumed == {"author-call", "author-result", "author-trace"} \cup AfterAuthorTrace
AfterPreflight == {"author-consumed"} \cup AfterAuthorConsumed
AfterIntent == {"preflight"} \cup AfterPreflight

\* The core was seen intact after the auditor had answered.
AfterCoreAgain == AfterAuditorTrace \ {"core-verify-again"}
Releasing == {"release-staging", "release-freeze", "release-verify"}

\* A root that is not there holds nothing; every step past the first ones has a root.
RootIsUsedOnce ==
  /\ ~privateRoot => /\ callsMade = 0 /\ markers = {} /\ terminal = NoTerminal
                     /\ frozen = [d \in Directories |-> Absent]
  /\ step \notin Early \cup Rest => privateRoot
  /\ step \in Early \/ privateRoot => starts >= 1

\* A step finds the markers of all steps before it.
MarkersInOrder ==
  /\ step \in AfterIntent => "00-intent" \in markers
  /\ step \in AfterPreflight => "01-preflight" \in markers
  /\ step \in AfterAuthorConsumed => "02-AUTHOR-CALL_CONSUMED" \in markers
  /\ step \in AfterAuthorTrace => "author-trace" \in markers
  /\ step \in AfterCoreFrozen => "03-core-frozen" \in markers
  /\ step \in AfterAuditorConsumed => "04-AUDITOR-CALL_CONSUMED" \in markers
  /\ step \in AfterAuditorTrace => "auditor-trace" \in markers
  /\ callsMade >= 1 => "02-AUTHOR-CALL_CONSUMED" \in markers
  /\ callsMade >= 2 => "04-AUDITOR-CALL_CONSUMED" \in markers

\* A call is counted when its marker is written, and made in the step after that.
CallsInOrder ==
  /\ run.callCount \in 0..2 /\ callsMade \in 0..2
  /\ step \in Early => run.callCount = 0
  /\ step \in {"intent", "preflight", "author-consumed"} => run.callCount = 0 /\ callsMade = 0
  /\ step = "author-call" => run.callCount = 1 /\ callsMade = 0
  /\ step \in AfterAuthorConsumed \ ({"author-call"} \cup AfterAuditorConsumed) =>
       run.callCount = 1 /\ callsMade = 1
  /\ step = "auditor-call" => run.callCount = 2 /\ callsMade = 1
  /\ step \in AfterAuditorConsumed \ {"auditor-call"} => run.callCount = 2 /\ callsMade = 2
  /\ step = "catch" => callsMade <= run.callCount

\* With a terminal record only the end is left, and it counts every call.
TerminalInOrder ==
  /\ terminal.state # "absent" =>
       /\ step \in Early \cup Rest \cup {"catch", "close-root"}
       /\ terminal.calls >= callsMade
  /\ terminal.state # "absent" /\ step \in {"catch", "close-root"} =>
       terminal.code = "AUDIT_REJECTED"
  /\ step = "catch" => run.code \notin {"none", "refused", "accepted", "rejected"}
  /\ step = "close-root" =>
       IF run.decision = "accept" THEN terminal.state = "absent"
       ELSE terminal.state = "frozen" /\ frozen["release"].state = "absent"

\* What a release needs is there before it is staged.
ReleaseInOrder ==
  /\ callsMade = 2 /\ frozen["core"].intact => coreHeld
  /\ step \in AfterCoreAgain => coreHeld
  /\ step \in Releasing => run.decision = "accept"
  /\ step = "terminal" => run.decision # "accept"
  /\ step = "release-verify" => frozen["release"].state = "frozen"
  /\ step = "close-root" /\ run.decision = "accept" => frozen["release"].state = "frozen"
  /\ frozen["release"].state # "absent" =>
       step \in Early \cup Rest \cup {"catch", "close-root", "release-freeze", "release-verify"}

FrozenStates == {"absent", "staged", "frozen"}
FrozenType == [Directories -> [state : FrozenStates, intact : BOOLEAN]]

FreezeTypes ==
  /\ privateRoot \in BOOLEAN
  /\ coreHeld \in BOOLEAN
  /\ markers \subseteq Markers
  /\ frozen \in FrozenType
  /\ DOMAIN run = {"callCount", "decision", "code"}
  /\ starts \in Nat

FreezeInv ==
  /\ FreezeTypes
  /\ RootIsUsedOnce
  /\ MarkersInOrder
  /\ CallsInOrder
  /\ TerminalInOrder
  /\ ReleaseInOrder
  /\ ReleaseIsEarned
  /\ AnswerIsOnDisk

-----------------------------------------------------------------------------
(* Types.                                                                       *)

LEMMA StagingIsTyped ==
  ASSUME NEW f \in FrozenType, NEW d \in Directories
  PROVE  [f EXCEPT ![d] = [state |-> "staged", intact |-> TRUE]] \in FrozenType
  BY DEF FrozenType, FrozenStates

LEMMA StateIsTyped ==
  ASSUME NEW f \in FrozenType, NEW d \in Directories, NEW s \in FrozenStates
  PROVE  [f EXCEPT ![d].state = s] \in FrozenType
  <1>1. [f[d] EXCEPT !.state = s] \in [state : FrozenStates, intact : BOOLEAN]
    BY DEF FrozenType
  <1> QED BY <1>1 DEF FrozenType

LEMMA IntactIsTyped ==
  ASSUME NEW f \in FrozenType, NEW d \in Directories
  PROVE  [f EXCEPT ![d].intact = ~@] \in FrozenType
  <1>1. [f[d] EXCEPT !.intact = ~@] \in [state : FrozenStates, intact : BOOLEAN]
    BY DEF FrozenType
  <1> QED BY <1>1 DEF FrozenType

LEMMA TypesAreKept ==
  ASSUME FreezeInv, FreezeNext
  PROVE  FreezeTypes'
  <1> USE DEF FreezeInv, FreezeTypes
  <1>1. CASE StartFreeze
    BY <1>1 DEF StartFreeze, FreshRun
  <1>2. CASE ValidatePublicAnchors
    BY <1>2 DEF ValidatePublicAnchors, ChecksFirst
  <1>3. CASE ValidateProjectionFiles
    BY <1>3 DEF ValidateProjectionFiles, ChecksFirst
  <1>4. CASE ValidateCodexPreflight
    BY <1>4 DEF ValidateCodexPreflight, ChecksFirst
  <1>5. CASE VerifyRgBinary
    BY <1>5 DEF VerifyRgBinary, ChecksFirst
  <1>6. CASE CaptureToolchainIdentity
    BY <1>6 DEF CaptureToolchainIdentity
  <1>7. CASE CreatePrivateRoot
    BY <1>7 DEF CreatePrivateRoot
  <1>8. CASE WriteIntent
    BY <1>8 DEF WriteIntent, WritesMarker, GoesOn, Caught, OnlyRoot, Markers
  <1>9. CASE WritePreflight
    BY <1>9 DEF WritePreflight, WritesMarker, GoesOn, Caught, OnlyRoot, Markers
  <1>10. CASE ConsumeAuthorCall
    BY <1>10 DEF ConsumeAuthorCall, Consumes, Counted, Caught, OnlyRoot, Markers
  <1>11. CASE AuthorCall
    BY <1>11 DEF AuthorCall, Calls, GoesOn, Caught
  <1>12. CASE ValidateAuthorExecution
    BY <1>12 DEF ValidateAuthorExecution, Judges, GoesOn, Caught, OnlyRoot
  <1>13. CASE WriteAuthorTrace
    BY <1>13 DEF WriteAuthorTrace, WritesMarker, GoesOn, Caught, OnlyRoot, Markers
  <1>14. CASE ParseProviderPayload
    BY <1>14 DEF ParseProviderPayload, Judges, GoesOn, Caught, OnlyRoot
  <1>15. CASE ValidateEvaluationContract
    BY <1>15 DEF ValidateEvaluationContract, Judges, GoesOn, Caught, OnlyRoot
  <1>16. CASE StageCore
    BY <1>16, StagingIsTyped, StateIsTyped DEF StageCore, Stages, GoesOn, Caught,
        OnlyRoot, Directories, FrozenStates
  <1>17. CASE FreezeCore
    BY <1>17, StateIsTyped DEF FreezeCore, Freezes, GoesOn, Caught, OnlyRoot,
        Directories, FrozenStates
  <1>18. CASE VerifyCore
    BY <1>18 DEF VerifyCore, Verifies, GoesOn, Caught, OnlyRoot, CoreIntact
  <1>19. CASE WriteCoreFrozen
    BY <1>19 DEF WriteCoreFrozen, WritesMarker, GoesOn, Caught, OnlyRoot, Markers
  <1>20. CASE CheckToolchain
    BY <1>20 DEF CheckToolchain, Verifies, GoesOn, Caught, OnlyRoot
  <1>21. CASE ConsumeAuditorCall
    BY <1>21 DEF ConsumeAuditorCall, Consumes, Counted, Caught, OnlyRoot, Markers
  <1>22. CASE AuditorCall
    BY <1>22 DEF AuditorCall, Calls, GoesOn, Caught
  <1>23. CASE ValidateAuditorExecution
    BY <1>23 DEF ValidateAuditorExecution, Judges, GoesOn, Caught, OnlyRoot
  <1>24. CASE WriteAuditorTrace
    BY <1>24 DEF WriteAuditorTrace, WritesMarker, GoesOn, Caught, OnlyRoot, Markers
  <1>25. CASE VerifyCoreAgain
    BY <1>25 DEF VerifyCoreAgain, Verifies, GoesOn, Caught, OnlyRoot, CoreIntact
  <1>26. CASE ValidateAudit
    BY <1>26 DEF ValidateAudit, Caught, OnlyRoot
  <1>27. CASE CheckToolchainAgain
    BY <1>27 DEF CheckToolchainAgain, Verifies, GoesOn, Caught, OnlyRoot
  <1>28. CASE StageAudit
    BY <1>28, StagingIsTyped, StateIsTyped DEF StageAudit, Stages, GoesOn, Caught,
        OnlyRoot, Directories, FrozenStates
  <1>29. CASE FreezeAudit
    BY <1>29, StateIsTyped DEF FreezeAudit, Freezes, GoesOn, Caught, OnlyRoot,
        Directories, FrozenStates
  <1>30. CASE VerifyAudit
    BY <1>30 DEF VerifyAudit, Verifies, GoesOn, Caught, OnlyRoot
  <1>31. CASE VerifyCoreLast
    BY <1>31 DEF VerifyCoreLast, Verifies, GoesOn, Caught, OnlyRoot, CoreIntact, Decided
  <1>32. CASE StageRelease
    BY <1>32, StagingIsTyped, StateIsTyped DEF StageRelease, Stages, GoesOn, Caught,
        OnlyRoot, Directories, FrozenStates
  <1>33. CASE FreezeRelease
    BY <1>33, StateIsTyped DEF FreezeRelease, Freezes, GoesOn, Caught, OnlyRoot,
        Directories, FrozenStates
  <1>34. CASE VerifyRelease
    BY <1>34 DEF VerifyRelease, Verifies, GoesOn, Caught, OnlyRoot
  <1>35. CASE RecordRejection
    BY <1>35 DEF RecordRejection, GoesOn, Caught, OnlyRoot, Recorded
  <1>36. CASE CloseRoot
    BY <1>36 DEF CloseRoot, Caught
  <1>37. CASE CatchFailure
    BY <1>37 DEF CatchFailure, Recorded, NoTerminal
  <1>38. CASE FreezeKilled
    BY <1>38 DEF FreezeKilled
  <1>39. CASE Tamper
    BY <1>39, IntactIsTyped DEF Tamper
  <1> QED BY <1>1, <1>2, <1>3, <1>4, <1>5, <1>6, <1>7, <1>8, <1>9, <1>10, <1>11, <1>12,
      <1>13, <1>14, <1>15, <1>16, <1>17, <1>18, <1>19, <1>20, <1>21, <1>22, <1>23,
      <1>24, <1>25, <1>26, <1>27, <1>28, <1>29, <1>30, <1>31, <1>32, <1>33, <1>34,
      <1>35, <1>36, <1>37, <1>38, <1>39 DEF FreezeNext

-----------------------------------------------------------------------------
(* The invariant.                                                               *)

LEMMA FreezeInitHolds ==
  ASSUME FreezeInit
  PROVE  FreezeInv
  <1> USE DEF FreezeInit, Absent, NoTerminal, FreshRun, Directories, Early, Rest,
      AfterAuditorTrace, AfterAuditorConsumed, AfterCoreFrozen, AfterAuthorTrace,
      AfterAuthorConsumed, AfterPreflight, AfterIntent, AfterCoreAgain, Releasing
  <1>1. FreezeTypes
    BY DEF FreezeTypes, FrozenType, FrozenStates, Markers
  <1>2. RootIsUsedOnce
    BY DEF RootIsUsedOnce
  <1>3. MarkersInOrder
    BY DEF MarkersInOrder
  <1>4. CallsInOrder
    BY DEF CallsInOrder
  <1>5. TerminalInOrder
    BY DEF TerminalInOrder
  <1>6. ReleaseInOrder
    BY DEF ReleaseInOrder
  <1>7. ReleaseIsEarned
    BY DEF ReleaseIsEarned
  <1>8. AnswerIsOnDisk
    BY DEF AnswerIsOnDisk
  <1> QED BY <1>1, <1>2, <1>3, <1>4, <1>5, <1>6, <1>7, <1>8 DEF FreezeInv

LEMMA FreezeStepHolds ==
  ASSUME FreezeInv, FreezeNext
  PROVE  FreezeInv'
  <1>t. FreezeTypes'
    BY TypesAreKept
  <1> USE FreezeAssumption DEF FreezeInv, FreezeTypes, RootIsUsedOnce, MarkersInOrder,
      CallsInOrder, TerminalInOrder, ReleaseInOrder, ReleaseIsEarned, AnswerIsOnDisk,
      FrozenType, FrozenStates, Absent, NoTerminal, Directories, Markers, Early, Rest,
      AfterAuditorTrace, AfterAuditorConsumed, AfterCoreFrozen, AfterAuthorTrace,
      AfterAuthorConsumed, AfterPreflight, AfterIntent, AfterCoreAgain, Releasing
  <1>1. CASE StartFreeze
    BY <1>1, <1>t DEF StartFreeze, FreshRun
  <1>2. CASE ValidatePublicAnchors
    BY <1>2, <1>t DEF ValidatePublicAnchors, ChecksFirst
  <1>3. CASE ValidateProjectionFiles
    BY <1>3, <1>t DEF ValidateProjectionFiles, ChecksFirst
  <1>4. CASE ValidateCodexPreflight
    BY <1>4, <1>t DEF ValidateCodexPreflight, ChecksFirst
  <1>5. CASE VerifyRgBinary
    BY <1>5, <1>t DEF VerifyRgBinary, ChecksFirst
  <1>6. CASE CaptureToolchainIdentity
    BY <1>6, <1>t DEF CaptureToolchainIdentity
  <1>7. CASE CreatePrivateRoot
    BY <1>7, <1>t DEF CreatePrivateRoot
  <1>8. CASE WriteIntent
    BY <1>8, <1>t DEF WriteIntent, WritesMarker, GoesOn, Caught, OnlyRoot
  <1>9. CASE WritePreflight
    BY <1>9, <1>t DEF WritePreflight, WritesMarker, GoesOn, Caught, OnlyRoot
  <1>10. CASE ConsumeAuthorCall
    BY <1>10, <1>t DEF ConsumeAuthorCall, Consumes, Counted, Caught, OnlyRoot
  <1>11. CASE AuthorCall
    BY <1>11, <1>t DEF AuthorCall, Calls, GoesOn, Caught
  <1>12. CASE ValidateAuthorExecution
    BY <1>12, <1>t DEF ValidateAuthorExecution, Judges, GoesOn, Caught, OnlyRoot
  <1>13. CASE WriteAuthorTrace
    BY <1>13, <1>t DEF WriteAuthorTrace, WritesMarker, GoesOn, Caught, OnlyRoot
  <1>14. CASE ParseProviderPayload
    BY <1>14, <1>t DEF ParseProviderPayload, Judges, GoesOn, Caught, OnlyRoot
  <1>15. CASE ValidateEvaluationContract
    BY <1>15, <1>t DEF ValidateEvaluationContract, Judges, GoesOn, Caught, OnlyRoot
  <1>16. CASE StageCore
    BY <1>16, <1>t DEF StageCore, Stages, GoesOn, Caught, OnlyRoot
  <1>17. CASE FreezeCore
    BY <1>17, <1>t DEF FreezeCore, Freezes, GoesOn, Caught, OnlyRoot
  <1>18. CASE VerifyCore
    BY <1>18, <1>t DEF VerifyCore, Verifies, GoesOn, Caught, OnlyRoot, CoreIntact
  <1>19. CASE WriteCoreFrozen
    BY <1>19, <1>t DEF WriteCoreFrozen, WritesMarker, GoesOn, Caught, OnlyRoot
  <1>20. CASE CheckToolchain
    BY <1>20, <1>t DEF CheckToolchain, Verifies, GoesOn, Caught, OnlyRoot
  <1>21. CASE ConsumeAuditorCall
    BY <1>21, <1>t DEF ConsumeAuditorCall, Consumes, Counted, Caught, OnlyRoot
  <1>22. CASE AuditorCall
    BY <1>22, <1>t DEF AuditorCall, Calls, GoesOn, Caught
  <1>23. CASE ValidateAuditorExecution
    BY <1>23, <1>t DEF ValidateAuditorExecution, Judges, GoesOn, Caught, OnlyRoot
  <1>24. CASE WriteAuditorTrace
    BY <1>24, <1>t DEF WriteAuditorTrace, WritesMarker, GoesOn, Caught, OnlyRoot
  <1>25. CASE VerifyCoreAgain
    BY <1>25, <1>t DEF VerifyCoreAgain, Verifies, GoesOn, Caught, OnlyRoot, CoreIntact
  <1>26. CASE ValidateAudit
    BY <1>26, <1>t DEF ValidateAudit, Caught, OnlyRoot
  <1>27. CASE CheckToolchainAgain
    BY <1>27, <1>t DEF CheckToolchainAgain, Verifies, GoesOn, Caught, OnlyRoot
  <1>28. CASE StageAudit
    BY <1>28, <1>t DEF StageAudit, Stages, GoesOn, Caught, OnlyRoot
  <1>29. CASE FreezeAudit
    BY <1>29, <1>t DEF FreezeAudit, Freezes, GoesOn, Caught, OnlyRoot
  <1>30. CASE VerifyAudit
    BY <1>30, <1>t DEF VerifyAudit, Verifies, GoesOn, Caught, OnlyRoot
  <1>31. CASE VerifyCoreLast
    BY <1>31, <1>t DEF VerifyCoreLast, Verifies, GoesOn, Caught, OnlyRoot, CoreIntact,
        Decided
  <1>32. CASE StageRelease
    BY <1>32, <1>t DEF StageRelease, Stages, GoesOn, Caught, OnlyRoot
  <1>33. CASE FreezeRelease
    BY <1>33, <1>t DEF FreezeRelease, Freezes, GoesOn, Caught, OnlyRoot
  <1>34. CASE VerifyRelease
    BY <1>34, <1>t DEF VerifyRelease, Verifies, GoesOn, Caught, OnlyRoot
  <1>35. CASE RecordRejection
    BY <1>35, <1>t DEF RecordRejection, GoesOn, Caught, OnlyRoot, Recorded
  <1>36. CASE CloseRoot
    BY <1>36, <1>t DEF CloseRoot, Caught
  <1>37. CASE CatchFailure
    BY <1>37, <1>t DEF CatchFailure, Recorded, NoTerminal
  <1>38. CASE FreezeKilled
    BY <1>38, <1>t DEF FreezeKilled
  <1>39. CASE Tamper
    BY <1>39, <1>t DEF Tamper
  <1> QED BY <1>1, <1>2, <1>3, <1>4, <1>5, <1>6, <1>7, <1>8, <1>9, <1>10, <1>11, <1>12,
      <1>13, <1>14, <1>15, <1>16, <1>17, <1>18, <1>19, <1>20, <1>21, <1>22, <1>23,
      <1>24, <1>25, <1>26, <1>27, <1>28, <1>29, <1>30, <1>31, <1>32, <1>33, <1>34,
      <1>35, <1>36, <1>37, <1>38, <1>39 DEF FreezeNext

LEMMA FreezeInvHolds == FreezeSpec => []FreezeInv
  <1>1. FreezeInit => FreezeInv
    BY FreezeInitHolds
  <1>2. FreezeInv /\ [FreezeNext]_freezeVars => FreezeInv'
    <2> SUFFICES ASSUME FreezeInv, [FreezeNext]_freezeVars
                 PROVE  FreezeInv'
      OBVIOUS
    <2>1. CASE FreezeNext
      BY <2>1, FreezeStepHolds
    <2>2. CASE UNCHANGED freezeVars
      BY <2>2 DEF freezeVars, FreezeInv, FreezeTypes, RootIsUsedOnce, MarkersInOrder,
                  CallsInOrder, TerminalInOrder, ReleaseInOrder, ReleaseIsEarned,
                  AnswerIsOnDisk
    <2> QED BY <2>1, <2>2
  <1> QED BY <1>1, <1>2, PTL DEF FreezeSpec

-----------------------------------------------------------------------------
(* The theorems.                                                                *)

\* A release exists only for a core that the auditor accepted and that was on disk, as
\* the author's, after the auditor had answered; the run made exactly two calls.
THEOREM ReleasesAreEarned == FreezeSpec => []ReleaseIsEarned
  <1>1. FreezeInv => ReleaseIsEarned
    BY DEF FreezeInv
  <1> QED BY <1>1, FreezeInvHolds, PTL

\* What was printed agrees with what is on disk.
THEOREM AnswersAreOnDisk == FreezeSpec => []AnswerIsOnDisk
  <1>1. FreezeInv => AnswerIsOnDisk
    BY DEF FreezeInv
  <1> QED BY <1>1, FreezeInvHolds, PTL

\* No call without its marker, never more than two, none that a terminal record misses.
THEOREM EveryCallIsAccounted == FreezeSpec => []CallsAreAccounted
  <1>1. FreezeInv => CallsAreAccounted
    BY DEF FreezeInv, CallsInOrder, MarkersInOrder, TerminalInOrder, CallsAreAccounted
  <1> QED BY <1>1, FreezeInvHolds, PTL

-----------------------------------------------------------------------------
(* The contract (EvaluationContract) for any number of horizons, items of any length and any reference
   that an author may write.

   The argument.  A part that was admitted stays as it was when it was judged, so at the
   end every validator holds of the whole.  What is then left is to count: the cells are
   as many as the pairs of a horizon and an arm and name each of them, so none is named
   twice.                                                                              *)

AfterOracle == {"rubric", "budgets", "admitted"}
AfterEarliest == {"oracle"} \cup AfterOracle
AfterCells == {"earliest"} \cup AfterEarliest
AfterRules == {"cells"} \cup AfterCells

CellsAreFull(cells, rules) ==
  /\ cells \in [1..(2 * LastHorizon) -> Cells]
  /\ CellsAdmitted(cells, rules)

ContractInv ==
  /\ DOMAIN authored = {"rules", "cells", "earliest", "judgments"}
  /\ verdict \in AfterRules =>
       authored.rules \in [EvaluationHorizons -> Rules] /\ RulesAdmitted(authored.rules)
  /\ verdict \in AfterCells => CellsAreFull(authored.cells, authored.rules)
  /\ verdict \in AfterEarliest =>
       authored.earliest \in EvaluationHorizons
         /\ EarliestAdmitted(authored.earliest, authored.rules)
  /\ verdict \in AfterOracle =>
       authored.judgments \in [EvaluationHorizons -> Evidence]
         /\ JudgmentsAdmitted(authored.judgments, authored.rules)

-----------------------------------------------------------------------------
\* What a part becomes, and that the others stay.
LEMMA AdmittingOnePart ==
  ASSUME DOMAIN authored = {"rules", "cells", "earliest", "judgments"},
         NEW part \in DOMAIN authored, NEW ok, NEW value, NEW to,
         Admits(ok, part, value, to)
  PROVE  /\ DOMAIN authored' = DOMAIN authored
         /\ \A other \in DOMAIN authored \ {part} : authored'[other] = authored[other]
         /\ verdict' = "refused" \/ (ok /\ verdict' = to /\ authored'[part] = value)
  BY DEF Admits

LEMMA ContractStep ==
  ASSUME ContractInv, ContractNext
  PROVE  ContractInv'
  <1>d. DOMAIN authored = {"rules", "cells", "earliest", "judgments"}
    BY DEF ContractInv
  <1>a. CASE ValidateHorizonRules
    <2>1. PICK rules \in [EvaluationHorizons -> Rules] :
            Admits(RulesAdmitted(rules), "rules", rules, "cells")
      BY <1>a DEF ValidateHorizonRules
    <2>2. /\ DOMAIN authored' = DOMAIN authored
          /\ verdict' = "refused"
               \/ (RulesAdmitted(rules) /\ verdict' = "cells" /\ authored'["rules"] = rules)
      BY <2>1, <1>d, AdmittingOnePart
    <2> QED BY <2>2, <1>d DEF ContractInv, AfterRules, AfterCells, AfterEarliest, AfterOracle
  <1>b. CASE ValidateCells
    <2>1. PICK n \in (2 * LastHorizon - 1)..(2 * LastHorizon) : \E cells \in [1..n -> Cells] :
            Admits(CellsAdmitted(cells, authored.rules), "cells", cells, "earliest")
      BY <1>b DEF ValidateCells
    <2>2. PICK cells \in [1..n -> Cells] :
            Admits(CellsAdmitted(cells, authored.rules), "cells", cells, "earliest")
      BY <2>1
    <2>3. /\ DOMAIN authored' = DOMAIN authored
          /\ authored'["rules"] = authored["rules"]
          /\ verdict' = "refused"
               \/ (/\ CellsAdmitted(cells, authored.rules) /\ verdict' = "earliest"
                   /\ authored'["cells"] = cells)
      BY <2>2, <1>d, AdmittingOnePart
    <2>4. n \in Nat
      BY ContractAssumption
    <2>5. CellsAdmitted(cells, authored.rules) => n = 2 * LastHorizon
      <3>1. cells \in Seq(Cells) /\ Len(cells) = n
        BY <2>4
      <3> QED BY <3>1 DEF CellsAdmitted
    <2>6. verdict' # "refused" => CellsAreFull(authored'.cells, authored'.rules)
      BY <2>3, <2>5 DEF CellsAreFull
    <2> QED BY <1>b, <2>3, <2>6, <1>d
            DEF ValidateCells, ContractInv, AfterRules, AfterCells, AfterEarliest, AfterOracle,
                CellsAreFull
  <1>c. CASE ValidateEarliest
    <2>1. PICK earliest \in EvaluationHorizons :
            Admits(EarliestAdmitted(earliest, authored.rules), "earliest", earliest, "oracle")
      BY <1>c DEF ValidateEarliest
    <2>2. /\ DOMAIN authored' = DOMAIN authored
          /\ authored'["rules"] = authored["rules"] /\ authored'["cells"] = authored["cells"]
          /\ verdict' = "refused"
               \/ (/\ EarliestAdmitted(earliest, authored.rules) /\ verdict' = "oracle"
                   /\ authored'["earliest"] = earliest)
      BY <2>1, <1>d, AdmittingOnePart
    <2> QED BY <1>c, <2>2, <1>d
            DEF ValidateEarliest, ContractInv, AfterRules, AfterCells, AfterEarliest,
                AfterOracle, CellsAreFull
  <1>e. CASE ValidateOracle
    <2>1. PICK judgments \in [EvaluationHorizons -> Evidence] :
            Admits(JudgmentsAdmitted(judgments, authored.rules), "judgments", judgments, "rubric")
      BY <1>e DEF ValidateOracle
    <2>2. /\ DOMAIN authored' = DOMAIN authored
          /\ authored'["rules"] = authored["rules"] /\ authored'["cells"] = authored["cells"]
          /\ authored'["earliest"] = authored["earliest"]
          /\ verdict' = "refused"
               \/ (/\ JudgmentsAdmitted(judgments, authored.rules) /\ verdict' = "rubric"
                   /\ authored'["judgments"] = judgments)
      BY <2>1, <1>d, AdmittingOnePart
    <2> QED BY <1>e, <2>2, <1>d
            DEF ValidateOracle, ContractInv, AfterRules, AfterCells, AfterEarliest,
                AfterOracle, CellsAreFull
  <1>f. CASE ValidateRubricAndRoles \/ ValidateBudgetsAndDecision
    BY <1>f DEF ValidateRubricAndRoles, ValidateBudgetsAndDecision, ContractInv, AfterRules,
                AfterCells, AfterEarliest, AfterOracle, CellsAreFull
  <1> QED BY <1>a, <1>b, <1>c, <1>e, <1>f DEF ContractNext

-----------------------------------------------------------------------------
\* As many cells as pairs, and every pair has one: every pair has exactly one.
LEMMA OneCellEach ==
  ASSUME NEW cells, NEW rules, CellsAreFull(cells, rules),
         NEW h \in EvaluationHorizons, NEW arm \in Arms
  PROVE  Cardinality({i \in DOMAIN cells : cells[i].horizon = h /\ cells[i].arm = arm}) = 1
  <1> DEFINE I == 1..(2 * LastHorizon)
             Pairs == EvaluationHorizons \X Arms
             cellOf == [i \in I |-> <<cells[i].horizon, cells[i].arm>>]
             Here == {i \in DOMAIN cells : cells[i].horizon = h /\ cells[i].arm = arm}
  <1>1. DOMAIN cells = I /\ \A i \in I : cells[i] \in Cells
    BY DEF CellsAreFull
  <1>2. \A i \in I : cells[i].horizon \in EvaluationHorizons /\ cells[i].arm \in Arms
    BY <1>1 DEF Cells
  <1>3. IsFiniteSet(I) /\ Cardinality(I) = 2 * LastHorizon
    <2>1. 1 \in Int /\ 2 * LastHorizon \in Int /\ ~(1 > 2 * LastHorizon)
      BY ContractAssumption
    <2> QED BY <2>1, FS_Interval
  <1>4. IsFiniteSet(Pairs) /\ Cardinality(Pairs) = 2 * LastHorizon
    <2>1. IsFiniteSet(EvaluationHorizons) /\ Cardinality(EvaluationHorizons) = LastHorizon
      BY ContractAssumption, FS_Interval DEF EvaluationHorizons
    <2>2. IsFiniteSet(Arms) /\ Cardinality(Arms) = 2
      <3>1. IsFiniteSet({"graphtruth"}) /\ Cardinality({"graphtruth"}) = 1
        BY FS_Singleton
      <3>2. Arms = {"graphtruth"} \cup {"rg-baseline"}
        BY DEF Arms
      <3> QED BY <3>1, <3>2, FS_AddElement
    <2>3. Cardinality(Pairs) = Cardinality(EvaluationHorizons) * Cardinality(Arms)
      BY <2>1, <2>2, FS_Product
    <2> QED BY <2>1, <2>2, <2>3, FS_Product, ContractAssumption
  <1>5. {cellOf[i] : i \in I} = Pairs
    BY <1>1 DEF CellsAreFull, CellsAdmitted
  <1>6. cellOf \in Surjection(I, Pairs)
    BY <1>2, <1>5 DEF Surjection
  <1>7. \A i, j \in I : cellOf[i] = cellOf[j] => i = j
    <2>1. cellOf \in Injection(I, Pairs)
      BY <1>3, <1>4, <1>6, FS_SurjSameCardinalityImpliesInj
    <2> HIDE DEF cellOf, I, Pairs
    <2> QED BY <2>1 DEF Injection, IsInjective
  <1>8. PICK i \in I : cellOf[i] = <<h, arm>>
    BY <1>5
  <1>9. Here = {i}
    BY <1>1, <1>7, <1>8
  <1> QED BY <1>9, FS_Singleton

LEMMA AdmittedIsFair ==
  ASSUME ContractInv
  PROVE  FairContract
  <1> SUFFICES ASSUME verdict = "admitted", NEW h \in EvaluationHorizons
               PROVE  /\ \A arm \in Arms :
                           Cardinality({i \in DOMAIN authored.cells :
                             authored.cells[i].horizon = h /\ authored.cells[i].arm = arm}) = 1
                      /\ \A i, j \in DOMAIN authored.cells :
                           (authored.cells[i].horizon = h /\ authored.cells[j].horizon = h) =>
                             authored.cells[i].disposition = authored.cells[j].disposition
                      /\ \A i \in DOMAIN authored.cells :
                           /\ authored.cells[i].horizon = h
                           /\ authored.cells[i].disposition \in Requiring
                           => /\ authored.earliest <= h
                              /\ \E r \in authored.rules[h].evidence : ~r.counter /\ r.item <= h
                              /\ \E r \in authored.judgments[h] : ~r.counter /\ r.item <= h
                      /\ \A r \in authored.rules[h].evidence \cup authored.judgments[h] :
                           r.item <= h
    BY DEF FairContract
  <1> USE DEF AfterRules, AfterCells, AfterEarliest, AfterOracle
  <1>1. /\ RulesAdmitted(authored.rules)
        /\ CellsAreFull(authored.cells, authored.rules)
        /\ authored.earliest \in EvaluationHorizons
        /\ EarliestAdmitted(authored.earliest, authored.rules)
        /\ JudgmentsAdmitted(authored.judgments, authored.rules)
    BY DEF ContractInv
  <1>2. \A arm \in Arms :
          Cardinality({i \in DOMAIN authored.cells :
            authored.cells[i].horizon = h /\ authored.cells[i].arm = arm}) = 1
    BY <1>1, OneCellEach
  <1>3. \A i \in DOMAIN authored.cells : authored.cells[i].horizon = h =>
          authored.cells[i].disposition = authored.rules[h].disposition
    BY <1>1 DEF CellsAreFull, CellsAdmitted
  <1>4. \A r \in authored.rules[h].evidence \cup authored.judgments[h] : r.item <= h
    BY <1>1 DEF RulesAdmitted, JudgmentsAdmitted, EvidenceAdmitted, AllowedItemsAt,
                EvaluationHorizons
  <1>5. authored.rules[h].disposition \in Requiring =>
          /\ \E r \in authored.rules[h].evidence : ~r.counter
          /\ \E r \in authored.judgments[h] : ~r.counter
    BY <1>1 DEF RulesAdmitted, JudgmentsAdmitted, EvidenceAdmitted
  <1>6. authored.rules[h].disposition \in Requiring => authored.earliest <= h
    BY <1>1, ContractAssumption DEF EarliestAdmitted, EvaluationHorizons
  <1> QED BY <1>2, <1>3, <1>4, <1>5, <1>6

\* An admitted contract asks both arms the same, once at each horizon, and nothing that
\* was not revealed by then; whatever the author wrote.
THEOREM AdmittedContractsAreFair == ContractSpec => []FairContract
  <1>1. ContractInit => ContractInv
    BY DEF ContractInit, ContractInv, AfterRules, AfterCells, AfterEarliest, AfterOracle
  <1>2. ContractInv /\ [ContractNext]_contractVars => ContractInv'
    <2>1. CASE ContractNext
      BY <2>1, ContractStep
    <2>2. CASE UNCHANGED contractVars
      BY <2>2 DEF contractVars, ContractInv, CellsAreFull
    <2> QED BY <2>1, <2>2
  <1>3. ContractInv => FairContract
    BY AdmittedIsFair
  <1> QED BY <1>1, <1>2, <1>3, PTL DEF ContractSpec

=============================================================================
