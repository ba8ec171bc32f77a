------------------------------ MODULE PackLock ------------------------------
(* The lock of a private pack (tooling/private-pack-lock.mjs): createPackLock scans
   the directory, reads every file and scans again before it writes the digests of
   what it read; verifyPackLock does the same and compares.  The pack has an owner
   who may edit, add and remove files at any moment.

   A file has a content and a mark, the metadata the tool compares (samePackEntryStat
   with its ctime): every change gives a new mark, whether or not the content is new.
   Digests are contents.  assertUnchangedScan compares marks when all three passes are
   over; the model refuses at the first that differs, which nobody can tell apart.      *)
EXTENDS Naturals, FiniteSets, Sequences

CONSTANTS
  PackFiles,   \* the files a pack may hold, besides the role map and the lock
  Contents,    \* what a file may contain
  MaxChanges,  \* bound of the model: marks given by changes of the pack
  MaxCalls     \* bound of the model: calls of the tool

ASSUME PackAssumption ==
  /\ "roles" \notin PackFiles /\ "lock" \notin PackFiles
  /\ MaxChanges \in Nat /\ MaxCalls \in Nat

VARIABLES
  pack,        \* [name -> [content, mark]] of the files that are there
  dirMark,     \* the mark of the directory: names come and go
  clock,       \* the last mark given
  tool,        \* the call in progress
  packAnswer,  \* what the last call said: "ok", "rejected", or "none" so far
  toolCalls,
  fitted       \* history: since the call began the pack was once as its lock says

packVars == <<pack, dirMark, clock, tool, packAnswer, toolCalls, fitted>>

NoFiles == [n \in {} |-> 0]
Resting == [at |-> "idle", create |-> FALSE, todo |-> {}, dir |-> 0, marks |-> NoFiles,
            read |-> NoFiles]

With(f, n, value) == [m \in DOMAIN f \cup {n} |-> IF m = n THEN value ELSE f[m]]

\* What a lock describes: contents, the lock aside.
Inventory(contents) == [n \in DOMAIN contents \ {"lock"} |-> contents[n]]
PartialLock == [n \in {"partial"} |-> 0]

\* assertRoleInventory: the role map names exactly the files that are there.
RolesFit(contents) ==
  /\ "roles" \in DOMAIN contents
  /\ contents["roles"] = DOMAIN contents \ {"roles", "lock"}

\* parseLock, then assertArtifactsMatch.
LockFits(contents) ==
  /\ "lock" \in DOMAIN contents
  /\ contents["lock"] = Inventory(contents)

ContentsOf(files) == [n \in DOMAIN files |-> files[n].content]
Fits(files) == RolesFit(ContentsOf(files)) /\ LockFits(ContentsOf(files))

\* The owner made the pack; it has no lock, one that describes it, or the part of one
\* that a killed creation left.
PackInit ==
  /\ \E there \in SUBSET PackFiles \ {{}}, c \in Contents, lock \in {"none", "whole", "partial"} :
       LET data == [n \in there \cup {"roles"} |-> IF n = "roles" THEN there ELSE c]
           all == CASE lock = "none" -> data
                    [] lock = "whole" -> With(data, "lock", data)
                    [] lock = "partial" -> With(data, "lock", PartialLock) IN
       pack = [n \in DOMAIN all |-> [content |-> all[n], mark |-> 0]]
  /\ dirMark = 0 /\ clock = 0
  /\ tool = Resting /\ packAnswer = "none" /\ toolCalls = 0
  /\ fitted = FALSE

-----------------------------------------------------------------------------
(* The owner.                                                                   *)

PackBecomes(files, dir) ==
  /\ pack' = files /\ dirMark' = dir
  /\ clock' = clock + 1
  /\ fitted' = (fitted \/ Fits(files))

Written(n, content) == With(pack, n, [content |-> content, mark |-> clock + 1])

OwnerEdits ==
  /\ clock < MaxChanges
  /\ \/ \E n \in PackFiles, c \in Contents :
          PackBecomes(Written(n, c), IF n \in DOMAIN pack THEN dirMark ELSE clock + 1)
     \/ \E n \in (PackFiles \cup {"lock"}) \cap DOMAIN pack :
          PackBecomes([m \in DOMAIN pack \ {n} |-> pack[m]], clock + 1)
     \/ PackBecomes(Written("roles", PackFiles \cap DOMAIN pack), dirMark)
  /\ UNCHANGED <<tool, packAnswer, toolCalls>>

-----------------------------------------------------------------------------
(* One call of the tool.                                                         *)

Answers(what) == packAnswer' = what /\ tool' = Resting
Continues(state) == tool' = state /\ UNCHANGED packAnswer
OnlyTool == UNCHANGED <<pack, dirMark, clock, toolCalls, fitted>>

\* createPackLock refuses a lock that is there, whatever is in it.
CallBegins ==
  /\ tool.at = "idle" /\ toolCalls < MaxCalls
  /\ toolCalls' = toolCalls + 1
  /\ fitted' = Fits(pack)
  /\ \E create \in BOOLEAN :
       IF create /\ "lock" \in DOMAIN pack THEN Answers("rejected")
       ELSE tool' = [Resting EXCEPT !.at = "scan", !.create = create] /\ packAnswer' = "none"
  /\ UNCHANGED <<pack, dirMark, clock>>

\* scanPack: the directory's mark and names, then the marks of its files one by one,
\* then the directory's mark again.
ScanDirectory ==
  /\ tool.at = "scan"
  /\ Continues([tool EXCEPT !.at = "marks", !.dir = dirMark, !.todo = DOMAIN pack])
  /\ OnlyTool

Next1(names) == CHOOSE n \in names : TRUE

ScanFile ==
  /\ tool.at = "marks" /\ tool.todo # {}
  /\ LET n == Next1(tool.todo) IN
     IF n \in DOMAIN pack
       THEN Continues([tool EXCEPT !.todo = @ \ {n}, !.marks = With(@, n, pack[n].mark)])
       ELSE Answers("rejected")
  /\ OnlyTool

ScanEnds ==
  /\ tool.at = "marks" /\ tool.todo = {}
  /\ IF dirMark = tool.dir
       THEN Continues([tool EXCEPT !.at = "read", !.todo = DOMAIN tool.marks])
       ELSE Answers("rejected")
  /\ OnlyTool

\* A mistake: a file is the same when its name is still there.
SameName(n) == n \in DOMAIN pack

\* sameFingerprint: the file is the one that was scanned.
SameMark(n) == n \in DOMAIN pack /\ pack[n].mark = tool.marks[n]

\* readStableFile: a file that changes while it is read is refused, so a read is one
\* step.
ReadFile ==
  /\ tool.at = "read" /\ tool.todo # {}
  /\ LET n == Next1(tool.todo) IN
     IF SameMark(n)
       THEN Continues([tool EXCEPT !.todo = @ \ {n}, !.read = With(@, n, pack[n].content)])
       ELSE Answers("rejected")
  /\ OnlyTool

\* What was read has to make sense before it is scanned again.
JudgeSnapshot ==
  /\ tool.at = "read" /\ tool.todo = {}
  /\ IF RolesFit(tool.read) /\ (tool.create \/ LockFits(tool.read))
       THEN Continues([tool EXCEPT !.at = "rescan", !.todo = DOMAIN tool.marks])
       ELSE Answers("rejected")
  /\ OnlyTool

\* The second scan, file by file: names and marks have to be those of the first.
RescanFile ==
  /\ tool.at = "rescan" /\ tool.todo # {}
  /\ LET n == Next1(tool.todo) IN
     IF SameMark(n) THEN Continues([tool EXCEPT !.todo = @ \ {n}])
     ELSE Answers("rejected")
  /\ OnlyTool

RescanEnds ==
  /\ tool.at = "rescan" /\ tool.todo = {}
  /\ IF dirMark # tool.dir THEN Answers("rejected")
     ELSE IF tool.create THEN Continues([tool EXCEPT !.at = "write", !.marks = NoFiles])
     ELSE Answers("ok")
  /\ OnlyTool

\* The lock is created exclusively, empty, and then written: a kill between the two or
\* during the second leaves a part of it.
CreateLockFile ==
  /\ tool.at = "write"
  /\ IF "lock" \in DOMAIN pack
       THEN Answers("rejected") /\ UNCHANGED <<pack, dirMark, clock, fitted>>
       ELSE /\ PackBecomes(Written("lock", PartialLock), clock + 1)
            /\ Continues([tool EXCEPT !.at = "fill"])
  /\ UNCHANGED toolCalls

\* What was locked is then verified, from the beginning; a file that was removed
\* meanwhile is written to in vain.
WriteLock ==
  /\ tool.at = "fill"
  /\ LET files == IF "lock" \in DOMAIN pack
                    THEN [pack EXCEPT !["lock"].content = Inventory(tool.read)]
                    ELSE pack IN
     pack' = files /\ fitted' = Fits(files)
  /\ Continues([Resting EXCEPT !.at = "scan"])
  /\ UNCHANGED <<dirMark, clock, toolCalls>>

ToolKilled ==
  /\ tool.at # "idle"
  /\ Answers("rejected")
  /\ OnlyTool

ToolStep ==
  \/ CallBegins
  \/ ScanDirectory
  \/ ScanFile
  \/ ScanEnds
  \/ ReadFile
  \/ JudgeSnapshot
  \/ RescanFile
  \/ RescanEnds
  \/ CreateLockFile
  \/ WriteLock
  \/ ToolKilled

PackNext == OwnerEdits \/ ToolStep

PackSpec == PackInit /\ [][PackNext]_packVars

-----------------------------------------------------------------------------
(* Properties.                                                                  *)

\* A call that says ok says it of one state of the pack: at some moment since it began
\* (for a creation, since the lock was written) the files were, all at once, what the
\* lock in that very state describes, and the role map named exactly them.  No mixture
\* of two states, and no part of a lock, is ever accepted.
LockDescribesOneState == packAnswer = "ok" => fitted

=============================================================================
