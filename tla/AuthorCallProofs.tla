-------------------------- MODULE AuthorCallProofs --------------------------
(* AuthorCall for any number of starts of the controller, and whatever becomes of the
   process it calls.

   The argument.  Who is beyond the creation of the root has a root, and who is about to
   make the call has written the marker and nobody has called yet, since the marker is
   created exclusively and never removed (SlotInv).  The first thing that goes wrong with
   the process is latched, and an answer is settled once; so without a failure the child
   read its input, ended with zero and was left alone (ProcessInv).  A carrier that was
   changed stays changed until the report, which looks at it last (CarrierInv), and what
   the report says follows from what each stage concluded (ReportInv, AnswerInv).       *)
EXTENDS AuthorCall, TLAPS

\* The controller made the diagnostic root in this start.
RootIsMine == pc \in {"workspace", "precheck", "setup", "commit", "call"}

SlotInv ==
  /\ DOMAIN root = {"made", "marker", "workspace"}
  /\ calls \in Nat
  /\ runner = "qualified" =>
       /\ RootIsMine => root.made
       /\ pc = "call" => root.marker /\ calls = 0
       /\ calls =< 1
       /\ calls = 1 => root.made /\ root.marker

-----------------------------------------------------------------------------
LEMMA SlotInit ==
  ASSUME Init
  PROVE  SlotInv
  BY DEF Init, ProcessInit, SlotInv, RootIsMine

\* The waiting for the process leaves the controller alone.
LEMMA ProcessKeepsRunner ==
  ASSUME RunnerStep \/ ChildStep
  PROVE  UNCHANGED runner
  BY DEF RunnerStep, TimeoutFires, EscalationFires, WatchdogFires, GroupIsGone, SignalGroup,
         KillGroup, GiveUp, ChildStep, StdinFlushed, StdinFails, Latch, OutputOverLimit,
         CloseArrives, ErrorArrives, Finish, ChildEnds, MembersEnd

LEMMA SlotStep ==
  ASSUME SlotInv, Next
  PROVE  SlotInv'
  <1>r. DOMAIN root = {"made", "marker", "workspace"}
    BY DEF SlotInv
  <1>a. CASE Begin
    BY <1>a DEF Begin, processVars, SlotInv, RootIsMine
  <1>b. CASE VerifyToolingManifest \/ IdentityPreflight
    BY <1>b DEF VerifyToolingManifest, IdentityPreflight, processVars, SlotInv, RootIsMine
  <1>c. CASE CreateDiagnosticRoot
    <2>1. /\ DOMAIN root' = DOMAIN root /\ root'.marker = root.marker
          /\ root.made => root'.made
          /\ pc' = "workspace" => root'.made
          /\ pc' \in {"workspace", "finalize"}
          /\ UNCHANGED <<runner, calls>>
      BY <1>c, <1>r DEF CreateDiagnosticRoot, processVars
    <2> QED BY <2>1 DEF SlotInv, RootIsMine
  <1>d. CASE CreateModelWorkspace \/ RemoveModelWorkspace
    <2>1. /\ DOMAIN root' = DOMAIN root /\ root'.marker = root.marker /\ root'.made = root.made
          /\ pc' \in {"precheck", "finalize"}
          /\ pc' = "precheck" => pc = "workspace"
          /\ UNCHANGED <<runner, calls>>
      BY <1>d, <1>r
      DEF CreateModelWorkspace, RemoveModelWorkspace, processVars
    <2> QED BY <2>1 DEF SlotInv, RootIsMine
  <1>e. CASE ValidateAuthCarrier \/ SetUpEphemeralState
    BY <1>e DEF ValidateAuthCarrier, SetUpEphemeralState, processVars, SlotInv, RootIsMine
  <1>f. CASE CommitCallSlot
    <2>1. /\ DOMAIN root' = DOMAIN root /\ root'.made = root.made
          /\ root.marker => root'.marker
          /\ pc' = "call" => root'.marker /\ ~root.marker
          /\ pc = "commit" /\ pc' \in {"call", "cleanup"}
          /\ UNCHANGED <<runner, calls>>
      BY <1>f, <1>r DEF CommitCallSlot, processVars
    <2> QED BY <2>1 DEF SlotInv, RootIsMine
  <1>g. CASE StartCall \/ PlainCall
    <2>1. /\ UNCHANGED <<runner, root>>
          /\ calls' = calls + 1 /\ pc' = "calling"
          /\ pc = "call" \/ runner = "plain"
      BY <1>g DEF StartCall, PlainCall, SpawnThrows, SpawnStarts
    <2> QED BY <2>1 DEF SlotInv, RootIsMine
  <1>h. CASE \/ ApplyProcessObservation \/ RemoveEphemeralState \/ RecheckAuthCarrier
             \/ JudgeOutput \/ FinalizeReport \/ PlainReturn \/ CarrierChanges \/ Crash
    <2>1. /\ UNCHANGED <<runner, root, calls>>
          /\ pc' = pc \/ pc' \notin {"workspace", "precheck", "setup", "commit", "call"}
      BY <1>h DEF ApplyProcessObservation, RemoveEphemeralState, RecheckAuthCarrier,
                  JudgeOutput, FinalizeReport, PlainReturn, CarrierChanges, Crash, processVars
    <2> QED BY <2>1 DEF SlotInv, RootIsMine
  <1>i. CASE (RunnerStep \/ ChildStep) /\ UNCHANGED callVars
    BY <1>i, ProcessKeepsRunner DEF callVars, SlotInv, RootIsMine
  <1> QED BY <1>a, <1>b, <1>c, <1>d, <1>e, <1>f, <1>g, <1>h, <1>i DEF Next, ControllerStep

\* Over any crashes and restarts, one diagnostic root sees one call at most, and its slot
\* is on disk.
THEOREM OneCallForOneRoot == Spec => []OneCallPerRoot
  <1>1. Init => SlotInv
    BY SlotInit
  <1>2. SlotInv /\ [Next]_vars => SlotInv'
    <2>1. CASE Next
      BY <2>1, SlotStep
    <2>2. CASE UNCHANGED vars
      BY <2>2 DEF vars, callVars, processVars, SlotInv, RootIsMine
    <2> QED BY <2>1, <2>2
  <1>3. SlotInv => OneCallPerRoot
    BY DEF SlotInv, OneCallPerRoot
  <1> QED BY <1>1, <1>2, <1>3, PTL DEF Spec

-----------------------------------------------------------------------------
(* The process and its answer.                                                 *)

RunRecord ==
  [pc : {"none", "listening", "group", "afterTerm", "afterKill", "settled"},
   class : {"none", "stdin-write", "output-limit", "timeout", "process-spawn",
            "process-group-cleanup", "signal", "nonzero-exit", "output-utf8", "failed",
            "qualified"},
   stdinWritten : BOOLEAN, timedOut : BOOLEAN, terminating : BOOLEAN, sigterm : BOOLEAN,
   sigkill : BOOLEAN, exit : {"none", "zero", "nonzero", "signal"}, errored : BOOLEAN,
   unobserved : BOOLEAN, lingering : BOOLEAN, absent : BOOLEAN, utf8 : BOOLEAN]

ChildRecord ==
  [started : BOOLEAN, alive : BOOLEAN, members : BOOLEAN,
   exit : {"none", "zero", "nonzero", "signal"},
   overflowed : BOOLEAN, inputRead : BOOLEAN, signalled : BOOLEAN]

\* What a call that is answered with "qualified" was.
CleanCall ==
  /\ child.exit = "zero" /\ ~child.overflowed /\ ~child.signalled /\ ~GroupExists
  /\ runner = "qualified" => child.inputRead

\* Before the answer the first failure is latched, so that without one the child was
\* left alone; after it a good answer is of a good call.
ProcessInv ==
  /\ runner \in {"qualified", "plain"}
  /\ run \in RunRecord /\ child \in ChildRecord
  /\ run.pc = "none" => run = NoRun
  /\ run.exit = "zero" => ~child.alive /\ child.exit = "zero"
  /\ run.pc \notin {"none", "settled"} =>
       /\ run.class # "qualified" /\ ~run.absent
       /\ run.class = "none" =>
            /\ ~child.overflowed
            /\ child.signalled => run.lingering
            /\ run.stdinWritten => child.inputRead
  /\ run.class = "qualified" => CleanCall /\ run.pc = "settled"

LEMMA ProcessInvInit ==
  ASSUME Init
  PROVE  ProcessInv
  BY RunnersAssumption
  DEF Init, ProcessInit, ProcessInv, RunRecord, ChildRecord, NoRun, NoChild

LEMMA AnswersOfAGoodRun ==
  ASSUME NEW r \in RunRecord, r.class # "qualified"
  PROVE  /\ ResultClass(r, child.started) \in
              {"none", "stdin-write", "output-limit", "timeout", "process-spawn",
               "process-group-cleanup", "signal", "nonzero-exit", "output-utf8", "failed",
               "qualified"}
         /\ PlainClass(r) \in {"failed", "qualified"}
         /\ ResultClass(r, child.started) = "qualified" =>
              r.class = "none" /\ r.stdinWritten /\ r.exit = "zero" /\ r.absent /\ ~r.lingering
         /\ PlainClass(r) = "qualified" =>
              r.class = "none" /\ r.exit = "zero" /\ r.absent /\ ~r.lingering
  <1>1. r.class \in {"none", "stdin-write", "output-limit", "timeout", "process-spawn",
                     "process-group-cleanup", "signal", "nonzero-exit", "output-utf8",
                     "failed", "qualified"}
    BY DEF RunRecord
  <1>2. CASE ~child.started \/ r.lingering \/ ~r.absent \/ r.errored
    <2>1. ResultClass(r, child.started) \in {"process-spawn", "process-group-cleanup"}
      BY <1>2 DEF ResultClass
    <2> QED BY <2>1 DEF PlainClass
  <1>3. CASE ~(~child.started \/ r.lingering \/ ~r.absent \/ r.errored)
    <2>1. ResultClass(r, child.started) =
            IF r.class # "none" THEN r.class
            ELSE IF ~r.stdinWritten THEN "stdin-write"
            ELSE IF r.exit = "signal" THEN "signal"
            ELSE IF r.exit # "zero" THEN "nonzero-exit"
            ELSE IF ~r.utf8 THEN "output-utf8" ELSE "qualified"
      BY <1>3 DEF ResultClass
    <2> QED BY <1>1, <1>3, <2>1 DEF PlainClass
  <1> QED BY <1>2, <1>3

LEMMA SettlingIsHonest ==
  ASSUME ProcessInv, run.pc \notin {"none", "settled"}, NEW r \in RunRecord,
         r.class = run.class, r.stdinWritten = run.stdinWritten, r.exit = run.exit,
         r.lingering = run.lingering,
         r.absent => ~GroupExists,
         Settle(r), UNCHANGED <<runner, child>>
  PROVE  ProcessInv'
  <1> DEFINE class == IF runner = "qualified" THEN ResultClass(r, child.started) ELSE PlainClass(r)
  <1>1. run' = [r EXCEPT !.pc = "settled", !.class = class]
    BY DEF Settle
  <1>2. /\ class \in {"none", "stdin-write", "output-limit", "timeout", "process-spawn",
                      "process-group-cleanup", "signal", "nonzero-exit", "output-utf8",
                      "failed", "qualified"}
        /\ class = "qualified" =>
             /\ r.class = "none" /\ r.exit = "zero" /\ r.absent /\ ~r.lingering
             /\ runner = "qualified" => r.stdinWritten
    BY AnswersOfAGoodRun DEF ProcessInv
  <1> HIDE DEF class
  <1>3. run' \in RunRecord /\ run'.pc = "settled" /\ run'.class = class /\ run'.exit = r.exit
    BY <1>1, <1>2 DEF RunRecord
  <1>4. class = "qualified" => CleanCall'
    BY <1>2 DEF ProcessInv, CleanCall, GroupExists
  <1> QED BY <1>3, <1>4 DEF ProcessInv

LEMMA ProcessStarts ==
  ASSUME ProcessInv, run = NoRun, child = NoChild, SpawnThrows \/ SpawnStarts
  PROVE  ProcessInv'
  <1>1. CASE SpawnThrows
    BY <1>1 DEF SpawnThrows, ProcessInv, RunRecord, ChildRecord, NoRun, NoChild
  <1>2. CASE SpawnStarts
    BY <1>2, ZenonT(40) DEF SpawnStarts, ProcessInv, RunRecord, ChildRecord, NoRun, NoChild
  <1> QED BY <1>1, <1>2

LEMMA ProcessRuns ==
  ASSUME ProcessInv, RunnerStep \/ ChildStep
  PROVE  ProcessInv'
  <1>1. CASE TimeoutFires
    BY <1>1, ZenonT(40) DEF TimeoutFires, Listening, Latched, ProcessInv, RunRecord, ChildRecord
  <1>2. CASE EscalationFires
    BY <1>2 DEF EscalationFires, Listening, ProcessInv, RunRecord, ChildRecord
  <1>3. CASE WatchdogFires \/ CloseArrives
    <2>1. /\ run.pc = "listening" /\ run'.pc = "group" /\ run' \in RunRecord
          /\ UNCHANGED <<runner, child>>
          /\ run'.class = run.class /\ run'.absent = run.absent
          /\ run'.lingering = run.lingering /\ run'.stdinWritten = run.stdinWritten
      <3>1. CASE WatchdogFires
        BY <1>3, <3>1 DEF WatchdogFires, Finish, Listening, ProcessInv, RunRecord
      <3>2. CASE CloseArrives
        BY <1>3, <3>2, ZenonT(40) DEF CloseArrives, Finish, Listening, ProcessInv, RunRecord, ChildRecord
      <3> QED BY <1>3, <3>1, <3>2
    <2>2. run'.exit = "zero" => ~child.alive /\ child.exit = "zero"
      <3>1. CASE WatchdogFires
        BY <1>3, <3>1 DEF WatchdogFires, Finish, Listening, ProcessInv, RunRecord
      <3>2. CASE CloseArrives
        BY <1>3, <3>2 DEF CloseArrives, Finish, Listening, ProcessInv, RunRecord
      <3> QED BY <1>3, <3>1, <3>2
    <2> QED BY <2>1, <2>2 DEF ProcessInv
  <1>4. CASE GroupIsGone
    <2> DEFINE r == [run EXCEPT !.absent = TRUE]
    <2>1. /\ r \in RunRecord /\ r.class = run.class /\ r.stdinWritten = run.stdinWritten
          /\ r.exit = run.exit /\ r.lingering = run.lingering
      BY DEF ProcessInv, RunRecord
    <2>2. ~GroupExists /\ Settle(r) /\ UNCHANGED <<runner, child>> /\ run.pc \notin {"none", "settled"}
      BY <1>4 DEF GroupIsGone
    <2> HIDE DEF r
    <2> QED BY <2>1, <2>2, SettlingIsHonest
  <1>5. CASE SignalGroup \/ KillGroup
    <2>1. CASE SignalGroup
      <3>1. run.pc = "group" /\ UNCHANGED runner
            /\ run' = [run EXCEPT !.pc = "afterTerm", !.lingering = TRUE, !.sigterm = TRUE]
            /\ child' = [child EXCEPT !.signalled = TRUE]
        BY <2>1 DEF SignalGroup
      <3>2. run' \in RunRecord /\ child' \in ChildRecord
        BY <3>1 DEF ProcessInv, RunRecord, ChildRecord
      <3>3. /\ run'.pc = "afterTerm" /\ run'.lingering /\ run'.class = run.class
            /\ run'.absent = run.absent /\ run'.exit = run.exit
            /\ run'.stdinWritten = run.stdinWritten
            /\ child'.alive = child.alive /\ child'.exit = child.exit
            /\ child'.overflowed = child.overflowed /\ child'.inputRead = child.inputRead
        BY <3>1 DEF ProcessInv, RunRecord, ChildRecord
      <3> QED BY <3>1, <3>2, <3>3 DEF ProcessInv
    <2>2. CASE KillGroup
      <3>1. /\ run.pc = "afterTerm" /\ UNCHANGED <<runner, child>>
            /\ run' = [run EXCEPT !.pc = "afterKill", !.sigkill = TRUE]
        BY <2>2 DEF KillGroup
      <3> QED BY <3>1 DEF ProcessInv, RunRecord
    <2> QED BY <1>5, <2>1, <2>2
  <1>6. CASE GiveUp
    <2>1. Settle(run) /\ UNCHANGED <<runner, child>> /\ run.pc \notin {"none", "settled"}
      BY <1>6 DEF GiveUp
    <2>2. run \in RunRecord /\ ~run.absent
      BY <2>1 DEF ProcessInv
    <2> QED BY <2>1, <2>2, SettlingIsHonest
  <1>7. CASE ErrorArrives
    <2>1. CASE runner = "qualified" /\ child.started
      <3>1. /\ run.pc = "listening" /\ UNCHANGED <<runner, child>>
            /\ run' = [run EXCEPT !.pc = "group", !.errored = TRUE, !.unobserved = TRUE]
        BY <1>7, <2>1 DEF ErrorArrives, Finish, Listening, ProcessInv, RunRecord
      <3> QED BY <3>1 DEF ProcessInv, RunRecord
    <2>2. CASE ~(runner = "qualified" /\ child.started)
      <3> DEFINE r == [run EXCEPT !.errored = TRUE]
      <3>1. run.pc = "listening" /\ Settle(r) /\ UNCHANGED <<runner, child>>
        BY <1>7, <2>2 DEF ErrorArrives, Listening
      <3>2. /\ r \in RunRecord /\ r.class = run.class /\ r.stdinWritten = run.stdinWritten
            /\ r.exit = run.exit /\ r.lingering = run.lingering /\ ~r.absent
        BY <3>1 DEF ProcessInv, RunRecord
      <3> HIDE DEF r
      <3> QED BY <3>1, <3>2, SettlingIsHonest
    <2> QED BY <2>1, <2>2
  <1>8. CASE StdinFlushed
    BY <1>8 DEF StdinFlushed, Listening, ProcessInv, RunRecord, ChildRecord
  <1>9. CASE StdinFails
    <2>1. PICK called \in BOOLEAN : Latch([run EXCEPT !.stdinWritten = @ \/ called], "stdin-write")
      BY <1>9 DEF StdinFails
    <2> DEFINE r == [run EXCEPT !.stdinWritten = @ \/ called]
    <2>2. run.pc = "listening"
      BY <1>9 DEF StdinFails, Listening
    <2>3. /\ r \in RunRecord /\ r.class = run.class /\ r.pc = run.pc /\ r.exit = run.exit
          /\ r.absent = run.absent
      BY DEF ProcessInv, RunRecord
    <2> HIDE DEF r
    <2>4. /\ run' \in RunRecord /\ run'.class \notin {"none", "qualified"} /\ run'.pc = run.pc
          /\ run'.exit = run.exit /\ run'.absent = run.absent
      <3>0. child.started \in BOOLEAN /\ run.class # "qualified" /\ r.class # "qualified"
        BY <2>2, <2>3 DEF ProcessInv, ChildRecord
      <3>1. run' = Latched(r, "stdin-write")
        BY <2>1 DEF Latch, r
      <3>2. CASE r.class # "none"
        BY <2>3, <3>0, <3>1, <3>2 DEF Latched
      <3>3. CASE r.class = "none"
        BY <2>3, <3>0, <3>1, <3>3 DEF Latched, RunRecord
      <3> QED BY <3>2, <3>3
    <2>5. /\ child' \in ChildRecord /\ child'.alive = child.alive /\ child'.exit = child.exit
          /\ UNCHANGED runner
      BY <2>1 DEF Latch, ProcessInv, ChildRecord
    <2> QED BY <2>2, <2>4, <2>5 DEF ProcessInv
  <1>10. CASE OutputOverLimit
    BY <1>10 DEF OutputOverLimit, Latched, Listening, ProcessInv, RunRecord, ChildRecord
  <1>11. CASE ChildEnds \/ MembersEnd
    BY <1>11 DEF ChildEnds, MembersEnd, ProcessInv, ChildRecord, CleanCall, GroupExists
  <1> QED BY <1>1, <1>2, <1>3, <1>4, <1>5, <1>6, <1>7, <1>8, <1>9, <1>10, <1>11
          DEF RunnerStep, ChildStep

-----------------------------------------------------------------------------
(* The controller's report.                                                    *)

Fields == {"failure", "passed", "committed", "workspaceKnown", "workspaceRemoved", "before",
           "setupFailed", "touched", "events"}

CarrierChanged == Failing("auth-carrier-recheck", "auth-carrier-changed")
CleanupFailed == Failing("state-cleanup", "state-cleanup")

Early == {"idle", "tooling", "preflight", "root", "workspace", "precheck", "setup"}
During == {"commit", "call", "calling", "cleanup"}
Late == {"judge", "remove", "finalize", "done", "crashed"}

\* The report says of a stage what happened: the output was decoded of a good call, the
\* ephemeral state was removed, the workspace is gone.
ReportInv ==
  /\ pc \in {"recheck"} \cup Early \cup During \cup Late
  /\ DOMAIN memory = Fields
  /\ memory.passed \subseteq StageSet
  /\ memory.failure.class # "qualified"
  /\ memory.failure.class = "auth-carrier-changed" => memory.failure = CarrierChanged
  /\ pc \in {"recheck", "judge"} \cup Early \cup During => memory.events = 0
  /\ pc = "idle" => calls = 0
  /\ runner = "plain" => pc \in {"idle", "calling", "done"}
  /\ calls = 0 => run = NoRun /\ child = NoChild
  /\ pc # "crashed" /\ "output-utf8" \in memory.passed => run.class = "qualified"
  /\ pc \in {"recheck", "judge"} => ~stateRoot
  /\ "state-cleanup" \in memory.passed => ~stateRoot /\ pc \in Late
  /\ memory.workspaceRemoved => ~root.workspace /\ pc \in {"finalize", "done", "crashed"}

\* The carrier is compared with what it was when the state was set up, and the failure that
\* a change leaves is not replaced any more.
CarrierInv ==
  runner = "qualified" =>
    /\ carrier \in {"original", "changed"}
    /\ memory.touched =>
         /\ carrier = "changed" /\ memory.before = "original" /\ memory.events = 0
         /\ pc \in {"recheck"} \cup During \cup Late
    /\ pc \in {"recheck"} \cup During /\ ~memory.touched => memory.before = carrier
    /\ pc \in During => stateRoot
    /\ memory.touched /\ pc = "judge" => memory.failure = CarrierChanged
    /\ memory.touched /\ pc \in {"remove", "finalize"} =>
         memory.failure = CarrierChanged \/ (stateRoot /\ memory.failure = CleanupFailed)
    /\ memory.touched /\ pc = "done" =>
         answer = "auth-carrier-changed" \/ (stateRoot /\ answer = "state-cleanup")

AnswerInv ==
  pc = "done" /\ answer = "qualified" =>
    /\ run.class = "qualified"
    /\ runner = "qualified" => root.marker /\ ~root.workspace /\ ~stateRoot /\ ~memory.touched

AuthorInv == SlotInv /\ ProcessInv /\ ReportInv /\ CarrierInv /\ AnswerInv

\* What is shown of a step of the controller.
Reports == ReportInv' /\ CarrierInv' /\ AnswerInv'

LEMMA TheStages ==
  /\ \A stage \in StageSet : Position(stage) \in 1..18 /\ Stages[Position(stage)] = stage
  /\ \A i, j \in 1..18 : Stages[i] = Stages[j] => i = j
  /\ StageSet = {"preflight-identity", "synthetic-prompt-build", "workspace-setup",
                 "auth-carrier-precheck", "ephemeral-state-setup", "call-slot-commit",
                 "process-spawn", "stdin-write", "process-wait", "output-budget", "process-exit",
                 "process-group-cleanup", "output-utf8", "jsonl-trace", "model-identity",
                 "result-schema", "state-cleanup", "auth-carrier-recheck"}
  <1>1. DOMAIN Stages = 1..18
    BY DEF Stages
  <1>2. \A stage \in StageSet : \E i \in DOMAIN Stages : Stages[i] = stage
    BY DEF StageSet
  <1>3. \A stage \in StageSet : Position(stage) \in DOMAIN Stages /\ Stages[Position(stage)] = stage
    BY <1>2 DEF Position
  <1>4. \A i, j \in 1..18 : Stages[i] = Stages[j] => i = j
    BY SMTT(60) DEF Stages
  <1>5. StageSet = {"preflight-identity", "synthetic-prompt-build", "workspace-setup",
                 "auth-carrier-precheck", "ephemeral-state-setup", "call-slot-commit",
                 "process-spawn", "stdin-write", "process-wait", "output-budget", "process-exit",
                 "process-group-cleanup", "output-utf8", "jsonl-trace", "model-identity",
                 "result-schema", "state-cleanup", "auth-carrier-recheck"}
    BY <1>1, SMTT(60) DEF StageSet, Stages
  <1> QED BY <1>1, <1>3, <1>4, <1>5

\* The first failure, and the failures that replace it, change nothing else of the report.
LEMMA FirstFailure ==
  ASSUME NEW m, NEW stage, NEW class, DOMAIN m = Fields, class # "none"
  PROVE  LET n == FailingFirst(m, Failing(stage, class)) IN
         /\ DOMAIN n = Fields /\ n.failure # NoFailure
         /\ n.failure = (IF m.failure = NoFailure THEN Failing(stage, class) ELSE m.failure)
         /\ \A f \in Fields \ {"failure"} : n[f] = m[f]
  BY DEF FailingFirst, Failing, NoFailure, Fields

LEMMA FailedCleanup ==
  ASSUME NEW m, DOMAIN m = Fields
  PROVE  LET n == FailingCleanup(m) IN
         /\ DOMAIN n = Fields
         /\ n.failure = (IF m.failure.class = "auth-carrier-changed" THEN m.failure ELSE CleanupFailed)
         /\ \A f \in Fields \ {"failure"} : n[f] = m[f]
  BY DEF FailingCleanup, CleanupFailed, Fields

LEMMA PassedStages ==
  ASSUME NEW S, DOMAIN memory = Fields
  PROVE  LET n == Passing(S) IN
         /\ DOMAIN n = Fields /\ n.passed = memory.passed \cup S
         /\ \A f \in Fields \ {"passed"} : n[f] = memory[f]
  BY DEF Passing, Fields

LEMMA Failures ==
  \A stage, class : Failing(stage, class).stage = stage /\ Failing(stage, class).class = class
  BY DEF Failing

\* Before the call the carrier has not been touched, and nothing is known of the output.
LEMMA EarlyStep ==
  ASSUME AuthorInv, UNCHANGED <<runner, run, child, calls, carrier>>,
         pc \in Early \ {"idle"}, pc' \in (Early \ {"idle"}) \cup {"commit", "cleanup", "remove", "finalize"},
         pc' \in {"commit", "cleanup"} => stateRoot' /\ memory'.before = carrier,
         DOMAIN memory' = Fields, memory'.touched = memory.touched,
         memory'.events = memory.events, memory'.workspaceRemoved = memory.workspaceRemoved,
         memory'.passed \subseteq memory.passed \cup (StageSet \ {"output-utf8", "state-cleanup"}),
         memory'.failure = memory.failure
           \/ memory'.failure.class \notin {"qualified", "auth-carrier-changed"}
  PROVE  Reports
  <1>0. ReportInv /\ CarrierInv /\ AnswerInv
    BY DEF AuthorInv
  <1>1. ReportInv'
    BY <1>0 DEF ReportInv, Early, During, Late
  <1>2. CarrierInv'
    BY <1>0 DEF CarrierInv, Early, During, Late
  <1>3. AnswerInv'
    BY DEF AnswerInv, Early
  <1> QED BY <1>1, <1>2, <1>3 DEF Reports

LEMMA BeforeTheCall ==
  ASSUME AuthorInv, Begin \/ VerifyToolingManifest \/ IdentityPreflight \/ CreateDiagnosticRoot
                    \/ CreateModelWorkspace \/ ValidateAuthCarrier \/ SetUpEphemeralState
  PROVE  Reports
  <1>0. ReportInv /\ CarrierInv /\ AnswerInv /\ DOMAIN memory = Fields
    BY DEF AuthorInv, ReportInv
  <1> DEFINE Failed(stage, class) == FailingFirst(memory, Failing(stage, class))
  <1>f. ASSUME NEW stage, NEW class, class \notin {"none", "qualified", "auth-carrier-changed"}
        PROVE  LET n == Failed(stage, class) IN
               /\ DOMAIN n = Fields /\ n.touched = memory.touched /\ n.events = memory.events
               /\ n.workspaceRemoved = memory.workspaceRemoved /\ n.passed = memory.passed
               /\ n.failure = memory.failure
                    \/ n.failure.class \notin {"qualified", "auth-carrier-changed"}
    <2> DEFINE n == Failed(stage, class)
    <2>1. /\ DOMAIN n = Fields
          /\ n.failure = memory.failure \/ n.failure = Failing(stage, class)
          /\ \A f \in Fields \ {"failure"} : n[f] = memory[f]
      BY <1>0, <1>f, FirstFailure
    <2> HIDE DEF n
    <2>2. n.failure = memory.failure \/ n.failure.class \notin {"qualified", "auth-carrier-changed"}
      BY <1>f, <2>1, Failures
    <2>3. /\ n.touched = memory.touched /\ n.events = memory.events
          /\ n.workspaceRemoved = memory.workspaceRemoved /\ n.passed = memory.passed
      BY <2>1 DEF Fields
    <2> QED BY <2>1, <2>2, <2>3 DEF n
  <1>p. ASSUME NEW S, S \subseteq StageSet \ {"output-utf8", "state-cleanup"}
        PROVE  LET n == Passing(S) IN
               /\ DOMAIN n = Fields /\ n.touched = memory.touched /\ n.events = memory.events
               /\ n.workspaceRemoved = memory.workspaceRemoved /\ n.failure = memory.failure
               /\ n.passed \subseteq memory.passed \cup (StageSet \ {"output-utf8", "state-cleanup"})
    BY <1>0, <1>p, PassedStages DEF Fields
  <1> HIDE DEF Failed
  <1>1. CASE Begin
    <2>1. ReportInv'
      BY <1>0, <1>1 DEF Begin, ReportInv, FreshMemory, NoFailure, Fields, Early, During, Late,
        processVars
    <2>2. CarrierInv'
      BY <1>0, <1>1 DEF Begin, CarrierInv, FreshMemory, Early, During, Late, processVars
    <2>3. AnswerInv'
      BY <1>1 DEF Begin, AnswerInv
    <2> QED BY <2>1, <2>2, <2>3 DEF Reports
  <1>2. CASE VerifyToolingManifest
    <2>1. ReportInv'
      BY <1>0, <1>2 DEF VerifyToolingManifest, ReportInv, Early, During, Late, processVars
    <2>2. CarrierInv'
      BY <1>0, <1>2 DEF VerifyToolingManifest, CarrierInv, Early, During, Late, processVars
    <2>3. AnswerInv'
      BY <1>2 DEF VerifyToolingManifest, AnswerInv
    <2> QED BY <2>1, <2>2, <2>3 DEF Reports
  <1>3. CASE IdentityPreflight
    <2>1. {"preflight-identity", "synthetic-prompt-build"}
            \subseteq StageSet \ {"output-utf8", "state-cleanup"}
      BY TheStages
    <2>2. /\ UNCHANGED <<runner, run, child, calls, carrier>>
          /\ pc = "preflight" /\ pc' \in {"root", "finalize"}
          /\ \/ memory' = Passing({"preflight-identity", "synthetic-prompt-build"})
             \/ memory' = Failed("preflight-identity", "preflight-identity")
      BY <1>3 DEF IdentityPreflight, processVars, Failed
    <2> QED BY <1>f, <1>p, <2>1, <2>2, EarlyStep DEF Early
  <1>4. CASE CreateDiagnosticRoot
    <2>1. /\ UNCHANGED <<runner, run, child, calls, carrier>>
          /\ pc = "root" /\ pc' \in {"workspace", "finalize"}
          /\ memory' = memory \/ memory' = Failed("workspace-setup", "workspace-setup")
      BY <1>4 DEF CreateDiagnosticRoot, processVars, Failed
    <2> QED BY <1>0, <1>f, <2>1, EarlyStep DEF Early
  <1>5. CASE CreateModelWorkspace
    <2>1. {"workspace-setup"} \subseteq StageSet \ {"output-utf8", "state-cleanup"}
      BY TheStages
    <2>2. /\ UNCHANGED <<runner, run, child, calls, carrier>>
          /\ pc = "workspace" /\ pc' \in {"precheck", "finalize"}
          /\ \/ memory' = [Passing({"workspace-setup"}) EXCEPT !.workspaceKnown = TRUE]
             \/ memory' = Failed("workspace-setup", "workspace-setup")
      BY <1>5 DEF CreateModelWorkspace, processVars, Failed
    <2>3. CASE memory' = Failed("workspace-setup", "workspace-setup")
      BY <1>f, <2>2, <2>3, EarlyStep DEF Early
    <2>4. CASE memory' = [Passing({"workspace-setup"}) EXCEPT !.workspaceKnown = TRUE]
      <3> DEFINE n == Passing({"workspace-setup"})
      <3>1. /\ DOMAIN n = Fields /\ n.touched = memory.touched /\ n.events = memory.events
            /\ n.workspaceRemoved = memory.workspaceRemoved /\ n.failure = memory.failure
            /\ n.passed \subseteq memory.passed \cup (StageSet \ {"output-utf8", "state-cleanup"})
        BY <1>p, <2>1
      <3> HIDE DEF n
      <3>2. /\ DOMAIN memory' = Fields /\ memory'.touched = n.touched /\ memory'.events = n.events
            /\ memory'.workspaceRemoved = n.workspaceRemoved /\ memory'.failure = n.failure
            /\ memory'.passed = n.passed
        BY <2>4, <3>1 DEF n, Fields
      <3> QED BY <2>2, <3>1, <3>2, EarlyStep DEF Early
    <2> QED BY <2>2, <2>3, <2>4
  <1>6. CASE ValidateAuthCarrier
    <2>1. {"auth-carrier-precheck"} \subseteq StageSet \ {"output-utf8", "state-cleanup"}
      BY TheStages
    <2>2. /\ UNCHANGED <<runner, run, child, calls, carrier>>
          /\ pc = "precheck" /\ pc' \in {"setup", "remove"}
          /\ \/ memory' = Passing({"auth-carrier-precheck"})
             \/ memory' = Failed("auth-carrier-precheck", "auth-carrier")
      BY <1>6 DEF ValidateAuthCarrier, processVars, Failed
    <2> QED BY <1>f, <1>p, <2>1, <2>2, EarlyStep DEF Early
  <1>7. CASE SetUpEphemeralState
    <2>0. /\ UNCHANGED <<runner, run, child, calls, carrier>> /\ pc = "setup"
      BY <1>7 DEF SetUpEphemeralState, processVars
    <2>1. CASE /\ memory' = Failed("ephemeral-state-setup", "ephemeral-state-setup")
               /\ pc' = "remove"
      BY <1>f, <2>0, <2>1, EarlyStep DEF Early
    <2>2. CASE memory' = FailingCleanup(memory) /\ pc' = "remove"
      <3>1. /\ DOMAIN memory' = Fields
            /\ memory'.failure = memory.failure \/ memory'.failure = CleanupFailed
            /\ \A f \in Fields \ {"failure"} : memory'[f] = memory[f]
        BY <1>0, <2>2, FailedCleanup
      <3>2. CleanupFailed.class = "state-cleanup"
        BY Failures DEF CleanupFailed
      <3>3. /\ memory'.touched = memory.touched /\ memory'.events = memory.events
            /\ memory'.workspaceRemoved = memory.workspaceRemoved /\ memory'.passed = memory.passed
        BY <3>1 DEF Fields
      <3> QED BY <2>0, <2>2, <3>1, <3>2, <3>3, EarlyStep DEF Early
    <2>3. CASE memory' = [memory EXCEPT !.before = carrier, !.setupFailed = TRUE]
               /\ stateRoot' = TRUE /\ pc' = "cleanup"
      <3>1. /\ DOMAIN memory' = Fields /\ memory'.before = carrier /\ stateRoot'
            /\ memory'.touched = memory.touched /\ memory'.events = memory.events
            /\ memory'.workspaceRemoved = memory.workspaceRemoved /\ memory'.passed = memory.passed
            /\ memory'.failure = memory.failure
        BY <1>0, <2>3 DEF Fields
      <3> QED BY <2>0, <2>3, <3>1, EarlyStep DEF Early
    <2>4. CASE memory' = [Passing({"ephemeral-state-setup"}) EXCEPT !.before = carrier]
               /\ stateRoot' = TRUE /\ pc' = "commit"
      <3> DEFINE n == Passing({"ephemeral-state-setup"})
      <3>0. {"ephemeral-state-setup"} \subseteq StageSet \ {"output-utf8", "state-cleanup"}
        BY TheStages
      <3>1. /\ DOMAIN n = Fields /\ n.touched = memory.touched /\ n.events = memory.events
            /\ n.workspaceRemoved = memory.workspaceRemoved /\ n.failure = memory.failure
            /\ n.passed \subseteq memory.passed \cup (StageSet \ {"output-utf8", "state-cleanup"})
        BY <1>p, <3>0
      <3> HIDE DEF n
      <3>2. /\ DOMAIN memory' = Fields /\ memory'.touched = n.touched /\ memory'.events = n.events
            /\ memory'.workspaceRemoved = n.workspaceRemoved /\ memory'.failure = n.failure
            /\ memory'.passed = n.passed /\ memory'.before = carrier
        BY <2>4, <3>1 DEF n, Fields
      <3> QED BY <2>0, <2>4, <3>1, <3>2, EarlyStep DEF Early
    <2> QED BY <1>7, <2>1, <2>2, <2>3, <2>4 DEF SetUpEphemeralState, Failed
  <1> QED BY <1>1, <1>2, <1>3, <1>4, <1>5, <1>6, <1>7

LEMMA TheCall ==
  ASSUME AuthorInv, CommitCallSlot \/ StartCall \/ ApplyProcessObservation
  PROVE  Reports
  <1>0. /\ SlotInv /\ ProcessInv /\ ReportInv /\ CarrierInv /\ DOMAIN memory = Fields
        /\ memory.passed \subseteq StageSet
    BY DEF AuthorInv, ReportInv
  <1>1. CASE CommitCallSlot
    <2>1. /\ UNCHANGED <<runner, run, child, calls, carrier, stateRoot, answer>> /\ pc = "commit"
          /\ pc' \in {"call", "cleanup"}
      BY <1>1 DEF CommitCallSlot, processVars
    <2>2. /\ DOMAIN memory' = Fields /\ memory'.touched = memory.touched
          /\ memory'.events = memory.events /\ memory'.before = memory.before
          /\ memory'.workspaceRemoved = memory.workspaceRemoved
          /\ memory'.passed \subseteq memory.passed \cup {"call-slot-commit"}
          /\ memory'.failure = memory.failure
               \/ memory'.failure.class \notin {"qualified", "auth-carrier-changed"}
      <3>1. CASE memory' = [Passing({"call-slot-commit"}) EXCEPT !.committed = TRUE]
        <4> DEFINE n == Passing({"call-slot-commit"})
        <4>1. /\ DOMAIN n = Fields /\ n.passed = memory.passed \cup {"call-slot-commit"}
              /\ \A f \in Fields \ {"passed"} : n[f] = memory[f]
          BY <1>0, PassedStages
        <4> HIDE DEF n
        <4>2. memory' = [n EXCEPT !.committed = TRUE]
          BY <3>1 DEF n
        <4> QED BY <4>1, <4>2 DEF Fields
      <3>2. CASE memory' = FailingFirst(memory, Failing("call-slot-commit", "ephemeral-state-setup"))
        <4>1. /\ DOMAIN memory' = Fields
              /\ \A f \in Fields \ {"failure"} : memory'[f] = memory[f]
              /\ memory'.failure = memory.failure
                   \/ memory'.failure = Failing("call-slot-commit", "ephemeral-state-setup")
          BY <1>0, <3>2, FirstFailure
        <4> QED BY <4>1, Failures DEF Fields
      <3> QED BY <1>1, <3>1, <3>2 DEF CommitCallSlot
    <2>3. "call-slot-commit" \in StageSet
      BY TheStages
    <2>4. ReportInv'
      BY <1>0, <2>1, <2>2, <2>3 DEF ReportInv, Early, During, Late
    <2>5. CarrierInv'
      BY <1>0, <2>1, <2>2 DEF CarrierInv, Early, During, Late
    <2>6. AnswerInv'
      BY <2>1 DEF AnswerInv
    <2> QED BY <2>4, <2>5, <2>6 DEF Reports
  <1>2. CASE StartCall
    <2>1. /\ UNCHANGED <<runner, root, stateRoot, carrier, memory, answer>>
          /\ pc = "call" /\ pc' = "calling" /\ calls' = calls + 1
      BY <1>2 DEF StartCall, SpawnThrows, SpawnStarts
    <2>2. runner = "qualified" /\ calls = 0 /\ run = NoRun
      BY <1>0, <2>1 DEF SlotInv, ReportInv, ProcessInv
    <2>3. "output-utf8" \notin memory.passed
      BY <1>0, <2>1, <2>2 DEF ReportInv, NoRun
    <2>4. ReportInv'
      BY <1>0, <2>1, <2>2, <2>3 DEF ReportInv, Early, During, Late
    <2>5. CarrierInv'
      BY <1>0, <2>1 DEF CarrierInv, Early, During, Late
    <2>6. AnswerInv'
      BY <2>1 DEF AnswerInv
    <2> QED BY <2>4, <2>5, <2>6 DEF Reports
  <1>3. CASE ApplyProcessObservation
    <2> DEFINE seen == Passing(TransportStages)
               kept == [IF run.class = "qualified" THEN seen
                        ELSE FailingFirst(seen, Failing(ClassStage(run.class), run.class))
                        EXCEPT !.failure = CleanupFailed]
    <2>1. /\ UNCHANGED <<runner, run, child, calls, carrier, stateRoot, root, answer>>
          /\ pc = "calling" /\ pc' = "cleanup" /\ runner = "qualified" /\ run.pc = "settled"
          /\ memory' \in {IF run.class = "qualified" THEN seen
                          ELSE FailingFirst(seen, Failing(ClassStage(run.class), run.class)), kept}
      BY <1>3 DEF ApplyProcessObservation, processVars, CleanupFailed
    <2>2. /\ DOMAIN seen = Fields /\ seen.passed = memory.passed \cup TransportStages
          /\ \A f \in Fields \ {"passed"} : seen[f] = memory[f]
      BY <1>0, PassedStages
    <2> HIDE DEF seen
    <2>3. /\ DOMAIN memory' = Fields
          /\ \A f \in Fields \ {"failure"} : memory'[f] = seen[f]
          /\ \/ memory'.failure = seen.failure \/ memory'.failure = CleanupFailed
             \/ run.class # "qualified" /\ memory'.failure = Failing(ClassStage(run.class), run.class)
      <3>1. CASE run.class = "qualified"
        BY <2>1, <2>2, <3>1 DEF Fields
      <3>2. CASE run.class # "qualified" /\ run.class # "none"
        <4> DEFINE n == FailingFirst(seen, Failing(ClassStage(run.class), run.class))
        <4>1. /\ DOMAIN n = Fields
              /\ n.failure = seen.failure \/ n.failure = Failing(ClassStage(run.class), run.class)
              /\ \A f \in Fields \ {"failure"} : n[f] = seen[f]
          BY <2>2, <3>2, FirstFailure
        <4> HIDE DEF n
        <4>2. memory' = n \/ memory' = [n EXCEPT !.failure = CleanupFailed]
          BY <2>1, <3>2 DEF n
        <4> QED BY <3>2, <4>1, <4>2 DEF Fields
      <3>3. CASE run.class = "none"
        <4> DEFINE n == FailingFirst(seen, Failing(ClassStage(run.class), run.class))
        <4>1. /\ DOMAIN n = Fields
              /\ n.failure = seen.failure \/ n.failure = Failing(ClassStage(run.class), run.class)
              /\ \A f \in Fields \ {"failure"} : n[f] = seen[f]
          BY <2>2 DEF FailingFirst, Fields
        <4> HIDE DEF n
        <4>2. memory' = n \/ memory' = [n EXCEPT !.failure = CleanupFailed]
          BY <2>1, <3>3 DEF n
        <4> QED BY <3>3, <4>1, <4>2 DEF Fields
      <3> QED BY <3>1, <3>2, <3>3
    <2>4. /\ memory'.touched = memory.touched /\ memory'.events = memory.events
          /\ memory'.before = memory.before /\ memory'.workspaceRemoved = memory.workspaceRemoved
          /\ memory'.passed = memory.passed \cup TransportStages
      BY <2>2, <2>3 DEF Fields
    <2>5. /\ memory'.failure.class # "qualified"
          /\ memory'.failure.class = "auth-carrier-changed" => memory'.failure = CarrierChanged
      <3>1. CASE memory'.failure = seen.failure
        BY <1>0, <2>2, <3>1 DEF ReportInv, Fields
      <3>2. CASE memory'.failure = CleanupFailed
        BY <3>2, Failures DEF CleanupFailed
      <3>3. CASE run.class # "qualified" /\ memory'.failure = Failing(ClassStage(run.class), run.class)
        <4>1. run.class # "auth-carrier-changed"
          BY <1>0 DEF ProcessInv, RunRecord
        <4> QED BY <3>3, <4>1, Failures
      <3> QED BY <2>3, <3>1, <3>2, <3>3
    <2>6. /\ TransportStages \subseteq StageSet \ {"state-cleanup"}
          /\ "output-utf8" \in TransportStages => run.class = "qualified"
      <3>1. /\ PassedAfterInput(run.class) \subseteq StageSet \ {"state-cleanup"}
            /\ "output-utf8" \in PassedAfterInput(run.class) => run.class = "qualified"
        <4>1. CASE run.class = "qualified"
          BY <4>1, TheStages DEF PassedAfterInput
        <4>2. CASE run.class \in {"nonzero-exit", "signal"}
          BY <4>2, TheStages DEF PassedAfterInput
        <4>3. CASE run.class = "process-group-cleanup"
          BY <4>3, TheStages DEF PassedAfterInput
        <4>4. CASE run.class = "output-utf8"
          BY <4>4, TheStages DEF PassedAfterInput
        <4>5. CASE run.class \notin {"qualified", "nonzero-exit", "signal", "process-group-cleanup",
                                     "output-utf8"}
          BY <4>5 DEF PassedAfterInput
        <4> QED BY <4>1, <4>2, <4>3, <4>4, <4>5
      <3> QED BY <3>1, TheStages DEF TransportStages
    <2>7. ReportInv'
      BY <1>0, <2>1, <2>3, <2>4, <2>5, <2>6 DEF ReportInv, Early, During, Late
    <2>8. CarrierInv'
      BY <1>0, <2>1, <2>4 DEF CarrierInv, Early, During, Late
    <2>9. AnswerInv'
      BY <2>1 DEF AnswerInv
    <2> QED BY <2>7, <2>8, <2>9 DEF Reports
  <1> QED BY <1>1, <1>2, <1>3

LEMMA AfterTheCall ==
  ASSUME AuthorInv, RemoveEphemeralState \/ RecheckAuthCarrier \/ JudgeOutput \/ RemoveModelWorkspace
  PROVE  Reports
  <1>0. /\ SlotInv /\ ProcessInv /\ ReportInv /\ CarrierInv /\ DOMAIN memory = Fields
        /\ memory.passed \subseteq StageSet
    BY DEF AuthorInv, ReportInv
  <1>c. CleanupFailed.class = "state-cleanup" /\ CarrierChanged.class = "auth-carrier-changed"
        /\ CleanupFailed # NoFailure /\ CarrierChanged # NoFailure
    BY Failures DEF CleanupFailed, CarrierChanged, NoFailure
  <1>f. LET n == FailingCleanup(memory) IN
        /\ DOMAIN n = Fields
        /\ n.failure = (IF memory.failure.class = "auth-carrier-changed" THEN memory.failure
                        ELSE CleanupFailed)
        /\ n.touched = memory.touched /\ n.events = memory.events /\ n.before = memory.before
        /\ n.workspaceRemoved = memory.workspaceRemoved /\ n.passed = memory.passed
    <2> DEFINE n == FailingCleanup(memory)
    <2>1. /\ DOMAIN n = Fields
          /\ n.failure = (IF memory.failure.class = "auth-carrier-changed" THEN memory.failure
                          ELSE CleanupFailed)
          /\ \A f \in Fields \ {"failure"} : n[f] = memory[f]
      BY <1>0, FailedCleanup
    <2> HIDE DEF n
    <2>2. /\ n.touched = memory.touched /\ n.events = memory.events /\ n.before = memory.before
          /\ n.workspaceRemoved = memory.workspaceRemoved /\ n.passed = memory.passed
      BY <2>1 DEF Fields
    <2> QED BY <2>1, <2>2 DEF n
  <1>1. CASE RemoveEphemeralState
    <2>1. UNCHANGED <<runner, run, child, calls, carrier, root, answer>> /\ pc = "cleanup"
      BY <1>1 DEF RemoveEphemeralState, processVars
    <2>2. CASE ~stateRoot' /\ pc' = "recheck" /\ memory' = memory
      <3>1. ReportInv'
        BY <1>0, <2>1, <2>2 DEF ReportInv, Early, During, Late
      <3>2. CarrierInv'
        BY <1>0, <2>1, <2>2 DEF CarrierInv, Early, During, Late
      <3> QED BY <2>2, <3>1, <3>2 DEF Reports, AnswerInv
    <2>3. CASE memory' = FailingCleanup(memory) /\ pc' = "remove" /\ UNCHANGED stateRoot
      <3>0. "state-cleanup" \notin memory.passed
        BY <1>0, <2>1 DEF ReportInv, Late
      <3>1. ReportInv'
        BY <1>0, <1>c, <1>f, <2>1, <2>3, <3>0 DEF ReportInv, Early, During, Late
      <3>2. CarrierInv'
        BY <1>0, <1>c, <1>f, <2>1, <2>3 DEF CarrierInv, ReportInv, Early, During, Late
      <3> QED BY <2>3, <3>1, <3>2 DEF Reports, AnswerInv
    <2> QED BY <1>1, <2>2, <2>3 DEF RemoveEphemeralState
  <1>2. CASE RecheckAuthCarrier
    <2>1. /\ UNCHANGED <<runner, run, child, calls, carrier, root, answer, stateRoot>>
          /\ pc = "recheck" /\ pc' = "judge" /\ ~stateRoot
      BY <1>0, <1>2 DEF RecheckAuthCarrier, ReportInv, processVars
    <2>2. /\ DOMAIN memory' = Fields
          /\ memory'.touched = memory.touched /\ memory'.events = memory.events
          /\ memory'.before = memory.before /\ memory'.workspaceRemoved = memory.workspaceRemoved
          /\ memory'.passed \subseteq memory.passed \cup {"state-cleanup", "auth-carrier-recheck"}
          /\ memory'.failure = memory.failure \/ memory'.failure = CarrierChanged
               \/ memory'.failure.class \notin {"qualified", "auth-carrier-changed"}
          /\ carrier # memory.before => memory'.failure = CarrierChanged
      <3>1. CASE carrier # memory.before
        <4>1. memory' = [memory EXCEPT !.failure = CarrierChanged]
          BY <1>2, <3>1 DEF RecheckAuthCarrier, CarrierFailure, CarrierChanged
        <4> QED BY <1>0, <4>1 DEF Fields
      <3>2. CASE carrier = memory.before /\ memory.setupFailed
        <4>1. memory' = FailingFirst(memory, Failing("ephemeral-state-setup", "ephemeral-state-setup"))
          BY <1>2, <3>2 DEF RecheckAuthCarrier
        <4>2. /\ DOMAIN memory' = Fields
              /\ memory'.failure = memory.failure
                   \/ memory'.failure = Failing("ephemeral-state-setup", "ephemeral-state-setup")
              /\ \A f \in Fields \ {"failure"} : memory'[f] = memory[f]
          BY <1>0, <4>1, FirstFailure
        <4> QED BY <3>2, <4>2, Failures DEF Fields
      <3>3. CASE carrier = memory.before /\ ~memory.setupFailed
        <4>1. memory' = Passing({"state-cleanup", "auth-carrier-recheck"})
          BY <1>2, <3>3 DEF RecheckAuthCarrier
        <4>2. /\ DOMAIN memory' = Fields
              /\ memory'.passed = memory.passed \cup {"state-cleanup", "auth-carrier-recheck"}
              /\ \A f \in Fields \ {"passed"} : memory'[f] = memory[f]
          BY <1>0, <4>1, PassedStages
        <4> QED BY <3>3, <4>2 DEF Fields
      <3> QED BY <3>1, <3>2, <3>3
    <2>3. {"state-cleanup", "auth-carrier-recheck"} \subseteq StageSet
      BY TheStages
    <2>4. ReportInv'
      BY <1>0, <1>c, <2>1, <2>2, <2>3 DEF ReportInv, Early, During, Late
    <2>5. CarrierInv'
      BY <1>0, <2>1, <2>2 DEF CarrierInv, Early, During, Late
    <2> QED BY <2>1, <2>4, <2>5 DEF Reports, AnswerInv
  <1>3. CASE JudgeOutput
    <2>1. /\ UNCHANGED <<runner, run, child, calls, carrier, root, answer, stateRoot>>
          /\ pc = "judge" /\ pc' = "remove" /\ ~stateRoot
      BY <1>0, <1>3 DEF JudgeOutput, ReportInv, processVars
    <2>2. CASE memory.failure # NoFailure
      <3>1. memory' = memory
        BY <1>3, <2>2 DEF JudgeOutput
      <3>2. ReportInv'
        BY <1>0, <2>1, <3>1 DEF ReportInv, Early, During, Late
      <3>3. CarrierInv'
        BY <1>0, <2>1, <3>1 DEF CarrierInv, Early, During, Late
      <3> QED BY <2>1, <3>2, <3>3 DEF Reports, AnswerInv
    <2>3. CASE memory.failure = NoFailure
      <3>0. runner = "qualified"
        BY <1>0, <2>1 DEF ProcessInv, ReportInv
      <3>1. runner = "qualified" /\ ~memory.touched
        BY <1>0, <1>c, <2>1, <2>3, <3>0 DEF CarrierInv
      <3>2. /\ DOMAIN memory' = Fields
            /\ memory'.touched = memory.touched
            /\ memory'.workspaceRemoved = memory.workspaceRemoved
            /\ memory'.passed \subseteq memory.passed \cup {"jsonl-trace", "model-identity", "result-schema"}
            /\ memory'.failure = memory.failure
                 \/ memory'.failure.class \notin {"qualified", "auth-carrier-changed"}
        <4>1. ASSUME NEW S \in {{"jsonl-trace", "model-identity", "result-schema"}, {"jsonl-trace"},
                                {"jsonl-trace", "model-identity"}, {}},
                     NEW n
              PROVE  LET m == [Passing(S) EXCEPT !.events = n] IN
                     /\ DOMAIN m = Fields /\ m.touched = memory.touched
                     /\ m.workspaceRemoved = memory.workspaceRemoved
                     /\ m.passed \subseteq memory.passed \cup {"jsonl-trace", "model-identity", "result-schema"}
                     /\ m.failure = memory.failure
          <5> DEFINE k == Passing(S)
          <5>1. /\ DOMAIN k = Fields /\ k.passed = memory.passed \cup S
                /\ \A f \in Fields \ {"passed"} : k[f] = memory[f]
            BY <1>0, PassedStages
          <5> HIDE DEF k
          <5>2. LET m == [k EXCEPT !.events = n] IN
                 /\ DOMAIN m = Fields /\ m.touched = memory.touched
                 /\ m.workspaceRemoved = memory.workspaceRemoved
                 /\ m.passed = memory.passed \cup S
                 /\ m.failure = memory.failure
            BY <5>1 DEF Fields
          <5> QED BY <4>1, <5>2 DEF k
        <4>2. ASSUME NEW m, NEW class \in {"jsonl-trace", "model-identity", "result-schema"},
                     DOMAIN m = Fields, m.failure = memory.failure,
                     memory' = FailingFirst(m, Failing(class, class))
              PROVE  /\ DOMAIN memory' = Fields /\ memory'.touched = m.touched
                     /\ memory'.workspaceRemoved = m.workspaceRemoved
                     /\ memory'.passed = m.passed
                     /\ memory'.failure.class = class
          <5>1. /\ DOMAIN memory' = Fields /\ memory'.failure = Failing(class, class)
                /\ \A f \in Fields \ {"failure"} : memory'[f] = m[f]
            BY <2>3, <4>2, FirstFailure
          <5> QED BY <5>1, Failures DEF Fields
        <4>3. CASE memory' = [Passing({"jsonl-trace", "model-identity", "result-schema"})
                                EXCEPT !.events = 4]
          BY <4>1, <4>3
        <4>4. ASSUME NEW n, memory' = FailingFirst([memory EXCEPT !.events = n],
                                                   Failing("jsonl-trace", "jsonl-trace"))
              PROVE  /\ DOMAIN memory' = Fields
                     /\ memory'.touched = memory.touched
                     /\ memory'.workspaceRemoved = memory.workspaceRemoved
                     /\ memory'.passed = memory.passed
                     /\ memory'.failure.class \notin {"qualified", "auth-carrier-changed"}
          <5> DEFINE m == [memory EXCEPT !.events = n]
          <5>1. /\ DOMAIN m = Fields /\ m.failure = memory.failure /\ m.touched = memory.touched
                /\ m.workspaceRemoved = memory.workspaceRemoved /\ m.passed = memory.passed
            BY <1>0 DEF Fields
          <5> HIDE DEF m
          <5>2. memory' = FailingFirst(m, Failing("jsonl-trace", "jsonl-trace"))
            BY <4>4 DEF m
          <5>3. /\ DOMAIN memory' = Fields /\ memory'.touched = m.touched
                /\ memory'.workspaceRemoved = m.workspaceRemoved /\ memory'.passed = m.passed
                /\ memory'.failure.class = "jsonl-trace"
            BY <4>2, <5>1, <5>2
          <5> QED BY <5>1, <5>3
        <4>5. CASE memory' = FailingFirst([Passing({"jsonl-trace"}) EXCEPT !.events = 4],
                                          Failing("model-identity", "model-identity"))
          <5> DEFINE m == [Passing({"jsonl-trace"}) EXCEPT !.events = 4]
          <5>1. /\ DOMAIN m = Fields /\ m.touched = memory.touched
                /\ m.workspaceRemoved = memory.workspaceRemoved /\ m.failure = memory.failure
                /\ m.passed \subseteq memory.passed \cup {"jsonl-trace", "model-identity", "result-schema"}
            BY <4>1
          <5> HIDE DEF m
          <5>2. memory' = FailingFirst(m, Failing("model-identity", "model-identity"))
            BY <4>5 DEF m
          <5>3. /\ DOMAIN memory' = Fields /\ memory'.touched = m.touched
                /\ memory'.workspaceRemoved = m.workspaceRemoved /\ memory'.passed = m.passed
                /\ memory'.failure.class = "model-identity"
            BY <4>2, <5>1, <5>2
          <5> QED BY <5>1, <5>3
        <4>6. CASE memory' = FailingFirst([Passing({"jsonl-trace", "model-identity"}) EXCEPT !.events = 4],
                                          Failing("result-schema", "result-schema"))
          <5> DEFINE m == [Passing({"jsonl-trace", "model-identity"}) EXCEPT !.events = 4]
          <5>1. /\ DOMAIN m = Fields /\ m.touched = memory.touched
                /\ m.workspaceRemoved = memory.workspaceRemoved /\ m.failure = memory.failure
                /\ m.passed \subseteq memory.passed \cup {"jsonl-trace", "model-identity", "result-schema"}
            BY <4>1
          <5> HIDE DEF m
          <5>2. memory' = FailingFirst(m, Failing("result-schema", "result-schema"))
            BY <4>6 DEF m
          <5>3. /\ DOMAIN memory' = Fields /\ memory'.touched = m.touched
                /\ memory'.workspaceRemoved = m.workspaceRemoved /\ memory'.passed = m.passed
                /\ memory'.failure.class = "result-schema"
            BY <4>2, <5>1, <5>2
          <5> QED BY <5>1, <5>3
        <4> QED BY <1>3, <2>3, <4>3, <4>4, <4>5, <4>6 DEF JudgeOutput
      <3>3. {"jsonl-trace", "model-identity", "result-schema"} \subseteq StageSet
        BY TheStages
      <3>4. ReportInv'
        BY <1>0, <2>1, <3>2, <3>3 DEF ReportInv, Early, During, Late
      <3>5. CarrierInv'
        BY <1>0, <2>1, <3>1, <3>2 DEF CarrierInv, Early, During, Late
      <3> QED BY <2>1, <3>4, <3>5 DEF Reports, AnswerInv
    <2> QED BY <2>2, <2>3
  <1>4. CASE RemoveModelWorkspace
    <2>1. /\ UNCHANGED <<runner, run, child, calls, carrier, answer, stateRoot>>
          /\ pc = "remove" /\ pc' = "finalize"
      BY <1>4 DEF RemoveModelWorkspace, processVars
    <2>2. CASE root' = [root EXCEPT !.workspace = FALSE]
               /\ memory' = [memory EXCEPT !.workspaceRemoved = TRUE]
      <3>1. ~root'.workspace
        BY <1>0, <2>2 DEF SlotInv
      <3>2. /\ DOMAIN memory' = Fields /\ memory'.touched = memory.touched
            /\ memory'.events = memory.events /\ memory'.before = memory.before
            /\ memory'.passed = memory.passed /\ memory'.failure = memory.failure
        BY <1>0, <2>2 DEF Fields
      <3>3. ReportInv'
        BY <1>0, <2>1, <3>1, <3>2 DEF ReportInv, Early, During, Late
      <3>4. CarrierInv'
        BY <1>0, <2>1, <3>2 DEF CarrierInv, Early, During, Late
      <3> QED BY <2>1, <3>3, <3>4 DEF Reports, AnswerInv
    <2>3. CASE memory' = FailingCleanup(memory) /\ root' = root
      <3>1. ReportInv'
        BY <1>0, <1>c, <1>f, <2>1, <2>3 DEF ReportInv, Early, During, Late
      <3>2. CarrierInv'
        BY <1>0, <1>c, <1>f, <2>1, <2>3 DEF CarrierInv, ReportInv, Early, During, Late
      <3> QED BY <2>1, <3>1, <3>2 DEF Reports, AnswerInv
    <2> QED BY <1>4, <2>2, <2>3 DEF RemoveModelWorkspace
  <1> QED BY <1>1, <1>2, <1>3, <1>4

\* What is reported of the failures that a change of the carrier leaves.
LEMMA WhatIsReported ==
  ASSUME AuthorInv, FinalizeReport
  PROVE  /\ memory.failure = CarrierChanged /\ memory.events = 0 => answer' = "auth-carrier-changed"
         /\ memory.failure = CleanupFailed /\ memory.events = 0 => answer' = "state-cleanup"
         /\ answer' = "qualified" =>
              memory.failure = NoFailure /\ memory.passed = StageSet /\ memory.workspaceRemoved
  <1>0. memory.passed \subseteq StageSet /\ memory.failure.class # "qualified"
    BY DEF AuthorInv, ReportInv
  <1>1. answer' = IF Admissible(memory, Finalized(memory)) THEN ClassOf(Finalized(memory))
                  ELSE "rejected"
    BY DEF FinalizeReport
  <1>p. Position("auth-carrier-recheck") = 18 /\ Position("state-cleanup") = 17
    <2>1. {"auth-carrier-recheck", "state-cleanup"} \subseteq StageSet
      BY TheStages
    <2>2. Stages[18] = "auth-carrier-recheck" /\ Stages[17] = "state-cleanup"
      BY DEF Stages
    <2>3. /\ Position("auth-carrier-recheck") \in 1..18 /\ Position("state-cleanup") \in 1..18
          /\ Stages[Position("auth-carrier-recheck")] = Stages[18]
          /\ Stages[Position("state-cleanup")] = Stages[17]
      BY <2>1, <2>2, TheStages
    <2>4. 17 \in 1..18 /\ 18 \in 1..18
      OBVIOUS
    <2> QED BY <2>3, <2>4, TheStages
  <1>o. \A s \in StageSet \ {"auth-carrier-recheck", "state-cleanup"} : Position(s) < 17
    <2>1. SUFFICES ASSUME NEW s \in StageSet, s # "auth-carrier-recheck", s # "state-cleanup"
                   PROVE  Position(s) < 17
      OBVIOUS
    <2>2. Stages[18] = "auth-carrier-recheck" /\ Stages[17] = "state-cleanup"
      BY DEF Stages
    <2>3. Position(s) \in 1..18 /\ Stages[Position(s)] = s
      BY TheStages
    <2> QED BY <2>1, <2>2, <2>3
  <1>n. \A stage, class : Failing(stage, class) = NoFailure => class = "none"
    BY Failures DEF NoFailure
  <1>2. ASSUME memory.failure = CarrierChanged, memory.events = 0
        PROVE  answer' = "auth-carrier-changed"
    <2>1. CarrierChanged.stage = "auth-carrier-recheck" /\ CarrierChanged.class = "auth-carrier-changed"
          /\ CarrierChanged # NoFailure
      BY <1>n, Failures DEF CarrierChanged
    <2>2. Finalized(memory) = CarrierChanged
      BY <1>2, <2>1 DEF Finalized
    <2>3. "auth-carrier-recheck" \in AdmittedStages("auth-carrier-changed")
      BY DEF AdmittedStages
    <2>4. StagesInOrder(CarrierChanged, memory.passed)
      BY <1>0, <1>p, <1>o, <2>1, TheStages DEF StagesInOrder
    <2>5. Admissible(memory, CarrierChanged)
      BY <1>2, <2>1, <2>3, <2>4 DEF Admissible
    <2> QED BY <1>1, <2>1, <2>2, <2>5 DEF ClassOf
  <1>3. ASSUME memory.failure = CleanupFailed, memory.events = 0
        PROVE  answer' = "state-cleanup"
    <2>1. CleanupFailed.stage = "state-cleanup" /\ CleanupFailed.class = "state-cleanup"
          /\ CleanupFailed # NoFailure
      BY <1>n, Failures DEF CleanupFailed
    <2>2. Finalized(memory) = CleanupFailed
      BY <1>3, <2>1 DEF Finalized
    <2>3. "state-cleanup" \in AdmittedStages("state-cleanup")
      BY DEF AdmittedStages
    <2>4. StagesInOrder(CleanupFailed, memory.passed)
      BY <1>0, <1>p, <1>o, <2>1 DEF StagesInOrder
    <2>5. Admissible(memory, CleanupFailed)
      BY <1>3, <2>1, <2>3, <2>4 DEF Admissible
    <2> QED BY <1>1, <2>1, <2>2, <2>5 DEF ClassOf
  <1>4. ASSUME answer' = "qualified"
        PROVE  memory.failure = NoFailure /\ memory.passed = StageSet /\ memory.workspaceRemoved
    <2> DEFINE f == Finalized(memory)
    <2>1. Admissible(memory, f) /\ ClassOf(f) = "qualified"
      BY <1>1, <1>4
    <2>2. \/ memory.failure # NoFailure /\ f = memory.failure
          \/ memory.failure = NoFailure /\ memory.passed = StageSet /\ f = NoFailure
          \/ f.class = "unknown-terminal-failure"
      <3>1. CASE memory.failure # NoFailure \/ memory.passed = StageSet
        BY <3>1 DEF Finalized
      <3>2. CASE ~(memory.failure # NoFailure \/ memory.passed = StageSet)
        BY <3>2, Failures DEF Finalized
      <3> QED BY <3>1, <3>2
    <2> HIDE DEF f
    <2>3. f = NoFailure
      BY <1>0, <2>1, <2>2 DEF ClassOf
    <2>4. NoFailure.class = "none"
      BY DEF NoFailure
    <2> QED BY <2>1, <2>2, <2>3, <2>4 DEF Admissible
  <1> QED BY <1>2, <1>3, <1>4

LEMMA TheReport ==
  ASSUME AuthorInv, FinalizeReport
  PROVE  Reports
  <1>0. /\ SlotInv /\ ProcessInv /\ ReportInv /\ CarrierInv
    BY DEF AuthorInv
  <1>1. /\ UNCHANGED <<runner, run, child, calls, carrier, root, stateRoot, memory>>
        /\ pc = "finalize" /\ pc' = "done"
    BY DEF FinalizeReport, processVars
  <1>2. ReportInv'
    BY <1>0, <1>1 DEF ReportInv, Early, During, Late
  <1>3. CarrierInv'
    BY <1>0, <1>1, WhatIsReported DEF CarrierInv, Early, During, Late
  <1>4. AnswerInv'
    <2>1. SUFFICES ASSUME answer' = "qualified" PROVE AnswerInv'
      BY DEF AnswerInv
    <2>2. memory.failure = NoFailure /\ memory.passed = StageSet /\ memory.workspaceRemoved
      BY <2>1, WhatIsReported
    <2>3. "output-utf8" \in memory.passed /\ "state-cleanup" \in memory.passed
      BY <2>2, TheStages
    <2>4. run.class = "qualified" /\ ~stateRoot /\ ~root.workspace
      BY <1>0, <1>1, <2>2, <2>3 DEF ReportInv
    <2>5. runner = "qualified" => root.marker
      <3>1. calls # 0
        BY <1>0, <2>4 DEF ReportInv, NoRun
      <3> QED BY <1>0, <3>1 DEF SlotInv
    <2>6. runner = "qualified" => ~memory.touched
      BY <1>0, <1>1, <2>2, Failures DEF CarrierInv, CarrierChanged, CleanupFailed, NoFailure
    <2> QED BY <1>1, <2>4, <2>5, <2>6 DEF AnswerInv
  <1> QED BY <1>2, <1>3, <1>4 DEF Reports

LEMMA TheEnvironment ==
  ASSUME AuthorInv, PlainCall \/ PlainReturn \/ CarrierChanges \/ Crash
  PROVE  Reports
  <1>0. /\ SlotInv /\ ProcessInv /\ ReportInv /\ CarrierInv /\ AnswerInv
    BY DEF AuthorInv
  <1>1. CASE PlainCall
    <2>1. /\ UNCHANGED <<runner, root, stateRoot, carrier, memory, answer>> /\ runner = "plain"
          /\ pc = "idle" /\ pc' = "calling" /\ calls' = calls + 1
      BY <1>1 DEF PlainCall, SpawnThrows, SpawnStarts
    <2>2. calls = 0 /\ run = NoRun
      BY <1>0, <2>1 DEF ReportInv
    <2>3. "output-utf8" \notin memory.passed
      BY <1>0, <2>1, <2>2 DEF ReportInv, NoRun
    <2>4. ReportInv'
      BY <1>0, <2>1, <2>2, <2>3 DEF ReportInv, Early, During, Late
    <2> QED BY <2>1, <2>4 DEF Reports, CarrierInv, AnswerInv
  <1>2. CASE PlainReturn
    <2>1. /\ UNCHANGED <<runner, run, child, root, stateRoot, carrier, memory, calls>>
          /\ runner = "plain" /\ pc = "calling" /\ pc' = "done" /\ answer' = run.class
      BY <1>2 DEF PlainReturn, processVars
    <2>2. ReportInv'
      BY <1>0, <2>1 DEF ReportInv, Early, During, Late
    <2> QED BY <2>1, <2>2 DEF Reports, CarrierInv, AnswerInv
  <1>3. CASE CarrierChanges
    <2>1. /\ UNCHANGED <<runner, run, child, pc, root, stateRoot, calls, answer>>
          /\ carrier = "original" /\ carrier' = "changed"
          /\ memory' = [memory EXCEPT !.touched = InTheCall]
      BY <1>3 DEF CarrierChanges, processVars
    <2>2. /\ DOMAIN memory' = Fields /\ memory'.touched = InTheCall
          /\ memory'.events = memory.events /\ memory'.before = memory.before
          /\ memory'.passed = memory.passed /\ memory'.failure = memory.failure
          /\ memory'.workspaceRemoved = memory.workspaceRemoved
      BY <1>0, <2>1 DEF ReportInv, Fields
    <2>3. ReportInv'
      BY <1>0, <2>1, <2>2 DEF ReportInv, Early, During, Late
    <2>4. CarrierInv'
      BY <1>0, <2>1, <2>2 DEF CarrierInv, ReportInv, InTheCall, Early, During, Late
    <2>5. AnswerInv'
      BY <1>0, <2>1, <2>2 DEF AnswerInv, InTheCall
    <2> QED BY <2>3, <2>4, <2>5 DEF Reports
  <1>4. CASE Crash
    <2>1. /\ UNCHANGED <<runner, child, root, stateRoot, carrier, memory, calls, answer>>
          /\ pc' = "crashed" /\ run' = NoRun /\ runner = "qualified"
          /\ pc \notin {"idle", "done", "crashed"}
      BY <1>4 DEF Crash
    <2>2. ReportInv'
      BY <1>0, <2>1 DEF ReportInv, Early, During, Late
    <2>3. CarrierInv'
      BY <1>0, <2>1 DEF CarrierInv, Early, During, Late
    <2> QED BY <2>1, <2>2, <2>3 DEF Reports, AnswerInv
  <1> QED BY <1>1, <1>2, <1>3, <1>4

\* A process that was not started does nothing, and one that is answered for changes the
\* answer no more.
LEMMA OnlyARunningProcess ==
  ASSUME ProcessInv, RunnerStep \/ ChildStep
  PROVE  /\ ~(run = NoRun /\ child = NoChild)
         /\ run.class = "qualified" => run' = run
  <1>1. run.pc \in {"none", "settled"} => run' = run /\ (child.alive \/ child.members)
    BY DEF RunnerStep, ChildStep, TimeoutFires, EscalationFires, WatchdogFires, GroupIsGone,
      SignalGroup, KillGroup, GiveUp, StdinFlushed, StdinFails, OutputOverLimit, CloseArrives,
      ErrorArrives, ChildEnds, MembersEnd, Listening
  <1>2. NoRun.pc = "none" /\ ~NoChild.alive /\ ~NoChild.members
    BY DEF NoRun, NoChild
  <1>3. run.class = "qualified" => run.pc = "settled"
    BY DEF ProcessInv
  <1> QED BY <1>1, <1>2, <1>3

LEMMA AuthorInit ==
  ASSUME Init
  PROVE  AuthorInv
  <1>1. ReportInv
    BY DEF Init, ProcessInit, ReportInv, FreshMemory, NoFailure, Fields, Early, During, Late
  <1>2. CarrierInv
    BY DEF Init, CarrierInv, FreshMemory, Early, During, Late
  <1>3. AnswerInv
    BY DEF Init, AnswerInv
  <1> QED BY <1>1, <1>2, <1>3, SlotInit, ProcessInvInit DEF AuthorInv

LEMMA AuthorStep ==
  ASSUME AuthorInv, [Next]_vars
  PROVE  AuthorInv'
  <1>0. SlotInv /\ ProcessInv /\ ReportInv /\ CarrierInv /\ AnswerInv
    BY DEF AuthorInv
  <1>1. CASE Begin \/ ControllerStep \/ PlainCall \/ PlainReturn \/ CarrierChanges \/ Crash
    <2>1. SlotInv'
      BY <1>0, <1>1, SlotStep DEF Next
    <2>2. Reports
      BY <1>1, BeforeTheCall, TheCall, AfterTheCall, TheReport, TheEnvironment DEF ControllerStep
    <2>3. ProcessInv'
      <3>1. CASE StartCall \/ PlainCall
        <4>1. SpawnThrows \/ SpawnStarts
          BY <3>1 DEF StartCall, PlainCall
        <4>2. run = NoRun /\ child = NoChild
          BY <1>0, <3>1 DEF StartCall, PlainCall, ReportInv, SlotInv, ProcessInv
        <4> QED BY <1>0, <4>1, <4>2, ProcessStarts
      <3>2. CASE Crash
        BY <1>0, <3>2 DEF Crash, ProcessInv, RunRecord, NoRun
      <3>3. CASE ~(StartCall \/ PlainCall \/ Crash)
        <4>1. UNCHANGED <<runner, run, child>>
          BY <1>1, <3>3 DEF ControllerStep, Begin, VerifyToolingManifest, IdentityPreflight,
            CreateDiagnosticRoot, CreateModelWorkspace, ValidateAuthCarrier, SetUpEphemeralState,
            CommitCallSlot, ApplyProcessObservation, RemoveEphemeralState, RecheckAuthCarrier,
            JudgeOutput, RemoveModelWorkspace, FinalizeReport, PlainReturn, CarrierChanges,
            processVars
        <4> QED BY <1>0, <4>1 DEF ProcessInv, CleanCall, GroupExists
      <3> QED BY <3>1, <3>2, <3>3
    <2> QED BY <2>1, <2>2, <2>3 DEF AuthorInv, Reports
  <1>2. CASE (RunnerStep \/ ChildStep) /\ UNCHANGED callVars
    <2>1. SlotInv' /\ ProcessInv' /\ UNCHANGED <<runner, callVars>>
      BY <1>0, <1>2, SlotStep, ProcessRuns, ProcessKeepsRunner DEF Next
    <2>2. calls # 0 /\ (run.class = "qualified" => run'.class = "qualified")
      BY <1>0, <1>2, OnlyARunningProcess DEF ReportInv
    <2>3. ReportInv'
      BY <1>0, <2>1, <2>2 DEF ReportInv, callVars
    <2>4. CarrierInv'
      BY <1>0, <2>1 DEF CarrierInv, callVars
    <2>5. AnswerInv'
      BY <1>0, <2>1, <2>2 DEF AnswerInv, callVars
    <2> QED BY <2>1, <2>3, <2>4, <2>5 DEF AuthorInv
  <1>3. CASE UNCHANGED vars
    BY <1>0, <1>3 DEF vars, callVars, processVars, AuthorInv, SlotInv, RootIsMine, ProcessInv,
      CleanCall, GroupExists, ReportInv, CarrierInv, AnswerInv
  <1> QED BY <1>1, <1>2, <1>3 DEF Next

\* A good answer is of a call that the operating system saw to be good: the child read its
\* input, ended by itself with 0 within the limits, and nothing of its group is left.
THEOREM GoodAnswersAreOfGoodCalls == Spec => []QualifiedIsClean
  <1>1. AuthorInv => QualifiedIsClean
    BY DEF AuthorInv, ProcessInv, CleanCall, AnswerInv, QualifiedIsClean
  <1> QED BY <1>1, AuthorInit, AuthorStep, PTL DEF Spec

\* A change of the carrier during the call is what is reported, whatever else failed, as
\* long as the ephemeral state was removed.
THEOREM CarrierChangesAreReported == Spec => []CarrierChangeDominates
  <1>1. AuthorInv => CarrierChangeDominates
    BY DEF AuthorInv, CarrierInv, CarrierChangeDominates
  <1> QED BY <1>1, AuthorInit, AuthorStep, PTL DEF Spec

=============================================================================
