----------------------------- MODULE AuthorCall -----------------------------
(* runAuthorCallQualification (tooling/codex-author-call-qualification-v1.mjs):
   one model call, spent on purpose.  The controller makes a diagnostic root, an
   ephemeral copy of the provider's state, commits the call slot, runs the call
   (ModelProcess), tidies up whatever happened and reports one outcome.  It may be
   killed at any point, and started again on the same diagnostic root.

   With runner = "plain" the call is a bare one of spawnWithInput, whose callers
   look only at whether it resolved.                                            *)
EXTENDS ModelProcess, Sequences, FiniteSets

CONSTANT MaxInvocations            \* bound of the model: starts of the controller
ASSUME InvocationsAssumption == MaxInvocations \in Nat \ {0}

VARIABLES
  pc, invocations,
  root,        \* the diagnostic root: [made, marker, workspace]
  stateRoot,   \* the directory of the ephemeral state exists
  carrier,     \* the file that carries the authentication: "original" or "changed"
  memory,      \* the controller's variables and the report it fills in
  calls,       \* spawns, ever
  answer       \* what was printed: a class, "rejected", or "none" so far

callVars == <<pc, invocations, root, stateRoot, carrier, memory, calls, answer>>
vars == <<processVars, callVars>>

\* authorCallQualificationStageIds.
Stages == <<"preflight-identity", "synthetic-prompt-build", "workspace-setup",
            "auth-carrier-precheck", "ephemeral-state-setup", "call-slot-commit",
            "process-spawn", "stdin-write", "process-wait", "output-budget", "process-exit",
            "process-group-cleanup", "output-utf8", "jsonl-trace", "model-identity",
            "result-schema", "state-cleanup", "auth-carrier-recheck">>
StageSet == {Stages[i] : i \in DOMAIN Stages}
Position(stage) == CHOOSE i \in DOMAIN Stages : Stages[i] = stage

NoFailure == [stage |-> "none", class |-> "none"]
Failing(stage, class) == [stage |-> stage, class |-> class]

FreshMemory == [failure |-> NoFailure, passed |-> {}, committed |-> FALSE,
                workspaceKnown |-> FALSE, workspaceRemoved |-> FALSE, before |-> "none",
                setupFailed |-> FALSE, touched |-> FALSE, events |-> 0]

Init ==
  /\ ProcessInit
  /\ pc = "idle" /\ invocations = 0
  /\ root = [made |-> FALSE, marker |-> FALSE, workspace |-> FALSE]
  /\ stateRoot = FALSE /\ carrier = "original"
  /\ memory = FreshMemory
  /\ calls = 0 /\ answer = "none"

Passing(stages) == [memory EXCEPT !.passed = @ \cup stages]
\* setFailure: the first one stands.
FailingFirst(m, f) == IF m.failure = NoFailure THEN [m EXCEPT !.failure = f] ELSE m
\* state-cleanup replaces any failure but a changed carrier.
FailingCleanup(m) == IF m.failure.class = "auth-carrier-changed" THEN m
                     ELSE [m EXCEPT !.failure = Failing("state-cleanup", "state-cleanup")]

-----------------------------------------------------------------------------
(* Before the call.                                                            *)

\* A start with wrong arguments, in the wrong repository or on the wrong node is
\* refused without a report.
Begin ==
  /\ pc \in {"idle", "done", "crashed"} /\ invocations < MaxInvocations
  /\ runner = "qualified"
  /\ invocations' = invocations + 1
  /\ memory' = FreshMemory
  /\ \/ pc' = "tooling" /\ answer' = "none"
     \/ pc' = "done" /\ answer' = "rejected"
  /\ UNCHANGED <<processVars, root, stateRoot, carrier, calls>>

\* So is one whose tooling is not what its manifest says.
VerifyToolingManifest ==
  /\ pc = "tooling"
  /\ \/ pc' = "preflight" /\ UNCHANGED answer
     \/ pc' = "done" /\ answer' = "rejected"
  /\ UNCHANGED <<processVars, invocations, root, stateRoot, carrier, memory, calls>>

IdentityPreflight ==
  /\ pc = "preflight"
  /\ \/ /\ memory' = Passing({"preflight-identity", "synthetic-prompt-build"})
        /\ pc' = "root"
     \/ /\ memory' = FailingFirst(memory, Failing("preflight-identity", "preflight-identity"))
        /\ pc' = "finalize"
  /\ UNCHANGED <<processVars, invocations, root, stateRoot, carrier, calls, answer>>

\* mkdir is exclusive: a root that exists is refused, whoever made it.
CreateDiagnosticRoot ==
  /\ pc = "root"
  /\ \/ /\ ~root.made
        /\ root' = [root EXCEPT !.made = TRUE]
        /\ pc' = "workspace"
        /\ UNCHANGED memory
     \/ /\ root' \in {root, [root EXCEPT !.made = TRUE]}
        /\ memory' = FailingFirst(memory, Failing("workspace-setup", "workspace-setup"))
        /\ pc' = "finalize"
  /\ UNCHANGED <<processVars, invocations, stateRoot, carrier, calls, answer>>

\* A failure may leave part of the workspace, which is not removed.
CreateModelWorkspace ==
  /\ pc = "workspace"
  /\ \/ /\ root' = [root EXCEPT !.workspace = TRUE]
        /\ memory' = [Passing({"workspace-setup"}) EXCEPT !.workspaceKnown = TRUE]
        /\ pc' = "precheck"
     \/ /\ \E part \in BOOLEAN : root' = [root EXCEPT !.workspace = part]
        /\ memory' = FailingFirst(memory, Failing("workspace-setup", "workspace-setup"))
        /\ pc' = "finalize"
  /\ UNCHANGED <<processVars, invocations, stateRoot, carrier, calls, answer>>

ValidateAuthCarrier ==
  /\ pc = "precheck"
  /\ \/ memory' = Passing({"auth-carrier-precheck"}) /\ pc' = "setup"
     \/ /\ memory' = FailingFirst(memory, Failing("auth-carrier-precheck", "auth-carrier"))
        /\ pc' = "remove"
  /\ UNCHANGED <<processVars, invocations, root, stateRoot, carrier, calls, answer>>

\* withEphemeralCodexState up to its action: the carrier is validated and captured;
\* the directory is made, and filled; each of the three may fail.
SetUpEphemeralState ==
  /\ pc = "setup"
  /\ \/ /\ memory' = FailingFirst(memory, Failing("ephemeral-state-setup", "ephemeral-state-setup"))
        /\ pc' = "remove"
        /\ UNCHANGED stateRoot
     \/ memory' = FailingCleanup(memory) /\ pc' = "remove" /\ UNCHANGED stateRoot
     \/ /\ memory' = [memory EXCEPT !.before = carrier, !.setupFailed = TRUE]
        /\ stateRoot' = TRUE
        /\ pc' = "cleanup"
     \/ /\ memory' = [Passing({"ephemeral-state-setup"}) EXCEPT !.before = carrier]
        /\ stateRoot' = TRUE
        /\ pc' = "commit"
  /\ UNCHANGED <<processVars, invocations, root, carrier, calls, answer>>

\* A mistake: the call is made although its slot could not be committed.
CommitBestEffort ==
  /\ pc = "commit"
  /\ root' \in {root, [root EXCEPT !.marker = TRUE]}
  /\ memory' = [Passing({"call-slot-commit"}) EXCEPT !.committed = TRUE]
  /\ pc' = "call"
  /\ UNCHANGED <<processVars, invocations, stateRoot, carrier, calls, answer>>

\* The marker is opened exclusively, written and synced; a failure after the open
\* leaves it behind.  Only a slot known to be committed is used.
CommitCallSlot ==
  /\ pc = "commit"
  /\ \/ /\ ~root.marker
        /\ root' = [root EXCEPT !.marker = TRUE]
        /\ memory' = [Passing({"call-slot-commit"}) EXCEPT !.committed = TRUE]
        /\ pc' = "call"
     \/ /\ \E written \in BOOLEAN : root' = [root EXCEPT !.marker = @ \/ written]
        /\ memory' = FailingFirst(memory, Failing("call-slot-commit", "ephemeral-state-setup"))
        /\ pc' = "cleanup"
  /\ UNCHANGED <<processVars, invocations, stateRoot, carrier, calls, answer>>

-----------------------------------------------------------------------------
(* The call and what is made of it.                                            *)

StartCall ==
  /\ pc = "call"
  /\ SpawnThrows \/ SpawnStarts
  /\ calls' = calls + 1
  /\ pc' = "calling"
  /\ UNCHANGED <<invocations, root, stateRoot, carrier, memory, answer>>

\* resultClassStage.
ClassStage(class) ==
  CASE class \in {"process-spawn", "stdin-write", "process-group-cleanup", "output-utf8"} -> class
    [] class = "timeout" -> "process-wait"
    [] class = "output-limit" -> "output-budget"
    [] class \in {"nonzero-exit", "signal"} -> "process-exit"

\* A mistake: the class is marked where its stage should be.
PassedClass(class) == IF class = "qualified" THEN {} ELSE {class}

\* markTransportStages: what a class says of the stages after the input.
PassedAfterInput(class) ==
  CASE class = "qualified" ->
         {"process-wait", "output-budget", "process-exit", "process-group-cleanup", "output-utf8"}
    [] class \in {"nonzero-exit", "signal"} -> {"process-wait", "output-budget"}
    [] class = "process-group-cleanup" -> {"process-wait", "output-budget", "process-exit"}
    [] class = "output-utf8" ->
         {"process-wait", "output-budget", "process-exit", "process-group-cleanup"}
    [] OTHER -> {}

TransportStages == (IF child.started THEN {"process-spawn"} ELSE {})
                     \cup (IF run.stdinWritten THEN {"stdin-write"} ELSE {})
                     \cup PassedAfterInput(run.class)

\* The observation enters the report; the streams are kept in the diagnostic root,
\* and when that fails the failure is one of cleanup.
ApplyProcessObservation ==
  /\ pc = "calling" /\ runner = "qualified" /\ run.pc = "settled"
  /\ LET seen == Passing(TransportStages)
         judged == IF run.class = "qualified" THEN seen
                   ELSE FailingFirst(seen, Failing(ClassStage(run.class), run.class)) IN
     memory' \in {judged, [judged EXCEPT !.failure = Failing("state-cleanup", "state-cleanup")]}
  /\ pc' = "cleanup"
  /\ UNCHANGED <<processVars, invocations, root, stateRoot, carrier, calls, answer>>

\* The ephemeral state goes, or the carrier is not even looked at.
RemoveEphemeralState ==
  /\ pc = "cleanup"
  /\ \/ stateRoot' = FALSE /\ pc' = "recheck" /\ UNCHANGED memory
     \/ memory' = FailingCleanup(memory) /\ pc' = "remove" /\ UNCHANGED stateRoot
  /\ UNCHANGED <<processVars, invocations, root, carrier, calls, answer>>

\* A mistake: the first failure stands here too.
CarrierFailureIfFirst(m) ==
  FailingFirst(m, Failing("auth-carrier-recheck", "auth-carrier-changed"))
CarrierFailure(m) == [m EXCEPT !.failure = Failing("auth-carrier-recheck", "auth-carrier-changed")]

\* The carrier has to be what it was: a change outranks every other failure.
RecheckAuthCarrier ==
  /\ pc = "recheck"
  /\ memory' = IF carrier # memory.before THEN CarrierFailure(memory)
               ELSE IF memory.setupFailed
                 THEN FailingFirst(memory,
                        Failing("ephemeral-state-setup", "ephemeral-state-setup"))
               ELSE Passing({"state-cleanup", "auth-carrier-recheck"})
  /\ pc' = "judge"
  /\ UNCHANGED <<processVars, invocations, root, stateRoot, carrier, calls, answer>>

\* Trace, identity, payload: the first that is wrong.  An unexpected trace is
\* reported with as many events as it has.
JudgeOutput ==
  /\ pc = "judge"
  /\ IF memory.failure = NoFailure
       THEN \/ memory' = [Passing({"jsonl-trace", "model-identity", "result-schema"})
                            EXCEPT !.events = 4]
            \/ \E n \in {4, 1024, 1025} :
                 memory' = FailingFirst([memory EXCEPT !.events = n],
                                        Failing("jsonl-trace", "jsonl-trace"))
            \/ memory' = FailingFirst([Passing({"jsonl-trace"}) EXCEPT !.events = 4],
                                      Failing("model-identity", "model-identity"))
            \/ memory' = FailingFirst([Passing({"jsonl-trace", "model-identity"})
                                         EXCEPT !.events = 4],
                                      Failing("result-schema", "result-schema"))
       ELSE UNCHANGED memory
  /\ pc' = "remove"
  /\ UNCHANGED <<processVars, invocations, root, stateRoot, carrier, calls, answer>>

RemoveModelWorkspace ==
  /\ pc = "remove"
  /\ \/ /\ root' = [root EXCEPT !.workspace = FALSE]
        /\ memory' = [memory EXCEPT !.workspaceRemoved = TRUE]
     \/ memory' = FailingCleanup(memory) /\ UNCHANGED root
  /\ pc' = "finalize"
  /\ UNCHANGED <<processVars, invocations, stateRoot, carrier, calls, answer>>

-----------------------------------------------------------------------------
(* The report.                                                                 *)

\* finalizeReport: without a failure every stage has to have passed.
Finalized(m) ==
  IF m.failure # NoFailure \/ m.passed = StageSet THEN m.failure
  ELSE Failing(CHOOSE s \in StageSet \ m.passed :
                 \A t \in StageSet \ m.passed : Position(s) =< Position(t),
               "unknown-terminal-failure")

ClassOf(failure) == IF failure = NoFailure THEN "qualified" ELSE failure.class

\* classStages of the validator.
AdmittedStages(class) ==
  CASE class = "auth-carrier" -> {"auth-carrier-precheck"}
    [] class = "ephemeral-state-setup" -> {"ephemeral-state-setup", "call-slot-commit"}
    [] class \in {"timeout", "output-limit", "nonzero-exit", "signal"} -> {ClassStage(class)}
    [] class = "auth-carrier-changed" -> {"auth-carrier-recheck"}
    [] class = "unknown-terminal-failure" -> StageSet
    [] OTHER -> {class}

\* No stage but cleanup passes after the one that failed.
StagesInOrder(failure, passed) ==
  \A s \in passed \ {failure.stage, "state-cleanup", "auth-carrier-recheck"} :
    Position(s) < Position(failure.stage)

\* validateAuthorCallQualificationReport, as far as an outcome can fail it.
Admissible(m, failure) ==
  /\ m.events =< 1024
  /\ IF failure = NoFailure
       THEN /\ m.committed /\ m.workspaceRemoved /\ m.events = 4
            /\ run.exit = "zero" /\ ~run.timedOut /\ ~run.terminating
            /\ ~run.sigterm /\ ~run.sigkill /\ run.absent
       ELSE /\ failure.stage \in AdmittedStages(failure.class)
            /\ StagesInOrder(failure, m.passed)

FinalizeReport ==
  /\ pc = "finalize"
  /\ answer' = IF Admissible(memory, Finalized(memory))
                 THEN ClassOf(Finalized(memory)) ELSE "rejected"
  /\ pc' = "done"
  /\ UNCHANGED <<processVars, invocations, root, stateRoot, carrier, memory, calls>>

-----------------------------------------------------------------------------
(* A bare call of spawnWithInput, and the environment.                         *)

PlainCall ==
  /\ runner = "plain" /\ pc = "idle"
  /\ SpawnThrows \/ SpawnStarts
  /\ pc' = "calling" /\ calls' = calls + 1
  /\ UNCHANGED <<invocations, root, stateRoot, carrier, memory, answer>>

PlainReturn ==
  /\ runner = "plain" /\ pc = "calling" /\ run.pc = "settled"
  /\ answer' = run.class /\ pc' = "done"
  /\ UNCHANGED <<processVars, invocations, root, stateRoot, carrier, memory, calls>>

InTheCall == pc \in {"commit", "call", "calling", "cleanup", "recheck"}

\* The owner logs in again, or the provider's process renews the credential.
CarrierChanges ==
  /\ carrier = "original"
  /\ carrier' = "changed"
  /\ memory' = [memory EXCEPT !.touched = InTheCall]
  /\ UNCHANGED <<processVars, pc, invocations, root, stateRoot, calls, answer>>

\* The controller is killed; the child is detached and goes on.
Crash ==
  /\ runner = "qualified" /\ pc \notin {"idle", "done", "crashed"}
  /\ pc' = "crashed"
  /\ run' = NoRun /\ timers' = {}
  /\ UNCHANGED <<runner, child, invocations, root, stateRoot, carrier, memory, calls, answer>>

ControllerStep ==
  \/ VerifyToolingManifest
  \/ IdentityPreflight
  \/ CreateDiagnosticRoot
  \/ CreateModelWorkspace
  \/ ValidateAuthCarrier
  \/ SetUpEphemeralState
  \/ CommitCallSlot
  \/ StartCall
  \/ ApplyProcessObservation
  \/ RemoveEphemeralState
  \/ RecheckAuthCarrier
  \/ JudgeOutput
  \/ RemoveModelWorkspace
  \/ FinalizeReport

Next ==
  \/ Begin
  \/ ControllerStep
  \/ RunnerStep /\ UNCHANGED callVars
  \/ ChildStep /\ UNCHANGED callVars
  \/ PlainCall
  \/ PlainReturn
  \/ CarrierChanges
  \/ Crash

\* The controller runs, and timers fire; nothing is asked of the child.
Fairness == WF_vars(ControllerStep) /\ WF_vars(RunnerStep /\ UNCHANGED callVars)

Spec == Init /\ [][Next]_vars
FairSpec == Spec /\ Fairness

-----------------------------------------------------------------------------
(* Properties.                                                                 *)

\* Of one diagnostic root at most one call is ever made, over any crashes and
\* restarts, and a call that was made has its slot on disk and its root kept.
OneCallPerRoot ==
  runner = "qualified" =>
    /\ calls =< 1
    /\ calls = 1 => root.made /\ root.marker

\* A call reported good was good as the operating system saw it: the child read its
\* input, ended by itself with 0 within the limits, and nothing of its group is left.
QualifiedIsClean ==
  (pc = "done" /\ answer = "qualified") =>
    /\ child.exit = "zero" /\ ~child.overflowed /\ ~child.signalled /\ ~GroupExists
    /\ runner = "qualified" =>
         child.inputRead /\ root.marker /\ ~root.workspace /\ ~stateRoot /\ ~memory.touched

\* A change of the authentication carrier during the call is what the report is
\* about, unless the ephemeral state could not be removed: no failure of the call,
\* of the diagnostics or of the workspace hides it.
CarrierChangeDominates ==
  (pc = "done" /\ runner = "qualified" /\ memory.touched) =>
    \/ answer = "auth-carrier-changed"
    \/ stateRoot /\ answer = "state-cleanup"

\* However the child behaves, the controller ends, and its child was told to.
ReportEventually ==
  (runner = "qualified" /\ pc = "tooling") ~> (pc \in {"done", "crashed"})

=============================================================================
