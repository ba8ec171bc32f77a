-------------------------- MODULE EvaluationFreeze --------------------------
(* runEvaluationFreeze (tooling/codex-evaluation-freeze.mjs; the second version,
   codex-evaluation-freeze-v2.mjs, has the same steps over other documents): two model
   calls, an author's and an auditor's, each announced by a marker before it is made.
   What each returns is staged, made read-only and renamed into a private root; the
   end is a release or a terminal record, and the root is never used again.

   Any step may fail, the process may be killed, and someone of the same user may
   change what is frozen.  Documents are told apart by whether they are intact, and
   errors of one kind (of a write, of a freeze) have one code.                     *)
EXTENDS Naturals, FiniteSets

CONSTANTS
  MaxTampers,   \* bound of the model: changes of frozen directories and of the tools
  MaxStarts     \* bound of the model: starts on the private root

ASSUME FreezeAssumption == MaxTampers \in Nat /\ MaxStarts \in Nat

VARIABLES
  step,          \* the step that is next
  privateRoot,   \* the private root was made
  markers,       \* the numbered files in it, and the traces in logs/
  frozen,        \* [directory -> [state, intact]]
  terminal,      \* the terminal record: [state, code, calls]
  toolchain,     \* "same" or "changed" since it was captured
  run,           \* the variables of the process: [callCount, decision, code]
  freezeAnswer,  \* what it printed: "accepted", "rejected", an error code, or "none"
  callsMade,     \* model calls that were started, ever
  tampers, starts,
  coreHeld       \* history: since the auditor answered the core was once intact

freezeVars == <<step, privateRoot, markers, frozen, terminal, toolchain, run,
                freezeAnswer, callsMade, tampers, starts, coreHeld>>

Directories == {"core", "audit", "release"}
Markers == {"00-intent", "01-preflight", "02-AUTHOR-CALL_CONSUMED", "03-core-frozen",
            "04-AUDITOR-CALL_CONSUMED", "author-trace", "auditor-trace"}
Absent == [state |-> "absent", intact |-> TRUE]
NoTerminal == [state |-> "absent", code |-> "none", calls |-> 0]
FreshRun == [callCount |-> 0, decision |-> "none", code |-> "none"]

FreezeInit ==
  /\ step = "ended" /\ privateRoot = FALSE
  /\ markers = {} /\ frozen = [d \in Directories |-> Absent] /\ terminal = NoTerminal
  /\ toolchain = "same" /\ run = FreshRun /\ freezeAnswer = "none"
  /\ callsMade = 0 /\ tampers = 0 /\ starts = 0 /\ coreHeld = FALSE

-----------------------------------------------------------------------------
(* The shapes of a step.                                                        *)

\* An error is caught and recorded with its code; one that is not an
\* EvaluationFreezeError has the code of no step.
Caught(code) == step' = "catch" /\ run' = [run EXCEPT !.code = code]
GoesOn(to) == step' = to /\ UNCHANGED run
OnlyRoot == UNCHANGED <<privateRoot, toolchain, freezeAnswer, callsMade, tampers, starts>>

\* writeExclusive: a file that fails half-way stays.
WritesMarker(at, name, to) ==
  /\ step = at
  /\ \/ markers' = markers \cup {name} /\ GoesOn(to)
     \/ markers' \in {markers, markers \cup {name}} /\ Caught("PRIVATE_WRITE")
  /\ UNCHANGED <<frozen, terminal, coreHeld>> /\ OnlyRoot

\* A mistake: a call is not counted.
NotCounted(r) == r
\* callCount += 1
Counted(r) == [r EXCEPT !.callCount = @ + 1]

\* The marker of a call, the sync of its directory, and then the count.
Consumes(at, name, to) ==
  /\ step = at
  /\ \/ markers' = markers \cup {name} /\ step' = to /\ run' = Counted(run)
     \/ markers' \in {markers, markers \cup {name}} /\ Caught("PRIVATE_WRITE")
  /\ UNCHANGED <<frozen, terminal, coreHeld>> /\ OnlyRoot

Stages(at, d, to) ==
  /\ step = at
  /\ \/ frozen' = [frozen EXCEPT ![d] = [state |-> "staged", intact |-> TRUE]] /\ GoesOn(to)
     \/ frozen' \in {frozen, [frozen EXCEPT ![d].state = "staged"]} /\ Caught("PRIVATE_WRITE")
  /\ UNCHANGED <<markers, terminal, coreHeld>> /\ OnlyRoot

\* freezeDirectory: modes, a sync, the rename, two syncs; a sync after the rename may
\* fail too.
Freezes(at, d, to) ==
  /\ step = at
  /\ \/ frozen' = [frozen EXCEPT ![d].state = "frozen"] /\ GoesOn(to)
     \/ frozen' \in {frozen, [frozen EXCEPT ![d].state = "frozen"]} /\ Caught("PRIVATE_FREEZE")
  /\ UNCHANGED <<markers, terminal, coreHeld>> /\ OnlyRoot

Verifies(at, ok, code, to) ==
  /\ step = at
  /\ IF ok THEN GoesOn(to) ELSE Caught(code)
  /\ UNCHANGED <<markers, frozen, terminal, coreHeld>> /\ OnlyRoot

-----------------------------------------------------------------------------
(* The steps.                                                                   *)

\* The command line and the repository are looked at first.
StartFreeze ==
  /\ step \in {"ended", "killed"} /\ starts < MaxStarts
  /\ starts' = starts + 1
  /\ run' = FreshRun
  /\ \/ step' = "inputs" /\ freezeAnswer' = "none"
     \/ step' = "ended" /\ freezeAnswer' = "refused"
  /\ UNCHANGED <<privateRoot, markers, frozen, terminal, toolchain, callsMade, tampers, coreHeld>>

\* What is refused before the root is made leaves nothing.
ChecksFirst(at, to) ==
  /\ step = at
  /\ \/ step' = to /\ UNCHANGED freezeAnswer
     \/ step' = "ended" /\ freezeAnswer' = "refused"
  /\ UNCHANGED <<privateRoot, markers, frozen, terminal, toolchain, run, callsMade, tampers,
                 starts, coreHeld>>

ValidatePublicAnchors == ChecksFirst("inputs", "projection")
\* The projection is held in memory from here on.
ValidateProjectionFiles == ChecksFirst("projection", "preflight-run")
ValidateCodexPreflight == ChecksFirst("preflight-run", "rg")
VerifyRgBinary == ChecksFirst("rg", "identity")

\* What the tools are from here on must be what they are when they are looked at again.
CaptureToolchainIdentity ==
  /\ step = "identity"
  /\ \/ toolchain' = "same" /\ step' = "root" /\ UNCHANGED freezeAnswer
     \/ step' = "ended" /\ freezeAnswer' = "refused" /\ UNCHANGED toolchain
  /\ UNCHANGED <<privateRoot, markers, frozen, terminal, run, callsMade, tampers, starts, coreHeld>>

\* The root is made exclusively; an error after that leaves it there, empty.
CreatePrivateRoot ==
  /\ step = "root"
  /\ \/ ~privateRoot /\ privateRoot' = TRUE /\ step' = "intent" /\ UNCHANGED freezeAnswer
     \/ /\ privateRoot' \in BOOLEAN /\ (privateRoot => privateRoot')
        /\ step' = "ended" /\ freezeAnswer' = "refused"
  /\ UNCHANGED <<markers, frozen, terminal, toolchain, run, callsMade, tampers, starts, coreHeld>>

WriteIntent == WritesMarker("intent", "00-intent", "preflight")
WritePreflight == WritesMarker("preflight", "01-preflight", "author-consumed")
ConsumeAuthorCall == Consumes("author-consumed", "02-AUTHOR-CALL_CONSUMED", "author-call")

\* defaultModelCall: the child, its ephemeral state and its workspace, any of which may
\* fail before the child was started or after.
Calls(at, to, code) ==
  /\ step = at
  /\ \/ callsMade' = callsMade + 1 /\ GoesOn(to)
     \/ callsMade' \in {callsMade, callsMade + 1} /\ Caught(code)
  /\ UNCHANGED <<privateRoot, markers, frozen, terminal, toolchain, freezeAnswer, tampers, starts>>

\* An answer that may be good or not, under one of some codes.
Judges(at, to, codes) ==
  /\ step = at
  /\ GoesOn(to) \/ \E code \in codes : Caught(code)
  /\ UNCHANGED <<markers, frozen, terminal, coreHeld>> /\ OnlyRoot

AuthorCall == Calls("author-call", "author-result", "AUTHOR_MODEL_CALL") /\ UNCHANGED coreHeld
ValidateAuthorExecution == Judges("author-result", "author-trace", {"AUTHOR_MODEL_RESULT"})
WriteAuthorTrace == WritesMarker("author-trace", "author-trace", "author-contract")
ParseProviderPayload == Judges("author-contract", "contract", {"AUTHOR_PAYLOAD_INVALID"})
ValidateEvaluationContract == Judges("contract", "core-staging", {"AUTHOR_RESULT_INVALID"})

StageCore == Stages("core-staging", "core", "core-freeze")
FreezeCore == Freezes("core-freeze", "core", "core-verify")

\* A mistake: the frozen core is looked at once, when it was frozen.
CoreIntactAtFirst == step # "core-verify" \/ frozen["core"].intact
\* verifyFrozenCore.
CoreIntact == frozen["core"].intact

VerifyCore == Verifies("core-verify", CoreIntact, "FROZEN_CORE_CHANGED", "core-frozen")
WriteCoreFrozen == WritesMarker("core-frozen", "03-core-frozen", "toolchain")
CheckToolchain ==
  Verifies("toolchain", toolchain = "same", "TOOLCHAIN_CHANGED", "auditor-consumed")
ConsumeAuditorCall == Consumes("auditor-consumed", "04-AUDITOR-CALL_CONSUMED", "auditor-call")

\* The auditor sees the core as the process remembers it, not as it is on disk.
AuditorCall ==
  /\ Calls("auditor-call", "auditor-result", "AUDITOR_MODEL_CALL")
  /\ coreHeld' = (callsMade' = 2 /\ frozen["core"].intact)

\* It has to be a session of its own.
ValidateAuditorExecution ==
  Judges("auditor-result", "auditor-trace", {"AUDITOR_MODEL_RESULT", "SESSION_NOT_INDEPENDENT"})
WriteAuditorTrace == WritesMarker("auditor-trace", "auditor-trace", "core-verify-again")

VerifyCoreAgain ==
  Verifies("core-verify-again", CoreIntact, "FROZEN_CORE_CHANGED", "audit-validate")

\* The answer has to name the core's manifest and counts; its decision is then the run's.
ValidateAudit ==
  /\ step = "audit-validate"
  /\ \/ /\ \E decision \in {"accept", "reject"} : run' = [run EXCEPT !.decision = decision]
        /\ step' = "toolchain-again"
     \/ Caught("AUDIT_INVALID")
  /\ UNCHANGED <<markers, frozen, terminal, coreHeld>> /\ OnlyRoot

CheckToolchainAgain ==
  Verifies("toolchain-again", toolchain = "same", "TOOLCHAIN_CHANGED", "audit-staging")
StageAudit == Stages("audit-staging", "audit", "audit-freeze")
FreezeAudit == Freezes("audit-freeze", "audit", "audit-verify")
VerifyAudit ==
  Verifies("audit-verify", frozen["audit"].intact, "FROZEN_AUDIT_CHANGED", "core-verify-last")

\* A mistake: whatever the auditor decided, the release is made.
ReleasedAnyway == "release-staging"
\* The auditor's decision.
Decided == IF run.decision = "accept" THEN "release-staging" ELSE "terminal"
VerifyCoreLast == Verifies("core-verify-last", CoreIntact, "FROZEN_CORE_CHANGED", Decided)

StageRelease == Stages("release-staging", "release", "release-freeze")
FreezeRelease == Freezes("release-freeze", "release", "release-verify")
VerifyRelease ==
  Verifies("release-verify", frozen["release"].intact, "RELEASE_CHANGED", "close-root")

\* recordTerminal, of a rejection or in the catch of any error: once, and not over the
\* staging directory that an earlier attempt left.
Recorded(code) ==
  IF terminal.state # "absent" THEN {terminal}
  ELSE {[state |-> s, code |-> code, calls |-> run.callCount] : s \in {"staged", "frozen"}}
         \cup {terminal}

RecordRejection ==
  /\ step = "terminal"
  /\ \/ terminal' = [state |-> "frozen", code |-> "AUDIT_REJECTED", calls |-> run.callCount]
        /\ GoesOn("close-root")
     \/ terminal' \in Recorded("AUDIT_REJECTED") /\ Caught("PRIVATE_WRITE")
  /\ UNCHANGED <<markers, frozen, coreHeld>> /\ OnlyRoot

\* The markers and the root become read-only, and the status is printed.
CloseRoot ==
  /\ step = "close-root"
  /\ \/ /\ step' = "ended"
        /\ freezeAnswer' = IF run.decision = "accept" THEN "accepted" ELSE "rejected"
        /\ UNCHANGED run
     \/ Caught("EVALUATION_FREEZE_FAILURE") /\ UNCHANGED freezeAnswer
  /\ UNCHANGED <<privateRoot, markers, frozen, terminal, toolchain, callsMade, tampers, starts,
                 coreHeld>>

\* The code stands whether or not it could be recorded.
CatchFailure ==
  /\ step = "catch"
  /\ terminal' \in Recorded(run.code)
  /\ step' = "ended" /\ freezeAnswer' = run.code
  /\ UNCHANGED <<privateRoot, markers, frozen, toolchain, run, callsMade, tampers, starts,
                 coreHeld>>

FreezeKilled ==
  /\ step \notin {"ended", "killed"}
  /\ step' = "killed"
  /\ UNCHANGED <<privateRoot, markers, frozen, terminal, toolchain, run, freezeAnswer,
                 callsMade, tampers, starts, coreHeld>>

\* Someone of the same user changes a directory, or changes it back, or edits a module
\* of the tools.
Tamper ==
  /\ tampers < MaxTampers
  /\ tampers' = tampers + 1
  /\ \/ /\ \E d \in Directories :
             /\ frozen[d].state # "absent"
             /\ frozen' = [frozen EXCEPT ![d].intact = ~@]
        /\ coreHeld' = (coreHeld \/ (frozen'["core"].intact /\ callsMade = 2))
        /\ UNCHANGED toolchain
     \/ toolchain' = "changed" /\ UNCHANGED <<frozen, coreHeld>>
  /\ UNCHANGED <<step, privateRoot, markers, terminal, run, freezeAnswer, callsMade, starts>>

FreezeNext ==
  \/ StartFreeze
  \/ ValidatePublicAnchors
  \/ ValidateProjectionFiles
  \/ ValidateCodexPreflight
  \/ VerifyRgBinary
  \/ CaptureToolchainIdentity
  \/ CreatePrivateRoot
  \/ WriteIntent
  \/ WritePreflight
  \/ ConsumeAuthorCall
  \/ AuthorCall
  \/ ValidateAuthorExecution
  \/ WriteAuthorTrace
  \/ ParseProviderPayload
  \/ ValidateEvaluationContract
  \/ StageCore
  \/ FreezeCore
  \/ VerifyCore
  \/ WriteCoreFrozen
  \/ CheckToolchain
  \/ ConsumeAuditorCall
  \/ AuditorCall
  \/ ValidateAuditorExecution
  \/ WriteAuditorTrace
  \/ VerifyCoreAgain
  \/ ValidateAudit
  \/ CheckToolchainAgain
  \/ StageAudit
  \/ FreezeAudit
  \/ VerifyAudit
  \/ VerifyCoreLast
  \/ StageRelease
  \/ FreezeRelease
  \/ VerifyRelease
  \/ RecordRejection
  \/ CloseRoot
  \/ CatchFailure
  \/ FreezeKilled
  \/ Tamper

FreezeSpec == FreezeInit /\ [][FreezeNext]_freezeVars

-----------------------------------------------------------------------------
(* Properties.                                                                  *)

\* A release exists only for a core that an auditor accepted, in the second of exactly
\* two calls, and that was on disk as the author's at some moment after that: a change
\* made before the auditor answered, and not undone, never gets one.
ReleaseIsEarned ==
  frozen["release"].state # "absent" =>
    /\ callsMade = 2 /\ markers = Markers
    /\ run.decision = "accept" \/ starts > 1
    /\ coreHeld

\* Killed or not, started again or not: no call without its marker, never more than two,
\* and no terminal record that counts fewer than were made.
CallsAreAccounted ==
  /\ callsMade >= 1 => "02-AUTHOR-CALL_CONSUMED" \in markers
  /\ callsMade >= 2 => "04-AUDITOR-CALL_CONSUMED" \in markers
  /\ callsMade =< 2
  /\ terminal.state # "absent" => terminal.calls >= callsMade

\* What is printed is what is on disk: an accepted run has a release and no terminal
\* record, a rejected one the record of the rejection and no release, and the record of
\* a failure bears its code, unless the rejection had been recorded before.
AnswerIsOnDisk ==
  step = "ended" =>
    /\ freezeAnswer = "accepted" =>
         frozen["release"].state = "frozen" /\ terminal.state = "absent"
    /\ freezeAnswer = "rejected" =>
         frozen["release"].state = "absent" /\ terminal.code = "AUDIT_REJECTED"
    /\ (freezeAnswer \notin {"none", "refused", "accepted", "rejected"}
          /\ terminal.state # "absent") =>
         terminal.code \in {freezeAnswer, "AUDIT_REJECTED"}

=============================================================================
