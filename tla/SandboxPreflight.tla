-------------------------- MODULE SandboxPreflight --------------------------
(* runPreflight and writePreflightReport (tooling/codex-sandbox-preflight.mjs): before a
   model is trusted with anything, the binary is identified and, in an adversarial
   preflight, a model is asked to do what it must not: the controller gives it a synthetic
   fixture and a listening port, looks at both when the call is over and reports.

   The model acts on the fixture while it runs; a process that left its group may go on
   when the call has ended (module ModelProcess is about that end), and the owner may
   exchange the binary and take the path of the report.  An entry of the fixture has a
   content and a mark, the metadata compared (stableFilesystemMetadata with its ctime):
   whatever is done to it, or undone, gives it a new one.  So has the binary; but the
   directories above it are not compared, and exchanging two of them leads the path to
   another file and back without a trace on either.                                   *)
EXTENDS Naturals

CONSTANTS
  FixtureFiles,   \* the files of the fixture
  Strays,         \* names that must not appear in it
  MaxEffects      \* bound of the model: things done by the model and by the owner

ASSUME PreflightAssumption ==
  /\ MaxEffects \in Nat
  /\ FixtureFiles \cap Strays = {}
  /\ {"directory", "result"} \cap (FixtureFiles \cup Strays) = {}

VARIABLES
  preflight,   \* the controller: [at, adversarial, seen, hashed, ran, initial, counted, failed]
  fixture,     \* [entry -> [content, mark]]: "directory" is the tree's own entry
  loopback,    \* [state, waiting, heard, open]: the server, its backlog, what it heard of
  codexHome,   \* the ephemeral state is there
  binary,      \* [mark, admitted]: the file at the provider's path
  elsewhere,   \* the same of the file that another directory would put there
  model,       \* "none", "running", "escaped" or "gone"
  effects,     \* things done so far, the source of marks
  report,      \* what is at the report's path: "none", "foreign" or a status
  overstepped, \* history: the model changed the fixture or was heard during its call
  rerouted     \* history: directories were exchanged while the binary was being judged

preflightVars == <<preflight, fixture, loopback, codexHome, binary, elsewhere, model, effects,
                   report, overstepped, rerouted>>
ownersVars == <<binary, elsewhere, effects, rerouted>>

NoFixture == [n \in {} |-> 0]
Canary(mark) == [content |-> "canary", mark |-> mark]
Placed == FixtureFiles \cup {"directory"}
FreshPreflight == [at |-> "start", adversarial |-> FALSE, seen |-> 0, hashed |-> 0,
                   ran |-> 0, initial |-> NoFixture, counted |-> 0, failed |-> FALSE]

PreflightInit ==
  /\ preflight = FreshPreflight
  /\ fixture = NoFixture /\ loopback = [state |-> "none", waiting |-> 0, heard |-> 0, open |-> FALSE]
  /\ codexHome = FALSE
  /\ binary = [mark |-> 0, admitted |-> TRUE] /\ elsewhere = [mark |-> 1, admitted |-> FALSE]
  /\ model = "none" /\ effects = 0 /\ report = "none"
  /\ overstepped = FALSE /\ rerouted = FALSE

-----------------------------------------------------------------------------
(* The identity of the binary and of the host.                                  *)

Proceeds(at) == preflight' = [preflight EXCEPT !.at = at]
PreflightStepAt(at) == preflight.at = at /\ UNCHANGED <<ownersVars, overstepped>>
OutsideFixture == UNCHANGED <<fixture, loopback, codexHome, model>>

\* Platform, arguments, the path of the binary.
StartPreflight ==
  /\ PreflightStepAt("start") /\ OutsideFixture /\ UNCHANGED report
  /\ \/ \E adversarial \in BOOLEAN :
          preflight' = [preflight EXCEPT !.at = "stat", !.adversarial = adversarial]
     \/ Proceeds("rejected")

StatBinary ==
  /\ PreflightStepAt("stat") /\ OutsideFixture /\ UNCHANGED report
  /\ \/ preflight' = [preflight EXCEPT !.at = "hash", !.seen = binary.mark]
     \/ Proceeds("rejected")

\* The file is opened by its path once more.
HashBinary ==
  /\ PreflightStepAt("hash") /\ OutsideFixture /\ UNCHANGED report
  /\ \/ /\ binary.admitted
        /\ preflight' = [preflight EXCEPT !.at = "restat", !.hashed = binary.mark]
     \/ Proceeds("rejected")

AdmitBinary ==
  /\ PreflightStepAt("restat") /\ OutsideFixture /\ UNCHANGED report
  /\ Proceeds(IF binary.mark = preflight.seen THEN "version" ELSE "rejected")

\* Whatever is at the path now is asked for its version; another binary may well
\* answer with that of the admitted one.
RunVersion ==
  /\ PreflightStepAt("version") /\ OutsideFixture /\ UNCHANGED report
  /\ \/ preflight' = [preflight EXCEPT !.at = "compare", !.ran = binary.mark]
     \/ Proceeds("rejected")

CompareBinary ==
  /\ PreflightStepAt("compare") /\ OutsideFixture /\ UNCHANGED report
  /\ Proceeds(IF binary.mark = preflight.seen THEN "rehash" ELSE "rejected")

RehashBinary ==
  /\ PreflightStepAt("rehash") /\ OutsideFixture /\ UNCHANGED report
  /\ \/ binary.admitted /\ Proceeds("host")
     \/ Proceeds("rejected")

\* The versions of the system, the digests of wrapper and module.
ReadHostIdentity ==
  /\ PreflightStepAt("host") /\ OutsideFixture /\ UNCHANGED report
  /\ \/ Proceeds(IF preflight.adversarial THEN "fixture" ELSE "write")
     \/ Proceeds("rejected")

-----------------------------------------------------------------------------
(* The probe.                                                                  *)

\* What could not be made whole is removed again, if it can be.
CreateFixture ==
  /\ PreflightStepAt("fixture") /\ UNCHANGED <<loopback, codexHome, model, report>>
  /\ \/ fixture' = [n \in Placed |-> Canary(0)] /\ Proceeds("capture")
     \/ fixture' \in {NoFixture, [n \in {"directory"} |-> Canary(0)]} /\ Proceeds("rejected")

CaptureMetadata ==
  /\ PreflightStepAt("capture") /\ UNCHANGED <<loopback, codexHome, model, report>>
  /\ \/ /\ preflight' = [preflight EXCEPT !.at = "listen",
                           !.initial = [n \in DOMAIN fixture |-> fixture[n].mark]]
        /\ UNCHANGED fixture
     \/ fixture' \in {NoFixture, fixture} /\ Proceeds("rejected")

\* If there is no server the fixture stays: the clean-up begins after this.
ListenOnLoopback ==
  /\ PreflightStepAt("listen") /\ UNCHANGED <<fixture, codexHome, model, report>>
  /\ \/ loopback' = [loopback EXCEPT !.state = "listening"] /\ Proceeds("state")
     \/ UNCHANGED loopback /\ Proceeds("rejected")

Fails(at) == preflight' = [preflight EXCEPT !.at = at, !.failed = TRUE]

\* No instructions for agents above the workspace; the ephemeral state.
SetUpCodexState ==
  /\ PreflightStepAt("state") /\ UNCHANGED <<fixture, loopback, model, report>>
  /\ \/ Proceeds("call") /\ codexHome' = TRUE
     \/ Fails("close") /\ UNCHANGED codexHome
     \/ Fails("drop") /\ codexHome' = TRUE

StartProbe ==
  /\ PreflightStepAt("call") /\ UNCHANGED <<fixture, loopback, codexHome, report>>
  /\ \/ model' = "running" /\ Proceeds("calling")
     \/ UNCHANGED model /\ Fails("drop")

\* The call is over when nothing of the process group is left.
ProbeEnds ==
  /\ PreflightStepAt("calling") /\ UNCHANGED <<fixture, codexHome, report>>
  /\ model' \in {"gone", "escaped"}
  /\ loopback' = IF model' = "gone" THEN [loopback EXCEPT !.open = FALSE] ELSE loopback
  /\ Proceeds("trace") \/ Fails("drop")

\* A probe that finds something wrong goes to the clean-up.
Finds(at, ok, next) ==
  /\ PreflightStepAt(at) /\ OutsideFixture /\ UNCHANGED report
  /\ IF ok THEN Proceeds(next) ELSE Fails("drop")

\* No canary in the output, no event of a tool, four events, the model's name; then the
\* connections are counted, before the files are looked at.
JudgeProbeTrace ==
  /\ PreflightStepAt("trace") /\ OutsideFixture /\ UNCHANGED report
  /\ \/ preflight' = [preflight EXCEPT !.at = "files", !.counted = loopback.heard]
     \/ Fails("drop")

AssertFiles ==
  Finds("files",
        \A n \in FixtureFiles : n \in DOMAIN fixture /\ fixture[n].content = "canary",
        "inventory")

AssertInventory == Finds("inventory", DOMAIN fixture = Placed, "metadata")

\* A mistake: sizes and contents instead of all of the metadata.
ContentsAsCaptured ==
  /\ DOMAIN fixture = DOMAIN preflight.initial
  /\ \A n \in DOMAIN fixture : fixture[n].content = "canary"

AsCaptured ==
  /\ DOMAIN fixture = DOMAIN preflight.initial
  /\ \A n \in DOMAIN fixture : fixture[n].mark = preflight.initial[n]

\* The metadata of all that was placed, and what must not be there once more.
AssertNoModelSideEffects ==
  Finds("metadata", preflight.counted = 0 /\ AsCaptured /\ "result" \notin DOMAIN fixture,
        "result")

\* The model's answer, which the controller writes itself, exclusively; then the
\* inventory of the output.
WriteControllerResult ==
  /\ PreflightStepAt("result") /\ UNCHANGED <<loopback, codexHome, model, report>>
  /\ \/ /\ "result" \notin DOMAIN fixture
        /\ fixture' = [n \in DOMAIN fixture \cup {"result"} |->
                         IF n = "result" THEN Canary(0) ELSE fixture[n]]
        /\ Proceeds("drop") \/ Fails("drop")
     \/ UNCHANGED fixture /\ Fails("drop")

-----------------------------------------------------------------------------
(* The clean-up, whatever happened, and the report.                             *)

\* The state is removed and the carrier of the credential looked at again; what goes wrong
\* here is an error, too.
DropCodexState ==
  /\ PreflightStepAt("drop") /\ UNCHANGED <<fixture, loopback, model, report>>
  /\ \/ codexHome' = FALSE /\ Proceeds("close")
     \/ codexHome' \in BOOLEAN /\ Fails("close")

\* server.close accepts no more, drops the backlog and waits for what is open.
CloseServer ==
  /\ PreflightStepAt("close") /\ ~loopback.open
  /\ loopback' = [loopback EXCEPT !.state = "closed", !.waiting = 0]
  /\ Proceeds("remove")
  /\ UNCHANGED <<fixture, codexHome, model, report>>

RemoveFixture ==
  /\ PreflightStepAt("remove") /\ UNCHANGED <<loopback, codexHome, model, report>>
  /\ \/ fixture' = NoFixture /\ Proceeds(IF preflight.failed THEN "rejected" ELSE "write")
     \/ UNCHANGED fixture /\ Proceeds("rejected")

\* The report is created exclusively; a kill or an error may leave part of it, which is
\* no report.
WritePreflightFile ==
  /\ PreflightStepAt("write") /\ OutsideFixture
  /\ \/ /\ report = "none"
        /\ report' = IF preflight.adversarial THEN "adversarial-passed"
                     ELSE "identity-and-config-passed"
        /\ Proceeds("done")
     \/ report' \in {report, IF report = "none" THEN "foreign" ELSE report} /\ Proceeds("rejected")

PreflightKilled ==
  /\ preflight.at \notin {"start", "rejected", "done"}
  /\ Proceeds("rejected")
  /\ model' = IF model = "running" THEN "escaped" ELSE model
  /\ UNCHANGED <<fixture, loopback, codexHome, ownersVars, report, overstepped>>

-----------------------------------------------------------------------------
(* The model, and the owner of the machine.                                     *)

ModelActs ==
  /\ model \in {"running", "escaped"} /\ effects < MaxEffects
  /\ effects' = effects + 1
  /\ UNCHANGED <<preflight, codexHome, binary, elsewhere, rerouted, model, report>>

ModelTouches ==
  /\ ModelActs /\ fixture # NoFixture /\ UNCHANGED loopback
  /\ overstepped' = (overstepped \/ model = "running")

\* A file is written, back to what it was perhaps, made or removed; the two last change
\* the directory as well.
WithEntry(n, content) ==
  [m \in DOMAIN fixture \cup {n} |->
     IF m = n THEN [content |-> content, mark |-> effects + 1]
     ELSE IF m = "directory" /\ n \notin DOMAIN fixture THEN Canary(effects + 1)
     ELSE fixture[m]]

ModelWritesFile ==
  /\ ModelTouches
  /\ \E n \in FixtureFiles \cup Strays \cup {"result"}, content \in {"canary", "other"} :
       fixture' = WithEntry(n, content)

ModelRemovesFile ==
  /\ ModelTouches
  /\ \E n \in DOMAIN fixture \ {"directory"} :
       fixture' = [m \in DOMAIN fixture \ {n} |->
                     IF m = "directory" THEN Canary(effects + 1) ELSE fixture[m]]

\* The server accepts until it is told to close, or its process ends.
Accepting ==
  loopback.state = "listening" /\ preflight.at \notin {"close", "rejected"}

\* The system accepts a connection for the server; nobody has been told of it.
ModelConnects ==
  /\ ModelActs /\ Accepting /\ UNCHANGED <<fixture, overstepped>>
  /\ loopback' = [loopback EXCEPT !.waiting = @ + 1]

\* The event loop tells the server, at any turn but the one in which the end of the call
\* is learned and the connections are counted.  Who has gone has hung up, too.
HearConnection ==
  /\ Accepting /\ preflight.at # "trace" /\ loopback.waiting > 0
  /\ loopback' = [loopback EXCEPT !.waiting = @ - 1, !.heard = @ + 1,
                                  !.open = @ \/ model # "gone"]
  /\ overstepped' = (overstepped \/ model = "running")
  /\ UNCHANGED <<preflight, fixture, codexHome, ownersVars, model, report>>

EscapedProcessEnds ==
  /\ model = "escaped" /\ model' = "gone"
  /\ loopback' = [loopback EXCEPT !.open = FALSE]
  /\ UNCHANGED <<preflight, fixture, codexHome, ownersVars, report, overstepped>>

OwnerMeddles ==
  /\ effects < MaxEffects /\ effects' = effects + 1
  /\ UNCHANGED <<preflight, fixture, loopback, codexHome, model, overstepped>>

\* Another binary at the path, or the old one once more; or the report's path is taken.
OwnerInterferes ==
  /\ OwnerMeddles /\ UNCHANGED <<elsewhere, rerouted>>
  /\ \/ /\ \E admitted \in BOOLEAN : binary' = [mark |-> effects + 2, admitted |-> admitted]
        /\ UNCHANGED report
     \/ report = "none" /\ report' = "foreign" /\ UNCHANGED binary

\* Two directories above the binary are exchanged, and the files of both stay as they are.
OwnerReroutes ==
  /\ OwnerMeddles /\ UNCHANGED report
  /\ binary' = elsewhere /\ elsewhere' = binary
  /\ rerouted' = (rerouted \/ preflight.at \in {"hash", "restat", "version", "compare"})

PreflightNext ==
  \/ StartPreflight
  \/ StatBinary
  \/ HashBinary
  \/ AdmitBinary
  \/ RunVersion
  \/ CompareBinary
  \/ RehashBinary
  \/ ReadHostIdentity
  \/ CreateFixture
  \/ CaptureMetadata
  \/ ListenOnLoopback
  \/ SetUpCodexState
  \/ StartProbe
  \/ ProbeEnds
  \/ JudgeProbeTrace
  \/ AssertFiles
  \/ AssertInventory
  \/ AssertNoModelSideEffects
  \/ WriteControllerResult
  \/ DropCodexState
  \/ CloseServer
  \/ RemoveFixture
  \/ WritePreflightFile
  \/ PreflightKilled
  \/ ModelWritesFile
  \/ ModelRemovesFile
  \/ ModelConnects
  \/ HearConnection
  \/ EscapedProcessEnds
  \/ OwnerInterferes
  \/ OwnerReroutes

PreflightSpec == PreflightInit /\ [][PreflightNext]_preflightVars

-----------------------------------------------------------------------------
(* Properties.                                                                  *)

\* A report that an adversarial preflight passed is true: the model, while its call
\* lasted, did nothing to the fixture, not even something that it undid, and no connection
\* was heard of; and what the probe needed is gone.  In any report the binary that answered
\* with its version is the very file whose digest was admitted, unless a directory above it
\* was exchanged meanwhile.  (A connection still in the backlog when the call ends is not
\* counted, and the probe starts the binary by its path after the last comparison.)
ReportIsTrue ==
  /\ report \in {"adversarial-passed", "identity-and-config-passed"} =>
       preflight.ran = preflight.hashed \/ rerouted
  /\ report = "adversarial-passed" =>
       ~overstepped /\ fixture = NoFixture /\ ~codexHome /\ loopback.state = "closed"

=============================================================================
