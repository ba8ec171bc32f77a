------------------------------- MODULE Replay -------------------------------
(* The rehearsal of a frozen pack: the controller (runtime/src/controller.mjs)
   reveals the pack to sandboxed workers one source at a time, makes two of them
   crash, anchors every published head outside the directory the workers can
   write, and repeats the whole attempt from nothing.

   The other driver of a worker is whoever starts it directly on a vault, as the
   repository's tests do: any bundle, any fault, any number of times.

   Environment: a worker may be killed by the timer of its capture or by the
   operator's signal, the runtime's sources may be edited, and a worker may
   rewrite the history published before it.                                     *)
EXTENDS ReplayVault

CONSTANTS
  Drivers,        \* which of "controller" and "direct" start workers
  PackLength,     \* the number of sources in a pack
  DirectOrders,   \* the orders a directly started worker is given
  MaxEdits,       \* how often the runtime's sources are edited
  MaxRewrites     \* how often a worker rewrites earlier commits

ASSUME DriversAssumption == Drivers \subseteq {"controller", "direct"}

ASSUME BoundsAssumption ==
  /\ PackLength \in Nat \ {0}
  /\ DirectOrders \in Nat
  /\ MaxEdits \in Nat
  /\ MaxRewrites \in Nat

VARIABLES
  driver,         \* who starts the workers in this behaviour
  pc,             \* where the controller is
  attempt,        \* 1, 2: the checked pack, primary and clean; 3, 4: the generated one
  step,           \* the order of the item being revealed
  anchors,        \* controller/anchors: the heads anchored so far
  before,         \* head and commit count before a deliberate crash or a redelivery
  final,          \* the answer of the last completed worker
  crashes,        \* the observations of deliberate crashes
  results,        \* the results of the attempts that are over
  code,           \* the version of the runtime's sources in the repository
  staged,         \* the version copied for the workers of this attempt
  identity,       \* the version in the identity of this attempt
  session,        \* the version in the identity of the session
  timedOut,       \* the capture's timer (or its output limit) has fired
  cancelled,      \* the operator has sent SIGINT or SIGTERM
  rewrites        \* how often history has been rewritten

controllerVars == <<pc, attempt, step, anchors, before, final, crashes, results,
                    staged, identity, session>>
environmentVars == <<code, timedOut, cancelled, rewrites>>
vars == <<vaultVars, worker, driver, controllerVars, environmentVars>>

-----------------------------------------------------------------------------
Packs == {"checked", "generated"}
PackOf(a) == IF a \in {1, 2} THEN "checked" ELSE "generated"
Primary(a) == a \in {1, 3}

\* The source of a pack's item, and one that no pack contains.
SourceOf(pack, order) == <<pack, order>>
Forged(order) == <<"forged", order>>

ASSUME SourcesAssumption ==
  \A k \in 1..PackLength : Forged(k) \in Sources /\ \A p \in Packs : SourceOf(p, k) \in Sources

RunOf(a, version) == [pack |-> PackOf(a), code |-> version]

\* The reveal bundle of the current attempt's item.
RevealBundle(order) ==
  [run |-> RunOf(attempt, identity), order |-> order, source |-> SourceOf(PackOf(attempt), order)]

\* The deliberate crashes of a primary attempt.
FaultAt(order) ==
  CASE Primary(attempt) /\ order = 3 -> "before-publication"
    [] Primary(attempt) /\ order = 4 -> "after-publication"
    [] OTHER -> "none"

Waiting == pc \in {"probing", "crashing", "ingesting", "redelivering", "rebuilding"}

\* The runtime in the repository and the staged copy are the identified ones.
RuntimeUnchanged == code = identity /\ staged = identity

\* Mutant: only the number of commits is compared.
AnchorsCounted(tail) == Len(commits) = Len(anchors) + tail

\* verifyControllerAnchors, with a number of commits that may not be anchored yet.
AnchorsVerify(tail) ==
  /\ Len(commits) = Len(anchors) + tail
  /\ \A i \in 1..Len(anchors) : anchors[i] = commits[i].head
  /\ \/ selector = (IF anchors = <<>> THEN NoHead ELSE Last(anchors))
     \/ tail = 1 /\ selector = TerminalHead(commits)

\* Starting a worker; the capture of its output begins with its timer unset.
Spawn(action, bundle, fault) ==
  /\ worker' = Started(action, bundle, fault)
  /\ timedOut' = FALSE

\* The capture has closed with a complete, timely answer of exit code 0.
Answered == worker.pc = "exited" /\ ~timedOut
\* Mutant: the timer's kill is taken for the fault.
StoppedSomehow == worker.pc = "killed"
\* The answer a capture gives when the process died by the fault's signal: the
\* same signal a timer or the operator uses.
StoppedBySignal == worker.pc = "killed" /\ ~timedOut

Abandon == pc' = "failed"

-----------------------------------------------------------------------------
(* The controller.  Between two workers nobody else touches the vault.         *)

\* runRecordedRehearsal: the frozen packs are captured, the session identified.
BeginSession ==
  /\ pc = "begin"
  /\ IF cancelled THEN Abandon /\ UNCHANGED session
     ELSE pc' = "stage" /\ session' = code
  /\ UNCHANGED <<vaultVars, worker, driver, attempt, step, anchors, before, final,
                 crashes, results, staged, identity, environmentVars>>

\* runPackAttempt: a fresh run root, with a copy of the worker's runtime.
StageRuntime ==
  /\ pc = "stage"
  /\ IF cancelled THEN Abandon /\ UNCHANGED staged
     ELSE pc' = "identify" /\ staged' = code
  /\ UNCHANGED <<vaultVars, worker, driver, attempt, step, anchors, before, final,
                 crashes, results, identity, session, environmentVars>>

IdentifyRuntime ==
  /\ pc = "identify"
  /\ IF staged = code THEN pc' = "start" /\ identity' = code
     ELSE Abandon /\ UNCHANGED identity
  /\ UNCHANGED <<vaultVars, worker, driver, attempt, step, anchors, before, final,
                 crashes, results, staged, session, environmentVars>>

\* The anchors of the empty vault, and the boundary probe of a primary attempt.
StartAttempt ==
  /\ pc = "start"
  /\ IF ~AnchorsVerify(0) THEN Abandon /\ UNCHANGED <<worker, timedOut>>
     ELSE IF Primary(attempt)
       THEN pc' = "probing" /\ Spawn("probe", NoBundle, "none")
       ELSE pc' = "reveal" /\ UNCHANGED <<worker, timedOut>>
  /\ UNCHANGED <<vaultVars, driver, attempt, step, anchors, before, final, crashes,
                 results, staged, identity, session, code, cancelled, rewrites>>

\* The probe answers which reads, writes and connections were denied to it; all
\* must have been, and it must not have touched the vault's directory.
EndProbe ==
  /\ pc = "probing" /\ WorkerEnded
  /\ \E allDenied \in BOOLEAN :
       IF Answered /\ allDenied /\ commits = <<>> /\ selector = NoHead /\ RuntimeUnchanged
         THEN pc' = "reveal" ELSE Abandon
  /\ UNCHANGED <<vaultVars, worker, driver, attempt, step, anchors, before, final,
                 crashes, results, staged, identity, session, environmentVars>>

\* The head of the loop over the items: every check, then the reveal bundle and
\* a worker, told to crash at the steps that exercise a crash.
RevealItem ==
  /\ pc = "reveal"
  /\ IF cancelled \/ ~RuntimeUnchanged \/ ~AnchorsVerify(0)
       THEN Abandon /\ UNCHANGED <<worker, timedOut, before>>
       ELSE /\ before' = [head |-> selector, count |-> Len(commits)]
            /\ Spawn("ingest", RevealBundle(step), FaultAt(step))
            /\ pc' = IF FaultAt(step) = "none" THEN "ingesting" ELSE "crashing"
  /\ UNCHANGED <<vaultVars, driver, attempt, step, anchors, final, crashes, results,
                 staged, identity, session, code, cancelled, rewrites>>

\* What a deliberate crash has to leave behind.
CrashPreserved(fault) ==
  /\ selector = before.head
  /\ Len(commits) = before.count + (IF fault = "after-publication" THEN 1 ELSE 0)

\* The crash is observed and the same bundle is given to a second worker.
ObserveCrash ==
  /\ pc = "crashing" /\ WorkerEnded
  /\ LET fault == FaultAt(step)
         tail == IF fault = "after-publication" THEN 1 ELSE 0
     IN  IF StoppedBySignal /\ CrashPreserved(fault) /\ AnchorsVerify(tail)
           THEN /\ crashes' = Append(crashes, [fault |-> fault, by |-> worker.killedBy])
                /\ Spawn("ingest", RevealBundle(step), "none")
                /\ pc' = "ingesting"
           ELSE Abandon /\ UNCHANGED <<crashes, worker, timedOut>>
  /\ UNCHANGED <<vaultVars, driver, attempt, step, anchors, before, final, results,
                 staged, identity, session, code, cancelled, rewrites>>

\* Mutant: the earlier anchors are not looked at again.
CanAnchorSelected(order) ==
  /\ Len(commits) = order /\ Len(anchors) = order - 1
  /\ selector = commits[order].head

\* writeControllerAnchor: the earlier anchors hold, the new commit is the
\* selected head, and the anchors hold with the new one as well.
CanAnchor(order) ==
  /\ AnchorsVerify(1)
  /\ Len(anchors) = order - 1
  /\ selector = commits[order].head

\* scanTree(stateRoot, futureNeedles): no later source is in the vault.
NothingLeaked ==
  LET later == {SourceOf(PackOf(attempt), k) : k \in (step + 1)..PackLength}
  IN  /\ \A i \in 1..Len(commits) : commits[i].bundle.source \notin later
      /\ staging.kind \in {"partial", "complete"} => staging.bundle.source \notin later

\* The bundle is removed and the next item revealed, or the vault rebuilt.
NextItem ==
  IF NothingLeaked
    THEN /\ pc' = (IF step < PackLength THEN "reveal" ELSE "rebuild")
         /\ step' = step + 1
    ELSE Abandon /\ UNCHANGED step

EndIngest ==
  /\ pc = "ingesting" /\ WorkerEnded
  /\ IF /\ Answered /\ ~cancelled
        /\ worker.reply.count = step
        /\ FaultAt(step) = "before-publication" => worker.reply.action = "published"
        /\ FaultAt(step) = "after-publication" => worker.reply.action = "exact-redelivery"
        /\ RuntimeUnchanged
        /\ CanAnchor(step)
       THEN /\ anchors' = Append(anchors, commits[step].head)
            /\ final' = worker.reply
            /\ IF step = 2
                 THEN /\ Spawn("ingest", RevealBundle(step), "none")
                      /\ pc' = "redelivering" /\ UNCHANGED step
                 ELSE NextItem /\ UNCHANGED <<worker, timedOut>>
       ELSE Abandon /\ UNCHANGED <<anchors, final, worker, timedOut, step>>
  /\ UNCHANGED <<vaultVars, driver, attempt, before, crashes, results, staged,
                 identity, session, code, cancelled, rewrites>>

\* The second item is delivered twice.
EndRedelivery ==
  /\ pc = "redelivering" /\ WorkerEnded
  /\ IF /\ Answered
        /\ worker.reply.action = "exact-redelivery"
        /\ worker.reply.head = final.head
        /\ worker.reply.projection = final.projection
        /\ Len(commits) = Len(anchors)
        /\ AnchorsVerify(0)
       THEN NextItem ELSE Abandon /\ UNCHANGED step
  /\ UNCHANGED <<vaultVars, worker, driver, attempt, anchors, before, final, crashes,
                 results, staged, identity, session, environmentVars>>

BeginRebuild ==
  /\ pc = "rebuild"
  /\ IF RuntimeUnchanged /\ AnchorsVerify(0)
       THEN pc' = "rebuilding" /\ Spawn("rebuild", NoBundle, "none")
       ELSE Abandon /\ UNCHANGED <<worker, timedOut>>
  /\ UNCHANGED <<vaultVars, driver, attempt, step, anchors, before, final, crashes,
                 results, staged, identity, session, code, cancelled, rewrites>>

\* The rebuilt projection is the one the last ingest answered with, the anchors
\* still hold, nothing is left in staging: the attempt has its result.
EndRebuild ==
  /\ pc = "rebuilding" /\ WorkerEnded
  /\ IF /\ Answered
        /\ worker.reply.projection = final.projection
        /\ worker.reply.head = final.head
        /\ worker.reply.count = final.count
        /\ RuntimeUnchanged
        /\ AnchorsVerify(0)
        /\ Len(anchors) = worker.reply.count
        /\ staging = NoStage
        /\ ~cancelled
       THEN /\ results' = Append(results, [identity |-> identity, head |-> worker.reply.head,
                                           projection |-> worker.reply.projection])
            /\ pc' = "attempted"
       ELSE Abandon /\ UNCHANGED results
  /\ UNCHANGED <<vaultVars, worker, driver, attempt, step, anchors, before, final,
                 crashes, staged, identity, session, environmentVars>>

\* Mutant: the identities are not compared with the session's.
ResultsAgree(a) ==
  CASE a = 2 -> results[2] = results[1]
    [] a = 4 -> results[4] = results[3] /\ results[4].head # results[2].head
    [] OTHER -> TRUE

\* What rehearseOnePack and runRecordedRehearsal compare once an attempt is over.
ResultStands(a) ==
  CASE a = 2 -> results[2] = results[1]
    [] a = 4 -> /\ results[4] = results[3]
                /\ results[4].head # results[2].head
                /\ results[2].identity = session
                /\ results[4].identity = results[2].identity
    [] OTHER -> TRUE

\* removeAndVerify, and a fresh run root for the next attempt.
DiscardAttempt ==
  /\ pc = "attempted"
  /\ IF cancelled \/ ~ResultStands(attempt)
       THEN /\ Abandon
            /\ UNCHANGED <<vaultVars, worker, attempt, step, anchors, final, crashes>>
       ELSE /\ commits' = <<>> /\ selector' = NoHead /\ staging' = NoStage
            /\ projection' = NoProjection /\ worker' = IdleWorker
            /\ anchors' = <<>> /\ step' = 1 /\ final' = NoReply
            /\ IF attempt < 4
                 THEN pc' = "stage" /\ attempt' = attempt + 1 /\ crashes' = <<>>
                 ELSE pc' = "report" /\ UNCHANGED <<attempt, crashes>>
  /\ UNCHANGED <<driver, before, results, staged, identity, session, environmentVars>>

\* The wall-clock budget is looked at last; the report is written by main.
WriteReport ==
  /\ pc = "report"
  /\ \/ ~cancelled /\ pc' = "passed"
     \/ Abandon
  /\ UNCHANGED <<vaultVars, worker, driver, attempt, step, anchors, before, final,
                 crashes, results, staged, identity, session, environmentVars>>

ControllerStep ==
  \/ BeginSession
  \/ StageRuntime
  \/ IdentifyRuntime
  \/ StartAttempt
  \/ EndProbe
  \/ RevealItem
  \/ ObserveCrash
  \/ EndIngest
  \/ EndRedelivery
  \/ BeginRebuild
  \/ EndRebuild
  \/ DiscardAttempt
  \/ WriteReport

-----------------------------------------------------------------------------
(* A worker started directly.                                                  *)

DirectBundles ==
  [run : {RunOf(a, 1) : a \in {1, 3}}, order : 1..DirectOrders,
   source : {SourceOf("checked", 1), SourceOf("generated", 1)}]

StartDirectly ==
  /\ driver = "direct" /\ ~WorkerRuns
  /\ \/ \E bundle \in DirectBundles, fault \in Faults : Spawn("ingest", bundle, fault)
     \/ Spawn("rebuild", NoBundle, "none")
  /\ UNCHANGED <<vaultVars, driver, controllerVars, code, cancelled, rewrites>>

-----------------------------------------------------------------------------
(* The environment.                                                            *)

\* Mutant: the timer notes that it fired and kills nothing.
TimerNotes ==
  /\ ~timedOut
  /\ IF driver = "controller" THEN Waiting ELSE WorkerRuns
  /\ timedOut' = TRUE
  /\ UNCHANGED <<vaultVars, worker, driver, controllerVars, code, cancelled, rewrites>>

\* The capture's timer: it may fire after the process is gone and before the
\* controller has seen it close.
TimerFires ==
  /\ ~timedOut
  /\ IF driver = "controller" THEN Waiting ELSE WorkerRuns
  /\ timedOut' = TRUE
  /\ IF WorkerRuns THEN Die("timer") ELSE UNCHANGED <<vaultVars, worker>>
  /\ UNCHANGED <<driver, controllerVars, code, cancelled, rewrites>>

\* The first signal kills the children there are; the controller notices later.
OperatorSignals ==
  /\ driver = "controller" /\ ~cancelled
  /\ pc \notin {"passed", "failed"}
  /\ cancelled' = TRUE
  /\ IF WorkerRuns THEN Die("operator") ELSE UNCHANGED <<vaultVars, worker>>
  /\ UNCHANGED <<driver, controllerVars, code, timedOut, rewrites>>

EditRuntime ==
  /\ driver = "controller"
  /\ pc \notin {"passed", "failed"}
  /\ code <= MaxEdits
  /\ code' = code + 1
  /\ UNCHANGED <<vaultVars, worker, driver, controllerVars, timedOut, cancelled, rewrites>>

\* A running worker replaces the source of an anchored commit and makes the
\* chain and the selector consistent again.
RewriteHistory ==
  /\ driver = "controller" /\ WorkerRuns /\ Waiting
  /\ rewrites < MaxRewrites
  /\ \E i \in 1..Len(anchors) :
       /\ i <= Len(commits)
       /\ commits' = Chained([BundlesOf(commits) EXCEPT ![i].source = Forged(i)])
       /\ selector' = SubSeq(TerminalHead(commits'), 1, Len(selector))
  /\ rewrites' = rewrites + 1
  /\ UNCHANGED <<staging, projection, worker, driver, controllerVars, code, timedOut, cancelled>>

-----------------------------------------------------------------------------
Init ==
  /\ VaultInit
  /\ driver \in Drivers
  /\ pc = (IF driver = "controller" THEN "begin" ELSE "absent")
  /\ attempt = 1
  /\ step = 1
  /\ anchors = <<>>
  /\ before = [head |-> NoHead, count |-> 0]
  /\ final = NoReply
  /\ crashes = <<>>
  /\ results = <<>>
  /\ code = 1
  /\ staged = 0
  /\ identity = 0
  /\ session = 0
  /\ timedOut = FALSE
  /\ cancelled = FALSE
  /\ rewrites = 0

WorkerActs == WorkerStep /\ UNCHANGED <<driver, controllerVars, environmentVars>>

Next ==
  \/ ControllerStep
  \/ WorkerActs
  \/ StartDirectly
  \/ TimerFires
  \/ OperatorSignals
  \/ EditRuntime
  \/ RewriteHistory

\* The event loop of the controller goes on and the timer of a capture fires in
\* the end; nothing is assumed of the worker, which may hang.
Fairness == WF_vars(ControllerStep) /\ WF_vars(TimerFires /\ WorkerRuns)

Spec == Init /\ [][Next]_vars /\ Fairness

-----------------------------------------------------------------------------
(* Properties.                                                                 *)

\* Wherever a worker that was started directly is killed, the vault can still be
\* loaded: the selector is at most one commit behind, and delivering the last
\* published bundle again is accepted (worker.mjs:370-385), as is a first bundle
\* when nothing was published.
VaultStaysOpen ==
  driver = "direct" =>
    /\ LoadsOrLags(commits, selector)
    /\ commits = <<>> => \A b \in DirectBundles : b.order = 1 => Acceptable(b)
    /\ commits # <<>> => Acceptable(Last(commits).bundle)

\* An ingest that answers has its bundle in the vault at its own order, selected,
\* and a complete projection in which every step changes exactly the passages of
\* its own source, adds the ones no earlier source had and removes none.
AnswerIsDurable ==
  (worker.pc = "exited" /\ worker.action = "ingest" /\ rewrites = 0 /\ ~WorkerRuns) =>
    /\ worker.bundle.order \in 1..Len(commits)
    /\ commits[worker.bundle.order].bundle = worker.bundle
    /\ selector = TerminalHead(commits)
    /\ worker.reply.head = selector
    /\ LET p == worker.reply.projection
           own(k) == Candidates[commits[k].bundle.source]
       IN  /\ p.complete /\ Len(p.deltas) = Len(commits)
           /\ \A k \in 1..Len(commits) :
                /\ p.deltas[k].changed = own(k)
                /\ p.deltas[k].added = own(k) \ UNION {own(j) : j \in 1..(k - 1)}
                /\ p.deltas[k].removed = {}

\* An attempt that is over without a failure has published exactly the frozen
\* items in their order, whatever was killed, and although a worker may have
\* rewritten what was anchored before it ("Controller-only head anchors make
\* self-consistent rewriting of earlier worker commits detectable").
AcceptedHistoryIsThePack ==
  pc = "attempted" =>
    /\ BundlesOf(commits) = [k \in 1..PackLength |-> RevealBundle(k)]
    /\ commits = Chained(BundlesOf(commits))
    /\ selector = TerminalHead(commits)

\* The crashes a finished attempt reports are the two it asked for: neither a
\* timer nor the operator's signal, which end a worker by the same SIGKILL,
\* counts as one of them.
ReportedCrashesWereInjected ==
  pc = "attempted" =>
    /\ \A i \in 1..Len(crashes) : crashes[i].by = "fault"
    /\ Primary(attempt) => Len(crashes) = Cardinality({3, 4} \cap (1..PackLength))

\* One version of the runtime produced everything a passed report contains,
\* although the repository's sources can be edited at any moment.
OneRuntime ==
  /\ pc = "attempted" => staged = identity
  /\ pc \in {"report", "passed"} => \A i \in 1..4 : results[i].identity = session

\* The vault with the controller's anchors is an anchored log.
Log == INSTANCE AnchoredLog WITH
  log <- BundlesOf(commits),
  anchored <- (IF anchors = <<>> THEN <<>> ELSE Last(anchors)),
  accepted <- (pc = "attempted"),
  Events <- [run : {RunOf(a, v) : a \in 1..4, v \in 1..(MaxEdits + 1)},
             order : 1..(PackLength + DirectOrders), source : Sources]
LogSpec == Log!Spec

\* A rehearsal ends, also when a worker hangs.
RehearsalEnds == driver = "controller" ~> pc \in {"passed", "failed"}

=============================================================================
