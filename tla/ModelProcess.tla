---------------------------- MODULE ModelProcess ----------------------------
(* A provider process and the JavaScript that waits for it: runQualifiedProcess
   (tooling/codex-author-call-qualification-v1.mjs) and the runner it was written
   to improve on, spawnWithInput (tooling/codex-sandbox-preflight.mjs).  The
   process is detached, the leader of a group of its own; whatever it does, the
   caller is to get one answer, and a good answer only from a good process.

   Events of the child, its streams and the timers come in any order.           *)
EXTENDS Integers

CONSTANT Runners     \* which of "qualified" and "plain" is waiting
ASSUME RunnersAssumption == Runners \subseteq {"qualified", "plain"}

VARIABLES
  runner,      \* the function that waits
  run,         \* what it has seen and done
  child,       \* the process group, as the operating system knows it
  timers       \* the timers that are set: "timeout", "escalation", "watchdog"

processVars == <<runner, run, child, timers>>

NoChild == [started |-> FALSE, alive |-> FALSE, members |-> FALSE, exit |-> "none",
            overflowed |-> FALSE, inputRead |-> FALSE, signalled |-> FALSE]

NoRun == [pc |-> "none", class |-> "none", stdinWritten |-> FALSE, timedOut |-> FALSE,
          terminating |-> FALSE, sigterm |-> FALSE, sigkill |-> FALSE, exit |-> "none",
          errored |-> FALSE, unobserved |-> FALSE, lingering |-> FALSE, absent |-> FALSE,
          utf8 |-> TRUE]

ProcessInit ==
  /\ runner \in Runners
  /\ run = NoRun
  /\ child = NoChild
  /\ timers = {}

Listening == run.pc = "listening"
GroupExists == child.alive \/ child.members

-----------------------------------------------------------------------------
(* Starting, and the result.                                                   *)

\* spawn throws, or the process starts, or it will report an error.
SpawnThrows ==
  /\ run' = [run EXCEPT !.pc = "settled", !.errored = TRUE, !.class = "process-spawn"]
  /\ UNCHANGED <<runner, child, timers>>
SpawnStarts ==
  /\ run' = [run EXCEPT !.pc = "listening"]
  /\ child' \in {[child EXCEPT !.started = s, !.alive = s] : s \in BOOLEAN}
  /\ timers' = {"timeout"}
  /\ UNCHANGED runner

\* The class the caller is told, from what the runner has seen.
ResultClass(r, started) ==
  CASE ~started -> "process-spawn"
    [] started /\ (r.lingering \/ ~r.absent) -> "process-group-cleanup"
    [] started /\ r.absent /\ ~r.lingering /\ r.errored -> "process-spawn"
    [] OTHER ->
         IF r.class # "none" THEN r.class
         ELSE IF ~r.stdinWritten THEN "stdin-write"
         ELSE IF r.exit = "signal" THEN "signal"
         ELSE IF r.exit # "zero" THEN "nonzero-exit"
         ELSE IF ~r.utf8 THEN "output-utf8" ELSE "qualified"

\* A mistake: a group that had to be killed is forgotten once it is gone.
PlainClassIfAbsent(r) ==
  IF r.errored \/ r.class # "none" \/ r.exit # "zero" \/ ~r.absent \/ ~r.utf8
    THEN "failed" ELSE "qualified"

\* What spawnWithInput makes of the same: it resolves only for "qualified".
PlainClass(r) ==
  IF \/ r.errored \/ r.class # "none" \/ r.exit # "zero"
     \/ r.lingering \/ ~r.absent \/ ~r.utf8
    THEN "failed" ELSE "qualified"

Settle(r) ==
  /\ run' = [r EXCEPT !.pc = "settled",
                      !.class = IF runner = "qualified" THEN ResultClass(r, child.started)
                                ELSE PlainClass(r)]
  /\ timers' = {}

-----------------------------------------------------------------------------
(* The failure latch and the termination it requests.                          *)

Latched(r, class) ==
  IF r.class # "none" THEN r
  ELSE [r EXCEPT !.class = class, !.terminating = TRUE, !.sigterm = @ \/ child.started]

\* The first failure sends SIGTERM and sets the escalation timer.
Latch(r, class) ==
  /\ run' = Latched(r, class)
  /\ timers' = IF r.class = "none" THEN timers \cup {"escalation"} ELSE timers
  /\ child' = IF r.class = "none" THEN [child EXCEPT !.signalled = @ \/ child.started] ELSE child
  /\ UNCHANGED runner

\* The callback of stdin.end: the input was handed over.
StdinFlushed ==
  /\ Listening /\ child.started /\ ~run.stdinWritten
  /\ run' = [run EXCEPT !.stdinWritten = TRUE]
  /\ child' = [child EXCEPT !.inputRead = TRUE]
  /\ UNCHANGED <<runner, timers>>

\* An error of stdin; the callback of end may have been called with it.
StdinFails ==
  /\ Listening /\ child.started
  /\ \E called \in BOOLEAN :
       Latch([run EXCEPT !.stdinWritten = @ \/ called], "stdin-write")

\* One byte more than the limit, or an error of an output stream.
OutputOverLimit ==
  /\ Listening /\ child.started /\ ~child.overflowed
  /\ run' = Latched(run, "output-limit")
  /\ timers' = IF run.class = "none" THEN timers \cup {"escalation"} ELSE timers
  /\ child' = [child EXCEPT !.overflowed = TRUE, !.signalled = @ \/ run.class = "none"]
  /\ UNCHANGED runner

\* The timeout of the call.
TimeoutFires ==
  /\ Listening /\ "timeout" \in timers
  /\ run' = Latched([run EXCEPT !.timedOut = TRUE], "timeout")
  /\ timers' = (timers \ {"timeout"})
                 \cup (IF run.class = "none" THEN {"escalation"} ELSE {})
  /\ child' = [child EXCEPT !.signalled = @ \/ (child.started /\ run.class = "none")]
  /\ UNCHANGED runner

\* A mistake: nothing gives up waiting.
EscalationWithoutWatchdog ==
  /\ Listening /\ "escalation" \in timers
  /\ run' = [run EXCEPT !.sigkill = child.started]
  /\ timers' = timers \ {"escalation"}
  /\ UNCHANGED <<runner, child>>

\* SIGKILL, and only in runQualifiedProcess the timer that gives up waiting.
EscalationFires ==
  /\ Listening /\ "escalation" \in timers
  /\ run' = [run EXCEPT !.sigkill = child.started]
  /\ timers' = (timers \ {"escalation"})
                 \cup (IF runner = "qualified" THEN {"watchdog"} ELSE {})
  /\ UNCHANGED <<runner, child>>

-----------------------------------------------------------------------------
(* The end of the wait: one of close, error and the watchdog, whichever is first. *)

\* After the end of the wait, the group is looked at.
Finish(r) ==
  /\ run' = [r EXCEPT !.pc = "group"]
  /\ timers' = {}
  /\ UNCHANGED <<runner, child>>

CloseArrives ==
  /\ Listening /\ child.started /\ ~child.alive
  /\ \E utf8 \in BOOLEAN : Finish([run EXCEPT !.exit = child.exit, !.utf8 = utf8])

\* A spawn that failed, or a kill that failed.  spawnWithInput rejects at once.
ErrorArrives ==
  /\ Listening /\ (~child.started \/ run.terminating)
  /\ IF runner = "qualified" /\ child.started
       THEN Finish([run EXCEPT !.errored = TRUE, !.unobserved = TRUE])
       ELSE Settle([run EXCEPT !.errored = TRUE]) /\ UNCHANGED <<runner, child>>

WatchdogFires ==
  /\ Listening /\ "watchdog" \in timers
  /\ Finish([run EXCEPT !.unobserved = TRUE])

\* No member of the group is left: the answer.
GroupIsGone ==
  /\ run.pc \in {"group", "afterTerm", "afterKill"} /\ ~GroupExists
  /\ Settle([run EXCEPT !.absent = TRUE])
  /\ UNCHANGED <<runner, child>>

\* Something is left: SIGTERM, a second of polling, SIGKILL, a second of polling.
SignalGroup ==
  /\ run.pc = "group" /\ GroupExists
  /\ run' = [run EXCEPT !.pc = "afterTerm", !.lingering = TRUE, !.sigterm = TRUE]
  /\ child' = [child EXCEPT !.signalled = TRUE]
  /\ UNCHANGED <<runner, timers>>
KillGroup ==
  /\ run.pc = "afterTerm" /\ GroupExists
  /\ run' = [run EXCEPT !.pc = "afterKill", !.sigkill = TRUE]
  /\ UNCHANGED <<runner, child, timers>>
GiveUp ==
  /\ run.pc = "afterKill" /\ GroupExists
  /\ Settle(run)
  /\ UNCHANGED <<runner, child>>

-----------------------------------------------------------------------------
(* The process group.                                                          *)

\* The child ends, by itself or because of a signal, and may leave descendants.
ChildEnds ==
  /\ child.alive
  /\ \E exit \in {"zero", "nonzero", "signal"}, members \in BOOLEAN :
       child' = [child EXCEPT !.alive = FALSE, !.exit = exit, !.members = members]
  /\ UNCHANGED <<runner, run, timers>>

MembersEnd ==
  /\ child.members
  /\ child' = [child EXCEPT !.members = FALSE]
  /\ UNCHANGED <<runner, run, timers>>

\* What the runner itself does, once it is its turn.
RunnerStep ==
  \/ TimeoutFires
  \/ EscalationFires
  \/ WatchdogFires
  \/ GroupIsGone
  \/ SignalGroup
  \/ KillGroup
  \/ GiveUp

ChildStep ==
  \/ StdinFlushed
  \/ StdinFails
  \/ OutputOverLimit
  \/ CloseArrives
  \/ ErrorArrives
  \/ ChildEnds
  \/ MembersEnd

=============================================================================
