---------------------------- MODULE Publication -----------------------------
(***************************************************************************)
(* How a command of the workbench publishes: it takes .writer.lock, loads  *)
(* the generation that .active selects, copies it to a stage, changes and  *)
(* validates the copy, names it, points a new selector at it, renames the  *)
(* selector over .active and removes the old generation.  verify takes no  *)
(* lock and reads while this goes on.                                      *)
(*                                                                         *)
(* Every command is a process of its own that may be killed at any step;   *)
(* every removal is best effort ("rm(...).catch(() => {})").  A generation *)
(* is named by the command that made it, and its value is the sequence of  *)
(* commands whose work it holds.  What the commands do to a generation is  *)
(* module Workbench.                                                       *)
(***************************************************************************)
EXTENDS Sequences, FiniteSets

CONSTANTS
  Writers,     \* commands that change the workspace, each run once
  Verifiers,   \* runs of verify
  Origin,      \* the generation init made
  None

ASSUME ProcessAssumption ==
  /\ Writers \cap Verifiers = {}
  /\ Origin \notin Writers
  /\ None \notin Writers

VARIABLES
  lock,        \* .writer.lock: the command that created it, or None
  active,      \* the generation .active points to
  dirs,        \* what .states holds under the name of each generation
  selectors,   \* commands whose .active-next-* link is in the root
  pc,          \* where each process is
  base,        \* the generation each process loaded
  result       \* how each process ends

vars == <<lock, active, dirs, selectors, pc, base, result>>

Processes   == Writers \cup Verifiers
Generations == Writers \cup { Origin }
Parts       == { "canonical", "derived", "draft" }
Absent      == [ kind |-> "absent", parts |-> {}, value |-> <<>> ]
Directory   == [ kind : { "absent", "stage", "state" }, parts : SUBSET Parts,
                 value : Seq(Writers) ]

Present == { g \in Generations : dirs[g].kind # "absent" }
Whole(g) == dirs[g].kind = "state" /\ dirs[g].parts = Parts

\* A command between taking the lock and giving it back.
Holding == { "pid", "load", "copy", "mutate", "name", "link", "commit",
             "unlink", "discard", "retire", "release" }

\* Where a process may be, and how it may end.
Places == Holding \cup { "start", "ended", "dead" }
            \cup { "root", "selector", "states", "canonical", "derived",
                   "draft", "tree", "dossiers" }
Outcomes == { "none", "ok", "failed", "refused", "locked", "unloadable",
              "alarm", "dirty", "current", "unusable" }

Goes(p, from, to) ==
  /\ pc[p] = from
  /\ pc' = [ pc EXCEPT ![p] = to ]

Results(p, r) == result' = [ result EXCEPT ![p] = r ]

Init ==
  /\ lock = None
  /\ active = Origin
  /\ dirs = [ g \in Generations |->
                IF g = Origin
                THEN [ kind |-> "state", parts |-> Parts, value |-> <<>> ]
                ELSE Absent ]
  /\ selectors = {}
  /\ pc = [ p \in Processes |-> "start" ]
  /\ base = [ p \in Processes |-> Origin ]
  /\ result = [ p \in Processes |-> "none" ]

-----------------------------------------------------------------------------
(***************************************************************************)
(* The lock.                                                               *)
(***************************************************************************)

\* Mutant: the lock file is created without O_EXCL.
AcquireShared(w) ==
  /\ Goes(w, "start", "pid")
  /\ lock' = w
  /\ UNCHANGED <<active, dirs, selectors, base, result>>

Acquire(w) ==
  /\ Goes(w, "start", "pid")
  /\ lock = None
  /\ lock' = w
  /\ UNCHANGED <<active, dirs, selectors, base, result>>

FindLocked(w) ==
  /\ Goes(w, "start", "ended")
  /\ lock # None
  /\ Results(w, "locked")
  /\ UNCHANGED <<lock, active, dirs, selectors, base>>

WritePid(w) ==
  /\ Goes(w, "pid", "load")
  /\ UNCHANGED <<lock, active, dirs, selectors, base, result>>

Release(w) ==
  /\ Goes(w, "release", "ended")
  /\ lock' = None
  /\ UNCHANGED <<active, dirs, selectors, base, result>>

-----------------------------------------------------------------------------
(***************************************************************************)
(* Loading, and refusing for a reason of the command's own.                *)
(***************************************************************************)
Loadable == selectors = {} /\ Present = { active } /\ Whole(active)

Load(w) ==
  /\ Goes(w, "load", "copy")
  /\ Loadable
  /\ base' = [ base EXCEPT ![w] = active ]
  /\ UNCHANGED <<lock, active, dirs, selectors, result>>

LoadFails(w) ==
  /\ Goes(w, "load", "release")
  /\ ~ Loadable
  /\ Results(w, "unloadable")
  /\ UNCHANGED <<lock, active, dirs, selectors, base>>

\* Mutant: an early return forgets to release the lock.
RefuseHolding(w) ==
  /\ Goes(w, "copy", "ended")
  /\ Results(w, "refused")
  /\ UNCHANGED <<lock, active, dirs, selectors, base>>

Refuse(w) ==
  /\ Goes(w, "copy", "release")
  /\ Results(w, "refused")
  /\ UNCHANGED <<lock, active, dirs, selectors, base>>

-----------------------------------------------------------------------------
(***************************************************************************)
(* Publishing.                                                             *)
(***************************************************************************)
Copy(w) ==
  /\ Goes(w, "copy", "mutate")
  /\ dirs' = [ dirs EXCEPT ![w] = [ Absent EXCEPT !.kind = "stage" ] ]
  /\ UNCHANGED <<lock, active, selectors, base, result>>

\* The command's own change, then finalizeState and validateStagedState.
Mutate(w) ==
  /\ Goes(w, "mutate", "name")
  /\ dirs' = [ dirs EXCEPT ![w].parts = Parts,
                           ![w].value = Append(dirs[base[w]].value, w) ]
  /\ UNCHANGED <<lock, active, selectors, base, result>>

\* Mutant: the old generation goes before the selector is renamed.
NameAndRetire(w) ==
  /\ Goes(w, "name", "link")
  /\ dirs' = [ dirs EXCEPT ![w].kind = "state", ![base[w]] = Absent ]
  /\ UNCHANGED <<lock, active, selectors, base, result>>

Name(w) ==
  /\ Goes(w, "name", "link")
  /\ dirs' = [ dirs EXCEPT ![w].kind = "state" ]
  /\ UNCHANGED <<lock, active, selectors, base, result>>

Link(w) ==
  /\ Goes(w, "link", "commit")
  /\ selectors' = selectors \cup { w }
  /\ UNCHANGED <<lock, active, dirs, base, result>>

\* Mutant: the old generation is left where it is.
CommitKeepingOld(w) ==
  /\ Goes(w, "commit", "release")
  /\ active' = w
  /\ selectors' = selectors \ { w }
  /\ Results(w, "ok")
  /\ UNCHANGED <<lock, dirs, base>>

Commit(w) ==
  /\ Goes(w, "commit", "retire")
  /\ active' = w
  /\ selectors' = selectors \ { w }
  /\ Results(w, "ok")
  /\ UNCHANGED <<lock, dirs, base>>

\* Mutant: a failed publication is tried again.
FailAndRetry(w) ==
  /\ \E from \in { "mutate", "name", "link", "commit" } : Goes(w, from, "copy")
  /\ UNCHANGED <<lock, active, dirs, selectors, base, result>>

\* Any step of publishing may throw: no space, a refused validation, a limit.
Fail(w) ==
  /\ \E from \in { "mutate", "name", "link", "commit" } : Goes(w, from, "unlink")
  /\ Results(w, "failed")
  /\ UNCHANGED <<lock, active, dirs, selectors, base>>

-----------------------------------------------------------------------------
(***************************************************************************)
(* Removing what is no longer wanted, file by file: the failed generation, *)
(* or after a commit the old one.                                          *)
(***************************************************************************)
Doomed(w) == IF pc[w] = "retire" THEN base[w] ELSE w

Unlink(w) ==
  /\ Goes(w, "unlink", "discard")
  /\ selectors' = selectors \ { w }
  /\ UNCHANGED <<lock, active, dirs, base, result>>

RemovePart(w, part) ==
  /\ pc[w] \in { "discard", "retire" }
  /\ part \in dirs[Doomed(w)].parts
  /\ dirs' = [ dirs EXCEPT ![Doomed(w)].parts = @ \ { part } ]
  /\ UNCHANGED <<lock, active, selectors, pc, base, result>>

RemoveDirectory(w) ==
  /\ \E from \in { "discard", "retire" } : Goes(w, from, "release")
  /\ dirs[Doomed(w)].parts = {}
  /\ dirs' = [ dirs EXCEPT ![Doomed(w)] = Absent ]
  /\ UNCHANGED <<lock, active, selectors, base, result>>

-----------------------------------------------------------------------------
(***************************************************************************)
(* verify: the lock file, the root's entries, the selector, the states     *)
(* directory, the digests of the areas, the whole tree, and at last the    *)
(* dossiers.  The derived area may be dirty, everything else may not.      *)
(***************************************************************************)
Alarm(v) ==
  /\ pc' = [ pc EXCEPT ![v] = "ended" ]
  /\ Results(v, "alarm")

VerifyLock(v) ==
  /\ \/ lock = None /\ Goes(v, "start", "root") /\ UNCHANGED result
     \/ lock # None /\ Goes(v, "start", "ended") /\ Results(v, "locked")
  /\ UNCHANGED <<lock, active, dirs, selectors, base>>

VerifyRoot(v) ==
  /\ pc[v] = "root"
  /\ \/ selectors = {} /\ Goes(v, "root", "selector") /\ UNCHANGED result
     \/ selectors # {} /\ Alarm(v)
  /\ UNCHANGED <<lock, active, dirs, selectors, base>>

VerifySelector(v) ==
  /\ Goes(v, "selector", "states")
  /\ base' = [ base EXCEPT ![v] = active ]
  /\ UNCHANGED <<lock, active, dirs, selectors, result>>

VerifyStates(v) ==
  /\ pc[v] = "states"
  /\ \/ Present = { base[v] } /\ Goes(v, "states", "canonical") /\ UNCHANGED result
     \/ Present # { base[v] } /\ Alarm(v)
  /\ UNCHANGED <<lock, active, dirs, selectors, base>>

Readable(v, part) == part \in dirs[base[v]].parts

VerifyCanonicalArea(v) ==
  /\ pc[v] = "canonical"
  /\ \/ Readable(v, "canonical") /\ Goes(v, "canonical", "derived") /\ UNCHANGED result
     \/ ~ Readable(v, "canonical") /\ Alarm(v)
  /\ UNCHANGED <<lock, active, dirs, selectors, base>>

\* A derived area emptied so far is dirty; one that is gone is an error.
VerifyDerivedArea(v) ==
  /\ pc[v] = "derived"
  /\ \/ Readable(v, "derived") /\ Goes(v, "derived", "draft") /\ UNCHANGED result
     \/ ~ Readable(v, "derived") /\ Goes(v, "derived", "draft") /\ Results(v, "dirty")
     \/ ~ Readable(v, "derived") /\ Alarm(v)
  /\ UNCHANGED <<lock, active, dirs, selectors, base>>

VerifyDraftArea(v) ==
  /\ pc[v] = "draft"
  /\ \/ Readable(v, "draft") /\ Goes(v, "draft", "tree") /\ UNCHANGED result
     \/ ~ Readable(v, "draft") /\ Alarm(v)
  /\ UNCHANGED <<lock, active, dirs, selectors, base>>

\* The canonical area and the draft are read once more, and the name of the
\* generation has to match the tree unless the derived area was dirty.
VerifyTree(v) ==
  /\ pc[v] = "tree"
  /\ \/ /\ { "canonical", "draft" } \subseteq dirs[base[v]].parts
        /\ result[v] = "dirty" \/ Readable(v, "derived")
        /\ Goes(v, "tree", "dossiers")
        /\ UNCHANGED result
     \/ dirs[base[v]].parts # Parts /\ Alarm(v)
  /\ UNCHANGED <<lock, active, dirs, selectors, base>>

VerifyDossiers(v) ==
  /\ Goes(v, "dossiers", "ended")
  /\ Results(v, IF Readable(v, "derived") THEN "current" ELSE "unusable")
  /\ UNCHANGED <<lock, active, dirs, selectors, base>>

-----------------------------------------------------------------------------
(***************************************************************************)
(* Faults: a command is killed, a removal or the write of the pid fails.   *)
(***************************************************************************)
Crash(w) ==
  /\ pc[w] \in Holding
  /\ pc' = [ pc EXCEPT ![w] = "dead" ]
  /\ UNCHANGED <<lock, active, dirs, selectors, base, result>>

PidFails(w) ==
  /\ Goes(w, "pid", "ended")
  /\ Results(w, "failed")
  /\ UNCHANGED <<lock, active, dirs, selectors, base>>

\* Mutant: a failed removal of the old generation fails the command.
RemovalFailsLoudly(w) ==
  /\ Goes(w, "retire", "release")
  /\ Results(w, "failed")
  /\ UNCHANGED <<lock, active, dirs, selectors, base>>

RemovalFails(w) ==
  /\ \/ Goes(w, "unlink", "discard")
     \/ Goes(w, "discard", "release")
     \/ Goes(w, "retire", "release")
     \/ Goes(w, "release", "ended")
  /\ UNCHANGED <<lock, active, dirs, selectors, base, result>>

\* The owner, once no command runs: removes a lock nobody holds, and what
\* lies next to the selected generation.
OwnerRemovesLock ==
  /\ lock # None
  /\ pc[lock] \notin Holding
  /\ lock' = None
  /\ UNCHANGED <<active, dirs, selectors, pc, base, result>>

OwnerRemovesResidue ==
  /\ \A w \in Writers : pc[w] \notin Holding
  /\ ~ Loadable
  /\ selectors' = {}
  /\ dirs' = [ g \in Generations |-> IF g = active THEN dirs[g] ELSE Absent ]
  /\ UNCHANGED <<lock, active, pc, base, result>>

WriterStep(w) ==
  \/ Acquire(w) \/ FindLocked(w) \/ WritePid(w) \/ Release(w)
  \/ Load(w) \/ LoadFails(w) \/ Refuse(w)
  \/ Copy(w) \/ Mutate(w) \/ Name(w) \/ Link(w) \/ Commit(w) \/ Fail(w)
  \/ Unlink(w) \/ RemoveDirectory(w) \/ \E part \in Parts : RemovePart(w, part)

VerifierStep(v) ==
  \/ VerifyLock(v) \/ VerifyRoot(v) \/ VerifySelector(v) \/ VerifyStates(v)
  \/ VerifyCanonicalArea(v) \/ VerifyDerivedArea(v) \/ VerifyDraftArea(v)
  \/ VerifyTree(v) \/ VerifyDossiers(v)

Fault ==
  \/ \E w \in Writers : Crash(w) \/ PidFails(w) \/ RemovalFails(w)
  \/ OwnerRemovesLock \/ OwnerRemovesResidue

Running == \/ \E w \in Writers : WriterStep(w)
           \/ \E v \in Verifiers : VerifierStep(v)

Next == Running \/ Fault

Spec == Init /\ [][Next]_vars

\* The system without faults.  A process that was started is run on by the
\* operating system until it ends; nothing obliges anyone to start it.
Started(p) == pc[p] # "start"

ReliableSpec ==
  /\ Init /\ [][Running]_vars
  /\ \A w \in Writers : WF_vars(Started(w) /\ WriterStep(w))
  /\ \A v \in Verifiers : WF_vars(Started(v) /\ VerifierStep(v))

-----------------------------------------------------------------------------
(***************************************************************************)
(* Properties.                                                             *)
(***************************************************************************)

\* Every variable stays in its type.
TypeOK ==
  /\ lock \in Writers \cup { None }
  /\ active \in Generations
  /\ dirs \in [ Generations -> Directory ]
  /\ selectors \subseteq Writers
  /\ pc \in [ Processes -> Places ]
  /\ base \in [ Processes -> Generations ]
  /\ result \in [ Processes -> Outcomes ]

\* Two commands never work on the states directory at the same time, also
\* when stale locks are removed after crashes.
MutualExclusion ==
  \A w1, w2 \in Writers : pc[w1] \in Holding /\ pc[w2] \in Holding => w1 = w2

\* .active always selects a finished, validated generation with nothing
\* missing, at whatever step a command is killed or a removal fails.
SelectedIsWhole == Whole(active)

\* The workspace is what the commands that were applied made of it, one
\* after the other: no update is lost, none is applied twice, a success was
\* applied, a refusal was not, and a killed command was applied or was not.
StatusOf(w) ==
  IF pc[w] = "dead" THEN "dead"
  ELSE IF pc[w] = "ended" THEN (IF result[w] = "ok" THEN "succeeded" ELSE "refused")
  ELSE IF result[w] = "ok" THEN "applied" ELSE "waiting"

Store == INSTANCE CommandStore WITH
           history <- dirs[active].value,
           status  <- [ w \in Writers |-> StatusOf(w) ]

AppliesCommandsAtomically == Store!Spec

\* "A failure before that rename removes the stage and leaves the selected
\* generation unchanged.  The old generation is removed only after the
\* selector commit.  .writer.lock is an exclusive transient file"
\* (FORMAT.md:44): when no command runs, nothing of a command is left.
CleanWhenIdle ==
  (\A w \in Writers : pc[w] \notin Holding) => lock = None /\ Loadable

\* verify holds no lock and may read a generation that is being removed.
\* When it does complain, a command is running or has replaced what it read.
VerifyComplainsForACause ==
  [][\A v \in Verifiers :
       pc[v] # "ended" /\ pc'[v] = "ended" /\ result'[v] \in { "alarm", "unusable" }
         => \/ \E w \in Writers : pc[w] \in Holding
            \/ active # base[v]]_vars

\* Every command and every verify that was started comes to an end.
EveryProcessEnds == \A p \in Processes : Started(p) ~> pc[p] = "ended"

\* verify "checks ... all currently published derived files" (README.md:189):
\* every published generation has its dossiers, so verify never reports them
\* missing or wrong.
VerifyReportsPublished == \A v \in Verifiers : result[v] # "unusable"
=============================================================================
