----------------------------- MODULE OneUseReader -----------------------------
(* readOneUseTrace (tooling/author-call-result-schema-learning-v2.mjs): a protected trace
   may be shown once.  A reader commits the slot of its work root by an exclusive file
   before it opens the trace, and whatever happens then the slot stays spent.

   Several readers may run on one work root or on several, each may be killed, and
   someone may change the trace.  The fingerprint of a file is the number of its
   version: every change has a new one.                                           *)
EXTENDS Naturals, Sequences, FiniteSets

CONSTANTS
  ReaderProcesses,  \* processes that run the reader
  WorkRoots,        \* the work roots they may be given
  MaxVersions       \* bound of the model: versions of the trace

ASSUME ReaderAssumption == MaxVersions \in Nat \ {0} /\ WorkRoots # {}

VARIABLES
  slots,     \* [WorkRoots -> whether the marker is there]
  versions,  \* the contents the trace has had, the last is its content now
  readers    \* [ReaderProcesses -> [at, root, mark, bytes]]

readerVars == <<slots, versions, readers>>

TraceContents == {"retained", "other"}
NoReader == [at |-> "none", root |-> CHOOSE w \in WorkRoots : TRUE, mark |-> 0, bytes |-> "none"]

ReaderInit ==
  /\ slots = [w \in WorkRoots |-> FALSE]
  /\ versions = <<"retained">>
  /\ readers = [p \in ReaderProcesses |-> NoReader]

ReaderGoesTo(p, at) == readers' = [readers EXCEPT ![p].at = at]
OnlyReader == UNCHANGED <<slots, versions>>

\* The command line: which trace, which work root, under which authorization.
StartReader(p, w) ==
  /\ readers[p].at = "none"
  /\ readers' = [readers EXCEPT ![p] = [NoReader EXCEPT !.at = "pack", !.root = w]]
  /\ OnlyReader

\* The manifest, the anchors and the files of the pack are as they were accepted, or not.
VerifyExecutionPack(p) ==
  /\ readers[p].at = "pack"
  /\ ReaderGoesTo(p, "paths") \/ ReaderGoesTo(p, "refused")
  /\ OnlyReader

\* The work root is empty; the fingerprint of the trace is kept.
ValidatePaths(p) ==
  /\ readers[p].at = "paths"
  /\ \/ /\ ~slots[readers[p].root]
        /\ readers' = [readers EXCEPT ![p].at = "slot", ![p].mark = Len(versions)]
     \/ ReaderGoesTo(p, "refused")
  /\ OnlyReader

\* A mistake: the marker is written over one that is there.
CommitAnyway(p) ==
  /\ readers[p].at = "slot"
  /\ slots' = [slots EXCEPT ![readers[p].root] = TRUE]
  /\ ReaderGoesTo(p, "open") \/ ReaderGoesTo(p, "refused")
  /\ UNCHANGED versions
\* The exclusive create, the write and the two syncs; an error after the create leaves
\* the marker.
CommitReadSlot(p) ==
  /\ readers[p].at = "slot"
  /\ \/ /\ ~slots[readers[p].root]
        /\ slots' = [slots EXCEPT ![readers[p].root] = TRUE]
        /\ ReaderGoesTo(p, "open") \/ ReaderGoesTo(p, "refused")
     \/ ReaderGoesTo(p, "refused") /\ UNCHANGED slots
  /\ UNCHANGED versions

\* The file that is opened is the one whose path was looked at.
OpenTrace(p) ==
  /\ readers[p].at = "open"
  /\ \/ readers[p].mark = Len(versions) /\ ReaderGoesTo(p, "read")
     \/ ReaderGoesTo(p, "refused")
  /\ OnlyReader

ReadTrace(p) ==
  /\ readers[p].at = "read"
  /\ readers' = [readers EXCEPT ![p].at = "stat", ![p].bytes = versions[Len(versions)]]
  /\ OnlyReader

CompareFinalStat(p) ==
  /\ readers[p].at = "stat"
  /\ ReaderGoesTo(p, IF readers[p].mark = Len(versions) THEN "judge" ELSE "refused")
  /\ OnlyReader

\* The digest, then the form of the trace, its length and the time it took.
JudgeTrace(p) ==
  /\ readers[p].at = "judge"
  /\ \/ readers[p].bytes = "retained" /\ ReaderGoesTo(p, "shown")
     \/ ReaderGoesTo(p, "refused")
  /\ OnlyReader

ReaderKilled(p) ==
  /\ readers[p].at \notin {"none", "shown", "refused", "killed"}
  /\ ReaderGoesTo(p, "killed")
  /\ OnlyReader

SomeoneChangesTrace ==
  /\ Len(versions) < MaxVersions
  /\ \E content \in TraceContents : versions' = Append(versions, content)
  /\ UNCHANGED <<slots, readers>>

ReaderNext ==
  \/ \E p \in ReaderProcesses, w \in WorkRoots : StartReader(p, w)
  \/ \E p \in ReaderProcesses :
       \/ VerifyExecutionPack(p)
       \/ ValidatePaths(p)
       \/ CommitReadSlot(p)
       \/ OpenTrace(p)
       \/ ReadTrace(p)
       \/ CompareFinalStat(p)
       \/ JudgeTrace(p)
       \/ ReaderKilled(p)
  \/ SomeoneChangesTrace

ReaderSpec == ReaderInit /\ [][ReaderNext]_readerVars

-----------------------------------------------------------------------------
(* Properties.                                                                  *)

\* The bytes of the trace reached these processes.
HaveRead == {p \in ReaderProcesses : readers[p].bytes # "none"}

\* However readers race and are killed, a work root lets one of them at the trace, for
\* ever; and what is shown was the retained trace already when the slot was committed,
\* whatever was done to the file meanwhile.
TraceIsReadOncePerRoot ==
  /\ \A p, q \in HaveRead : readers[p].root = readers[q].root => p = q
  /\ \A p \in HaveRead : slots[readers[p].root]
  /\ \A p \in ReaderProcesses :
       readers[p].at = "shown" => versions[readers[p].mark] = "retained"

=============================================================================
