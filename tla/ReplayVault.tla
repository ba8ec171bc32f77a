---------------------------- MODULE ReplayVault ----------------------------
(* The vault of a replay attempt and the worker process that fills it
   (runtime/src/worker.mjs).  A worker is one operating-system process: it
   ingests one reveal bundle, or rebuilds the projection, and exits.  It may be
   killed between any two of its writes, at one of the two points where the
   controller asks it to kill itself, or by a timer.

   SHA-256 is taken to be injective, so the head of a hash chain IS the sequence
   of the bundles it was computed from, and the digest of a projection is the
   projection.  A bundle stands for everything its input digest covers.         *)
EXTENDS Integers, Sequences, SequencesExt, FiniteSets

CONSTANTS
  Sources,       \* the source documents a bundle can carry
  Candidates     \* the anchored passages of each source: Sources -> sets of ids

ASSUME CandidatesAssumption == \A s \in Sources : Candidates[s] # {}

VARIABLES
  commits,       \* vault/commits, in the order of their names
  selector,      \* vault/head.json: a chain head, NoHead when there is no file
  staging,       \* vault/staging: NoStage, or the one stage directory in it
  projection,    \* the projection directory
  worker         \* the worker process: arguments, position, answer

vaultVars == <<commits, selector, staging, projection>>

NoHead == <<>>
NoStage == [kind |-> "absent"]
EmptyStaging == [kind |-> "empty"]
NoProjection == [asOf |-> <<>>, deltas |-> <<>>, current |-> NoHead, complete |-> FALSE]

Faults == {"none", "before-publication", "after-publication"}

-----------------------------------------------------------------------------
(* The chain of commits.                                                       *)

\* The head a vault with these commits should select.
TerminalHead(c) == IF c = <<>> THEN NoHead ELSE Last(c).head

\* The checks of the loop over the commit directories: position, run,
\* previous head and own head.
ChainHolds(c) ==
  \A i \in 1..Len(c) :
    /\ c[i].bundle.order = i
    /\ c[i].bundle.run = c[1].bundle.run
    /\ c[i].previous = TerminalHead(SubSeq(c, 1, i - 1))
    /\ c[i].head = Append(c[i].previous, c[i].bundle)

SelectorExact(c, s) == s = TerminalHead(c)
\* Mutant: the selector that was never written is forgotten.
SelectorLagsAfterFirst(c, s) == Len(c) > 1 /\ s = Last(c).previous
SelectorLags(c, s) == c # <<>> /\ s = Last(c).previous

\* loadCommits with and without allowSelectorLag.
Loads(c, s) == ChainHolds(c) /\ SelectorExact(c, s)
LoadsOrLags(c, s) == ChainHolds(c) /\ (SelectorExact(c, s) \/ SelectorLags(c, s))

\* The commit a bundle would be published as, on top of the given head.
Checkpoint(bundle, previous) ==
  [bundle |-> bundle, previous |-> previous, head |-> Append(previous, bundle)]

\* The commits that hold exactly the bundles b, honestly chained.
Chained(b) == [i \in 1..Len(b) |-> Checkpoint(b[i], SubSeq(b, 1, i - 1))]

BundlesOf(c) == [i \in 1..Len(c) |-> c[i].bundle]

-----------------------------------------------------------------------------
(* The projection: what the dossiers and deltas of a vault are.                *)

\* The steps, among the first n, whose source holds candidate id.
Occurrences(c, id, n) == {k \in 1..n : id \in Candidates[c[k].bundle.source]}

DossierFor(c, n) ==
  LET ids == UNION {Candidates[c[k].bundle.source] : k \in 1..n}
  IN  [head |-> TerminalHead(SubSeq(c, 1, n)),
       passages |-> [id \in ids |-> Occurrences(c, id, n)]]

NoDossier == [head |-> NoHead, passages |-> [id \in {} |-> {}]]

\* Mutant: a passage that occurs again is not a change.
DeltaOfNewPassages(before, after) ==
  LET old == DOMAIN before.passages
      new == DOMAIN after.passages
  IN  [added |-> new \ old, removed |-> old \ new, changed |-> new \ old]

\* The delta between the dossiers of two consecutive steps.
DeltaBetween(before, after) ==
  LET old == DOMAIN before.passages
      new == DOMAIN after.passages
  IN  [added |-> new \ old,
       removed |-> old \ new,
       changed |-> {id \in new : \/ id \notin old
                                 \/ Cardinality(before.passages[id])
                                      # Cardinality(after.passages[id])}]

\* One turn of the loop that writes the dossier and the delta of a step.
WithStepProjected(p, c, n) ==
  LET before == IF n = 1 THEN NoDossier ELSE DossierFor(c, n - 1)
      dossier == DossierFor(c, n)
  IN  [p EXCEPT !.asOf = Append(@, dossier),
                !.deltas = Append(@, DeltaBetween(before, dossier))]

-----------------------------------------------------------------------------
(* The worker process.                                                         *)

NoBundle == [run |-> "none", order |-> 0, source |-> "none"]
NoReply == [action |-> "none", head |-> NoHead, count |-> 0, projection |-> NoProjection]

IdleWorker == [pc |-> "idle", action |-> "none", bundle |-> NoBundle, fault |-> "none",
               previous |-> NoHead, outcome |-> "none", killedBy |-> "none",
               reply |-> NoReply]

Started(action, bundle, fault) ==
  [IdleWorker EXCEPT !.pc = IF action = "rebuild" THEN "wipe"
                            ELSE IF action = "probe" THEN "reply" ELSE "load",
                     !.action = action, !.bundle = bundle, !.fault = fault,
                     !.outcome = IF action = "ingest" THEN "none" ELSE action]

WorkerRuns == worker.pc \notin {"idle", "exited", "failed", "killed"}
WorkerEnded == worker.pc \in {"exited", "failed", "killed"}

To(pc) == worker' = [worker EXCEPT !.pc = pc]

\* An uncaught error: exit code 1, nothing more is written.
Fail == To("failed") /\ UNCHANGED vaultVars

\* A process that is killed leaves the directory as it is.
Die(by) ==
  /\ worker' = [worker EXCEPT !.pc = "killed", !.killedBy = by]
  /\ UNCHANGED vaultVars

IsKnown(bundle) == \E i \in 1..Len(commits) : commits[i].bundle = bundle

\* Whether an ingest of this bundle gets past its checks, given the vault.
Recoverable(bundle) ==
  /\ LoadsOrLags(commits, selector)
  /\ commits # <<>> => commits[1].bundle.run = bundle.run
  /\ SelectorLags(commits, selector) => Last(commits).bundle = bundle
Acceptable(bundle) ==
  Recoverable(bundle) /\ (IsKnown(bundle) \/ bundle.order = Len(commits) + 1)

\* The start of ingest: the bundle is checked and extracted, the commits are
\* loaded, a lagging selector is moved forward to the one commit it misses, and
\* an event that is already there goes straight to the projection.
LoadForIngest ==
  /\ worker.pc = "load"
  /\ IF ~Recoverable(worker.bundle)
       THEN Fail
       ELSE /\ selector' = TerminalHead(commits)
            /\ IF IsKnown(worker.bundle)
                 THEN worker' = [worker EXCEPT !.pc = "wipe", !.outcome = "exact-redelivery"]
                 ELSE IF worker.bundle.order # Len(commits) + 1
                        THEN To("failed")
                        ELSE worker' = [worker EXCEPT !.pc = "clear",
                                                      !.outcome = "published",
                                                      !.previous = TerminalHead(commits)]
            /\ UNCHANGED <<commits, staging, projection>>

ClearStaging ==
  /\ worker.pc = "clear"
  /\ staging' = NoStage
  /\ To("stage")
  /\ UNCHANGED <<commits, selector, projection>>

\* The three files of the stage; a kill between them leaves a partial one.
BeginStage ==
  /\ worker.pc = "stage"
  /\ staging' = [kind |-> "partial", bundle |-> worker.bundle]
  /\ To("staged")
  /\ UNCHANGED <<commits, selector, projection>>

CompleteStage ==
  /\ worker.pc = "staged"
  /\ staging' = [kind |-> "complete", bundle |-> worker.bundle]
  /\ To(IF worker.fault = "before-publication" THEN "die" ELSE "publish")
  /\ UNCHANGED <<commits, selector, projection>>

\* rename(stage, commitRoot).
PublishCommit ==
  /\ worker.pc = "publish"
  /\ commits' = Append(commits, Checkpoint(worker.bundle, worker.previous))
  /\ staging' = EmptyStaging
  /\ To("tidy")
  /\ UNCHANGED <<selector, projection>>

TidyStaging ==
  /\ worker.pc = "tidy"
  /\ staging' = NoStage
  /\ To(IF worker.fault = "after-publication" THEN "die" ELSE "select")
  /\ UNCHANGED <<commits, selector, projection>>

\* process.kill(process.pid, faultSignal).
KillItself == worker.pc = "die" /\ Die("fault")

SelectHead ==
  /\ worker.pc = "select"
  /\ selector' = Append(worker.previous, worker.bundle)
  /\ To("confirm")
  /\ UNCHANGED <<commits, staging, projection>>

\* The commits are loaded once more, strictly.
ConfirmCommit ==
  /\ worker.pc = "confirm"
  /\ To(IF Loads(commits, selector) /\ Len(commits) = worker.bundle.order
          THEN "wipe" ELSE "failed")
  /\ UNCHANGED vaultVars

\* rebuildProjection: load strictly, remove the old projection, write the steps
\* one by one and the current dossier last, and read everything back.
WipeProjection ==
  /\ worker.pc = "wipe"
  /\ IF Loads(commits, selector)
       THEN projection' = NoProjection /\ To("project")
       ELSE projection' = projection /\ To("failed")
  /\ UNCHANGED <<commits, selector, staging>>

ProjectStep ==
  /\ worker.pc = "project"
  /\ Len(projection.asOf) < Len(commits)
  /\ projection' = WithStepProjected(projection, commits, Len(projection.asOf) + 1)
  /\ UNCHANGED <<commits, selector, staging, worker>>

ProjectCurrent ==
  /\ worker.pc = "project"
  /\ Len(projection.asOf) = Len(commits)
  /\ projection' = [projection EXCEPT !.current = TerminalHead(commits), !.complete = TRUE]
  /\ To("reply")
  /\ UNCHANGED <<commits, selector, staging>>

Reply ==
  /\ worker.pc = "reply"
  /\ worker' = [worker EXCEPT
                  !.pc = "exited",
                  !.reply = IF worker.action = "probe" THEN NoReply
                            ELSE [action |-> worker.outcome, head |-> projection.current,
                                  count |-> Len(projection.asOf), projection |-> projection]]
  /\ UNCHANGED vaultVars

WorkerStep ==
  \/ LoadForIngest
  \/ ClearStaging
  \/ BeginStage
  \/ CompleteStage
  \/ PublishCommit
  \/ TidyStaging
  \/ KillItself
  \/ SelectHead
  \/ ConfirmCommit
  \/ WipeProjection
  \/ ProjectStep
  \/ ProjectCurrent
  \/ Reply

VaultInit ==
  /\ commits = <<>>
  /\ selector = NoHead
  /\ staging = NoStage
  /\ projection = NoProjection
  /\ worker = IdleWorker

=============================================================================
