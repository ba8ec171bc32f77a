----------------------------- MODULE Initialization -----------------------------
(* initializeWorkspace (owner-facing-workbench-v1/core.mjs) takes no lock: it looks
   whether the root exists, builds a whole workspace beside it and renames that to the
   root.  Several inits may run for one root, while commands are tried on it already
   and someone makes, or takes away, an empty directory of that name.

   A directory is known by how far a workspace in it is built: 0 is no directory, 1 an
   empty one, then with the staged generation, the named generation, .active, and, in
   a whole workspace, the links to the areas.                                        *)
EXTENDS Naturals

CONSTANTS
  Initializers,  \* processes of init
  RootCommands,  \* processes of any other command
  Nobody,
  Owner,         \* whoever makes a directory by hand
  MaxMade        \* bound of the model: how often the owner does so

ASSUME InitializationAssumption ==
  /\ Nobody # Owner /\ {Nobody, Owner} \cap (Initializers \cup RootCommands) = {}
  /\ Initializers \cap RootCommands = {}
  /\ MaxMade \in Nat

VARIABLES
  root,    \* what the root's name stands for: who made it, how far, whose lock is in it
  tree,    \* how far the temporary directory of each init is built
  stands,  \* where each process is
  reply,   \* what each process says in the end
  made     \* how often the owner made a directory

initializationVars == <<root, tree, stands, reply, made>>

WholeTree == 5
NoRoot == [by |-> Nobody, built |-> 0, lock |-> Nobody]
RootExists == root.by # Nobody
EmptyDirectory == root.built = 1 /\ root.lock = Nobody

InitializationInit ==
  /\ root = NoRoot
  /\ tree = [i \in Initializers |-> 0]
  /\ stands = [p \in Initializers \cup RootCommands |-> "start"]
  /\ reply = [p \in Initializers \cup RootCommands |-> "none"]
  /\ made = 0

ProcessGoes(p, from, to) == stands[p] = from /\ stands' = [stands EXCEPT ![p] = to]
ProcessSays(p, a) == reply' = [reply EXCEPT ![p] = a]

-----------------------------------------------------------------------------
(* One init. *)

\* exists(root), before anything is made.
CheckRoot(i) ==
  /\ IF RootExists
     THEN ProcessGoes(i, "start", "ended") /\ ProcessSays(i, "ALREADY_INITIALIZED")
     ELSE ProcessGoes(i, "start", "build") /\ UNCHANGED reply
  /\ UNCHANGED <<root, tree, made>>

\* mkdir, the stage, its rename, .active, the links.
BuildTree(i) ==
  /\ ProcessGoes(i, "build", "build") /\ tree[i] < WholeTree
  /\ tree' = [tree EXCEPT ![i] = @ + 1]
  /\ UNCHANGED <<root, reply, made>>

\* Any of these may fail, the verifier of the stage included.
BuildFails(i) ==
  /\ ProcessGoes(i, "build", "clean")
  /\ ProcessSays(i, "failed")
  /\ UNCHANGED <<root, tree, made>>

\* Mutant: what is in the way is removed first.
RenameTreeOver(i) ==
  /\ ProcessGoes(i, "build", "return") /\ tree[i] = WholeTree
  /\ root' = [by |-> i, built |-> tree[i], lock |-> Nobody]
  /\ tree' = [tree EXCEPT ![i] = 0]
  /\ UNCHANGED <<reply, made>>

\* A directory is renamed to a name that is free or that of an empty directory.
RenameTree(i) ==
  /\ ProcessGoes(i, "build", "return") /\ tree[i] = WholeTree
  /\ ~RootExists \/ EmptyDirectory
  /\ root' = [by |-> i, built |-> tree[i], lock |-> Nobody]
  /\ tree' = [tree EXCEPT ![i] = 0]
  /\ UNCHANGED <<reply, made>>

\* Over any other directory the rename fails, with the one or the other error as the
\* file system likes; only EEXIST is told apart.
RenameRefused(i) ==
  /\ ProcessGoes(i, "build", "clean") /\ tree[i] = WholeTree
  /\ RootExists /\ ~EmptyDirectory
  /\ \E code \in {"EEXIST", "ENOTEMPTY"} :
       ProcessSays(i, IF code = "EEXIST" THEN "ALREADY_INITIALIZED" ELSE "INTERNAL")
  /\ UNCHANGED <<root, tree, made>>

ReturnIdentifier(i) ==
  /\ ProcessGoes(i, "return", "ended")
  /\ ProcessSays(i, "ok")
  /\ UNCHANGED <<root, tree, made>>

CleanUp(i) ==
  /\ ProcessGoes(i, "clean", "ended")
  /\ tree' = [tree EXCEPT ![i] = 0]
  /\ UNCHANGED <<root, reply, made>>

\* The error of the removal is swallowed.
CleanUpFails(i) ==
  /\ ProcessGoes(i, "clean", "stuck")
  /\ UNCHANGED <<root, tree, reply, made>>

KillInit(i) ==
  /\ \E place \in {"build", "return", "clean"} : ProcessGoes(i, place, "dead")
  /\ UNCHANGED <<root, tree, reply, made>>

-----------------------------------------------------------------------------
(* Another command on the same root: acquireWriter, loadWorkspace, release. *)

FindRoot(c) ==
  /\ IF RootExists
     THEN ProcessGoes(c, "start", "open") /\ UNCHANGED reply
     ELSE ProcessGoes(c, "start", "ended") /\ ProcessSays(c, "NOT_INITIALIZED")
  /\ UNCHANGED <<root, tree, made>>

OpenLock(c) ==
  /\ RootExists /\ root.lock = Nobody
  /\ ProcessGoes(c, "open", "load")
  /\ root' = [root EXCEPT !.lock = c]
  /\ UNCHANGED <<tree, reply, made>>

\* The directory has gone meanwhile, or another command holds the lock.
OpenLockFails(c) ==
  /\ ProcessGoes(c, "open", "ended")
  /\ \/ ~RootExists /\ ProcessSays(c, "INTERNAL")
     \/ RootExists /\ root.lock # Nobody /\ ProcessSays(c, "CONCURRENT_WRITER")
  /\ UNCHANGED <<root, tree, made>>

LoadRoot(c) ==
  /\ ProcessGoes(c, "load", "release")
  /\ ProcessSays(c, IF root.built = WholeTree THEN "ok" ELSE "CANONICAL_INTEGRITY")
  /\ UNCHANGED <<root, tree, made>>

ReleaseLock(c) ==
  /\ ProcessGoes(c, "release", "ended")
  /\ root' = [root EXCEPT !.lock = Nobody]
  /\ UNCHANGED <<tree, reply, made>>

KillCommand(c) ==
  /\ \E place \in {"open", "load", "release"} : ProcessGoes(c, place, "dead")
  /\ UNCHANGED <<root, tree, reply, made>>

-----------------------------------------------------------------------------
(* The owner at the root's name. *)

MakeDirectory ==
  /\ ~RootExists /\ made < MaxMade
  /\ root' = [by |-> Owner, built |-> 1, lock |-> Nobody]
  /\ made' = made + 1
  /\ UNCHANGED <<tree, stands, reply>>

RemoveDirectory ==
  /\ RootExists /\ EmptyDirectory
  /\ root' = NoRoot
  /\ UNCHANGED <<tree, stands, reply, made>>

InitializationNext ==
  \/ \E i \in Initializers :
       \/ CheckRoot(i) \/ BuildTree(i) \/ BuildFails(i) \/ RenameTree(i)
       \/ RenameRefused(i) \/ ReturnIdentifier(i) \/ CleanUp(i) \/ CleanUpFails(i)
       \/ KillInit(i)
  \/ \E c \in RootCommands :
       \/ FindRoot(c) \/ OpenLock(c) \/ OpenLockFails(c) \/ LoadRoot(c)
       \/ ReleaseLock(c) \/ KillCommand(c)
  \/ MakeDirectory \/ RemoveDirectory

InitializationSpec == InitializationInit /\ [][InitializationNext]_initializationVars

-----------------------------------------------------------------------------
(* Properties. *)

\* However many inits pass the existence check together (core.mjs:1988), one workspace
\* comes of them: it is of the init that announces it, never replaced, while an init that
\* ends otherwise has published nothing; and it is whole from its first moment, so that
\* what a command can lock it can load, unless the directory was made by hand.
OneWholeWorkspace ==
  /\ \A i \in Initializers : stands[i] \in {"ended", "stuck"} =>
       (reply[i] = "ok" <=> root.by = i /\ root.built = WholeTree)
  /\ made = 0 => \A c \in RootCommands : reply[c] # "CANONICAL_INTEGRITY"

=============================================================================
