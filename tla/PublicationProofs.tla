------------------------- MODULE PublicationProofs --------------------------
(***************************************************************************)
(* For any set of commands and verifies, and whatever crashes and removals *)
(* fail: commands exclude each other, the selected generation is whole,    *)
(* and the workspace implements CommandStore.  Without faults nothing of a *)
(* command is left behind, and verify raises no false alarm.               *)
(***************************************************************************)
EXTENDS Publication, TLAPS

Preparing == { "copy", "mutate", "name", "link", "commit" }

\* A command between taking and giving back the lock is the one named in it.
HoldersHold == \A w \in Writers : pc[w] \in Holding => lock = w

\* Only a command that committed is selected.
SelectedCommitted == active \in Writers => result[active] = "ok"

\* What a command knows of itself and of the selected generation.
ResultsSoFar ==
  \A w \in Writers :
    /\ pc[w] \in { "start", "pid", "load" } \cup Preparing => result[w] = "none"
    /\ pc[w] \in { "unlink", "discard" } => result[w] = "failed"

BasesAreSelected ==
  \A w \in Writers :
    /\ pc[w] \in Preparing => base[w] = active
    /\ pc[w] = "retire" => active = w /\ base[w] # w

\* A generation that is about to be selected is whole and extends the
\* selected one by the command that made it.
NextIsWhole ==
  \A w \in Writers :
    /\ pc[w] \in { "name", "link", "commit" } =>
         /\ dirs[w].parts = Parts
         /\ dirs[w].value = Append(dirs[active].value, w)
    /\ pc[w] \in { "link", "commit" } => dirs[w].kind = "state"

\* MutualExclusion and SelectedIsWhole are not inductive by themselves: that
\* a commit selects a whole generation rests on NextIsWhole, which rests on
\* the base still being selected, which rests on the lock.
IInv ==
  /\ TypeOK
  /\ HoldersHold
  /\ SelectedIsWhole
  /\ SelectedCommitted
  /\ ResultsSoFar
  /\ BasesAreSelected
  /\ NextIsWhole

-----------------------------------------------------------------------------
\* The initial generation is whole and no command has started.
LEMMA InitEstablishes == Init => IInv
  <1> SUFFICES ASSUME Init PROVE IInv
    OBVIOUS
  <1>1. TypeOK
    BY ProcessAssumption
    DEF Init, TypeOK, Generations, Processes, Directory, Absent, Parts, Places, Outcomes
  <1>2. QED
    BY <1>1, ProcessAssumption
    DEF Init, IInv, HoldersHold, SelectedIsWhole, SelectedCommitted,
        ResultsSoFar, BasesAreSelected, NextIsWhole, Whole, Holding,
        Preparing, Generations, Processes

\* What .states may hold under a name: nothing, an empty stage, or what is
\* left of a directory.
LEMMA DirectoriesAreTyped ==
  /\ Absent \in Directory
  /\ [ Absent EXCEPT !.kind = "stage" ] \in Directory
  /\ \A d \in Directory, P \in SUBSET Parts : [ d EXCEPT !.parts = P ] \in Directory
  <1>1. <<>> \in Seq(Writers)
    OBVIOUS
  <1>2. QED
    BY <1>1 DEF Absent, Directory

\* Moving a process to a place and giving it a result keeps their types.
LEMMA MovesKeepTypes ==
  ASSUME TypeOK, NEW p \in Processes, NEW to \in Places, NEW r \in Outcomes
  PROVE  /\ [ pc EXCEPT ![p] = to ] \in [ Processes -> Places ]
         /\ [ result EXCEPT ![p] = r ] \in [ Processes -> Outcomes ]
  BY DEF TypeOK

\* Steps of a command keep the variables in their types.
LEMMA WriterKeepsTypes ==
  ASSUME TypeOK, NEW w \in Writers,
         WriterStep(w) \/ Crash(w) \/ PidFails(w) \/ RemovalFails(w)
  PROVE  TypeOK'
  <1> DEFINE ControlOK == /\ pc' \in [ Processes -> Places ]
                          /\ result' \in [ Processes -> Outcomes ]
             DataOK == /\ lock' \in Writers \cup { None }
                       /\ active' \in Generations
                       /\ dirs' \in [ Generations -> Directory ]
                       /\ selectors' \subseteq Writers
                       /\ base' \in [ Processes -> Generations ]
  <1>p. w \in Processes
    BY DEF Processes
  <1>0. /\ Holding \cup { "ended", "dead" } \subseteq Places
        /\ { "ok", "failed", "refused", "locked", "unloadable" } \subseteq Outcomes
        /\ pc \in [ Processes -> Places ]
        /\ result \in [ Processes -> Outcomes ]
    BY DEF Places, Outcomes, TypeOK
  <1>1. ControlOK
    <2> HIDE DEF ControlOK
    <2>1. /\ \A to \in Holding \cup { "ended", "dead" } :
               [ pc EXCEPT ![w] = to ] \in [ Processes -> Places ]
          /\ \A r \in { "ok", "failed", "refused", "locked", "unloadable" } :
               [ result EXCEPT ![w] = r ] \in [ Processes -> Outcomes ]
      BY <1>p, <1>0, MovesKeepTypes
    <2> USE DEF ControlOK
    <2> USE <2>1, <1>0 DEF Goes, Results, Holding
    <2>2. CASE Acquire(w) \/ FindLocked(w) \/ WritePid(w) \/ Release(w)
      BY <2>2 DEF Acquire, FindLocked, WritePid, Release
    <2>3. CASE Load(w) \/ LoadFails(w) \/ Refuse(w)
      BY <2>3 DEF Load, LoadFails, Refuse
    <2>4. CASE Copy(w) \/ Mutate(w) \/ Name(w) \/ Link(w)
      BY <2>4 DEF Copy, Mutate, Name, Link
    <2>5. CASE Commit(w) \/ Fail(w) \/ Unlink(w)
      BY <2>5 DEF Commit, Fail, Unlink
    <2>6. CASE RemoveDirectory(w) \/ \E part \in Parts : RemovePart(w, part)
      BY <2>6 DEF RemoveDirectory, RemovePart
    <2>7. CASE Crash(w) \/ PidFails(w) \/ RemovalFails(w)
      BY <2>7 DEF Crash, PidFails, RemovalFails
    <2>8. QED
      BY <2>2, <2>3, <2>4, <2>5, <2>6, <2>7 DEF WriterStep
  <1>2. DataOK
    <2> USE <1>p DEF TypeOK, Generations
    <2>1. CASE \/ Acquire(w) \/ FindLocked(w) \/ WritePid(w) \/ Release(w)
               \/ Load(w) \/ LoadFails(w) \/ Refuse(w)
      BY <2>1 DEF Acquire, FindLocked, WritePid, Release, Load, LoadFails, Refuse
    <2>2. CASE Copy(w)
      BY <2>2, DirectoriesAreTyped DEF Copy
    <2>3. CASE Mutate(w)
      <3>1. dirs[base[w]].value \in Seq(Writers)
        BY <1>p DEF Directory
      <3>2. Append(dirs[base[w]].value, w) \in Seq(Writers)
        BY <3>1
      <3>3. QED
        BY <2>3, <3>2 DEF Mutate, Directory
    <2>4. CASE Name(w)
      BY <2>4 DEF Name, Directory
    <2>5. CASE Link(w) \/ Commit(w) \/ Fail(w) \/ Unlink(w)
      BY <2>5 DEF Link, Commit, Fail, Unlink
    <2>6. CASE RemoveDirectory(w) \/ \E part \in Parts : RemovePart(w, part)
      <3>1. Doomed(w) \in Generations
        BY DEF Doomed
      <3>2. dirs[Doomed(w)] \in Directory /\ dirs[Doomed(w)].parts \subseteq Parts
        BY <3>1 DEF Directory
      <3>3. CASE RemoveDirectory(w)
        BY <3>1, <3>3, DirectoriesAreTyped DEF RemoveDirectory
      <3>4. ASSUME NEW part \in Parts, RemovePart(w, part)
            PROVE  DataOK
        <4>1. dirs' = [ dirs EXCEPT ![Doomed(w)] =
                          [ dirs[Doomed(w)] EXCEPT !.parts = @ \ { part } ] ]
          BY <3>4 DEF RemovePart
        <4>2. [ dirs[Doomed(w)] EXCEPT !.parts = @ \ { part } ] \in Directory
          BY <3>2, DirectoriesAreTyped
        <4>3. QED
          BY <3>1, <3>4, <4>1, <4>2 DEF RemovePart
      <3>5. QED
        BY <2>6, <3>3, <3>4
    <2>7. CASE Crash(w) \/ PidFails(w) \/ RemovalFails(w)
      BY <2>7 DEF Crash, PidFails, RemovalFails
    <2>8. QED
      BY <2>1, <2>2, <2>3, <2>4, <2>5, <2>6, <2>7 DEF WriterStep
  <1>3. QED
    BY <1>1, <1>2 DEF TypeOK

\* A verify changes nothing but what it knows itself.
LEMMA VerifierIsQuiet ==
  ASSUME TypeOK, NEW v \in Verifiers, VerifierStep(v)
  PROVE  /\ TypeOK'
         /\ UNCHANGED <<lock, active, dirs, selectors>>
         /\ \A p \in Processes \ { v } : /\ pc'[p] = pc[p]
                                         /\ base'[p] = base[p]
                                         /\ result'[p] = result[p]
  <1> USE ProcessAssumption
  <1>p. v \in Processes /\ v \notin Writers
    BY DEF Processes
  <1>1. /\ \E to \in Places : pc' = [ pc EXCEPT ![v] = to ]
        /\ \E r \in Outcomes : result' = [ result EXCEPT ![v] = r ]
    <2> USE <1>p DEF Goes, Results, Alarm, Places, Outcomes, TypeOK
    <2>1. CASE VerifyLock(v) \/ VerifyRoot(v) \/ VerifySelector(v) \/ VerifyStates(v)
      BY <2>1 DEF VerifyLock, VerifyRoot, VerifySelector, VerifyStates
    <2>2. CASE VerifyCanonicalArea(v) \/ VerifyDerivedArea(v) \/ VerifyDraftArea(v)
      BY <2>2 DEF VerifyCanonicalArea, VerifyDerivedArea, VerifyDraftArea
    <2>3. CASE VerifyTree(v) \/ VerifyDossiers(v)
      BY <2>3 DEF VerifyTree, VerifyDossiers
    <2>4. QED
      BY <2>1, <2>2, <2>3 DEF VerifierStep
  <1>2. /\ UNCHANGED <<lock, active, dirs, selectors>>
        /\ base' = base \/ base' = [ base EXCEPT ![v] = active ]
    BY DEF VerifierStep, VerifyLock, VerifyRoot, VerifySelector, VerifyStates,
           VerifyCanonicalArea, VerifyDerivedArea, VerifyDraftArea, VerifyTree,
           VerifyDossiers
  <1>3. QED
    BY <1>p, <1>1, <1>2 DEF TypeOK, Processes

-----------------------------------------------------------------------------
\* A step of one command is seen by the others only in the shared files.
LEMMA OthersDoNotMove ==
  ASSUME TypeOK, NEW w \in Writers,
         WriterStep(w) \/ Crash(w) \/ PidFails(w) \/ RemovalFails(w)
  PROVE  \A u \in Processes \ { w } : /\ pc'[u] = pc[u]
                                      /\ base'[u] = base[u]
                                      /\ result'[u] = result[u]
  <1> USE DEF TypeOK, Processes, Goes, Results
  <1>1. CASE Acquire(w) \/ FindLocked(w) \/ WritePid(w) \/ Release(w)
    BY <1>1 DEF Acquire, FindLocked, WritePid, Release
  <1>2. CASE Load(w) \/ LoadFails(w) \/ Refuse(w)
    BY <1>2 DEF Load, LoadFails, Refuse
  <1>3. CASE Copy(w) \/ Mutate(w) \/ Name(w) \/ Link(w)
    BY <1>3 DEF Copy, Mutate, Name, Link
  <1>4. CASE Commit(w) \/ Fail(w) \/ Unlink(w)
    BY <1>4 DEF Commit, Fail, Unlink
  <1>5. CASE RemoveDirectory(w) \/ \E part \in Parts : RemovePart(w, part)
    BY <1>5 DEF RemoveDirectory, RemovePart
  <1>6. CASE Crash(w) \/ PidFails(w) \/ RemovalFails(w)
    BY <1>6 DEF Crash, PidFails, RemovalFails
  <1>7. QED
    BY <1>1, <1>2, <1>3, <1>4, <1>5, <1>6 DEF WriterStep

\* Every step of a command, killed or not, preserves the invariant.
LEMMA WriterKeepsInvariant ==
  ASSUME IInv, NEW w \in Writers,
         WriterStep(w) \/ Crash(w) \/ PidFails(w) \/ RemovalFails(w)
  PROVE  IInv'
  <1> USE ProcessAssumption
  <1>t. TypeOK'
    BY WriterKeepsTypes DEF IInv
  <1>p. /\ w \in Processes /\ w \in Generations
        /\ pc \in [ Processes -> Places ]
        /\ base \in [ Processes -> Generations ]
        /\ result \in [ Processes -> Outcomes ]
        /\ dirs \in [ Generations -> Directory ]
        /\ active \in Generations
    BY DEF Processes, Generations, TypeOK, IInv
  <1>u. \A u \in Writers \ { w } : /\ pc'[u] = pc[u]
                                   /\ base'[u] = base[u]
                                   /\ result'[u] = result[u]
    BY OthersDoNotMove DEF IInv, Processes
  <1>1. CASE Acquire(w)
    <2>1. /\ pc[w] = "start" /\ pc'[w] = "pid"
          /\ lock = None /\ lock' = w
          /\ UNCHANGED <<active, dirs, base, result>>
      BY <1>1, <1>p DEF Acquire, Goes
    <2>2. HoldersHold'
      BY <2>1, <1>u DEF IInv, HoldersHold
    <2>3. ResultsSoFar' /\ BasesAreSelected' /\ NextIsWhole'
      BY <2>1, <1>u DEF IInv, ResultsSoFar, BasesAreSelected, NextIsWhole, Preparing
    <2>4. QED
      BY <1>t, <2>1, <2>2, <2>3 DEF IInv, SelectedIsWhole, SelectedCommitted, Whole
  <1>2. CASE WritePid(w)
    <2>1. /\ pc[w] = "pid" /\ pc'[w] = "load"
          /\ UNCHANGED <<lock, active, dirs, base, result>>
      BY <1>2, <1>p DEF WritePid, Goes
    <2>2. HoldersHold'
      BY <2>1, <1>u DEF IInv, HoldersHold, Holding
    <2>3. ResultsSoFar' /\ BasesAreSelected' /\ NextIsWhole'
      BY <2>1, <1>u DEF IInv, ResultsSoFar, BasesAreSelected, NextIsWhole, Preparing
    <2>4. QED
      BY <1>t, <2>1, <2>2, <2>3 DEF IInv, SelectedIsWhole, SelectedCommitted, Whole
  <1>3. CASE Load(w)
    <2>1. /\ pc[w] = "load" /\ pc'[w] = "copy"
          /\ base'[w] = active
          /\ UNCHANGED <<lock, active, dirs, result>>
      BY <1>3, <1>p DEF Load, Goes
    <2>2. HoldersHold'
      BY <2>1, <1>u DEF IInv, HoldersHold, Holding
    <2>3. ResultsSoFar' /\ BasesAreSelected' /\ NextIsWhole'
      BY <2>1, <1>u DEF IInv, ResultsSoFar, BasesAreSelected, NextIsWhole, Preparing
    <2>4. QED
      BY <1>t, <2>1, <2>2, <2>3 DEF IInv, SelectedIsWhole, SelectedCommitted, Whole
  <1>4. CASE Copy(w)
    <2>1. /\ pc[w] = "copy" /\ pc'[w] = "mutate"
          /\ UNCHANGED <<lock, active, base, result>>
          /\ \A g \in Generations \ { w } : dirs'[g] = dirs[g]
      BY <1>4, <1>p DEF Copy, Goes
    <2>2. HoldersHold' /\ \A u \in Writers \ { w } : pc[u] \notin Holding
      BY <2>1, <1>u DEF IInv, HoldersHold, Holding
    <2>3. active # w
      BY <2>1 DEF IInv, SelectedCommitted, ResultsSoFar, Preparing
    <2>4. ResultsSoFar' /\ BasesAreSelected' /\ NextIsWhole'
      BY <2>1, <2>2, <1>u DEF IInv, ResultsSoFar, BasesAreSelected, NextIsWhole,
                              Preparing, Holding
    <2>5. QED
      BY <1>t, <1>p, <2>1, <2>2, <2>3, <2>4
      DEF IInv, SelectedIsWhole, SelectedCommitted, Whole
  <1>5. CASE Mutate(w)
    <2>1. /\ pc[w] = "mutate" /\ pc'[w] = "name"
          /\ UNCHANGED <<lock, active, base, result>>
          /\ \A g \in Generations \ { w } : dirs'[g] = dirs[g]
          /\ dirs'[w].parts = Parts
          /\ dirs'[w].value = Append(dirs[base[w]].value, w)
      BY <1>5, <1>p DEF Mutate, Goes, Directory
    <2>2. HoldersHold' /\ \A u \in Writers \ { w } : pc[u] \notin Holding
      BY <2>1, <1>u DEF IInv, HoldersHold, Holding
    <2>3. active # w /\ base[w] = active
      BY <2>1 DEF IInv, SelectedCommitted, ResultsSoFar, BasesAreSelected, Preparing
    <2>4. dirs'[active] = dirs[active]
      BY <2>1, <2>3, <1>p
    <2>5. NextIsWhole'
      BY <2>1, <2>2, <2>3, <2>4, <1>u DEF NextIsWhole, Holding
    <2>6. ResultsSoFar' /\ BasesAreSelected'
      BY <2>1, <2>2, <1>u DEF IInv, ResultsSoFar, BasesAreSelected, Preparing, Holding
    <2>7. QED
      BY <1>t, <2>1, <2>2, <2>3, <2>4, <2>5, <2>6
      DEF IInv, SelectedIsWhole, SelectedCommitted, Whole
  <1>6. CASE Name(w)
    <2>1. /\ pc[w] = "name" /\ pc'[w] = "link"
          /\ UNCHANGED <<lock, active, base, result>>
          /\ \A g \in Generations \ { w } : dirs'[g] = dirs[g]
          /\ dirs'[w].kind = "state"
          /\ dirs'[w].parts = dirs[w].parts
          /\ dirs'[w].value = dirs[w].value
      BY <1>6, <1>p DEF Name, Goes, Directory
    <2>2. HoldersHold' /\ \A u \in Writers \ { w } : pc[u] \notin Holding
      BY <2>1, <1>u DEF IInv, HoldersHold, Holding
    <2>3. active # w
      BY <2>1 DEF IInv, SelectedCommitted, ResultsSoFar, Preparing
    <2>4. dirs'[active] = dirs[active]
      BY <2>1, <2>3, <1>p
    <2>5. NextIsWhole'
      BY <2>1, <2>2, <2>4, <1>u DEF IInv, NextIsWhole, Holding
    <2>6. ResultsSoFar' /\ BasesAreSelected'
      BY <2>1, <2>2, <1>u DEF IInv, ResultsSoFar, BasesAreSelected, Preparing, Holding
    <2>7. QED
      BY <1>t, <2>1, <2>2, <2>3, <2>4, <2>5, <2>6
      DEF IInv, SelectedIsWhole, SelectedCommitted, Whole
  <1>7. CASE Link(w)
    <2>1. /\ pc[w] = "link" /\ pc'[w] = "commit"
          /\ UNCHANGED <<lock, active, dirs, base, result>>
      BY <1>7, <1>p DEF Link, Goes
    <2>2. HoldersHold'
      BY <2>1, <1>u DEF IInv, HoldersHold, Holding
    <2>3. ResultsSoFar' /\ BasesAreSelected' /\ NextIsWhole'
      BY <2>1, <1>u DEF IInv, ResultsSoFar, BasesAreSelected, NextIsWhole, Preparing
    <2>4. QED
      BY <1>t, <2>1, <2>2, <2>3 DEF IInv, SelectedIsWhole, SelectedCommitted, Whole
  <1>8. CASE Commit(w)
    <2>1. /\ pc[w] = "commit" /\ pc'[w] = "retire"
          /\ active' = w /\ result'[w] = "ok"
          /\ UNCHANGED <<lock, dirs, base>>
      BY <1>8, <1>p DEF Commit, Goes, Results
    <2>2. HoldersHold' /\ \A u \in Writers \ { w } : pc[u] \notin Holding
      BY <2>1, <1>u DEF IInv, HoldersHold, Holding
    <2>3. base[w] # w /\ Whole(w)
      BY <2>1 DEF IInv, SelectedCommitted, ResultsSoFar, BasesAreSelected,
                  NextIsWhole, Whole, Preparing
    <2>4. BasesAreSelected'
      BY <2>1, <2>2, <2>3, <1>u DEF BasesAreSelected, Preparing, Holding
    <2>5. ResultsSoFar' /\ NextIsWhole'
      BY <2>1, <2>2, <1>u DEF IInv, ResultsSoFar, NextIsWhole, Preparing, Holding
    <2>6. QED
      BY <1>t, <2>1, <2>2, <2>3, <2>4, <2>5
      DEF IInv, SelectedIsWhole, SelectedCommitted, Whole
  <1>9. CASE Fail(w) \/ Unlink(w)
    <2>1. /\ \/ pc[w] \in { "mutate", "name", "link", "commit" } /\ pc'[w] = "unlink"
                /\ result'[w] = "failed"
             \/ pc[w] = "unlink" /\ pc'[w] = "discard" /\ result' = result
          /\ UNCHANGED <<lock, active, dirs, base>>
      BY <1>9, <1>p DEF Fail, Unlink, Goes, Results
    <2>2. HoldersHold'
      BY <2>1, <1>u DEF IInv, HoldersHold, Holding
    <2>3. active # w
      BY <2>1 DEF IInv, SelectedCommitted, ResultsSoFar, Preparing
    <2>4. ResultsSoFar' /\ BasesAreSelected' /\ NextIsWhole'
      BY <2>1, <1>u DEF IInv, ResultsSoFar, BasesAreSelected, NextIsWhole, Preparing
    <2>5. QED
      BY <1>t, <1>u, <2>1, <2>2, <2>3, <2>4
      DEF IInv, SelectedIsWhole, SelectedCommitted, Whole
  <1>10. CASE RemoveDirectory(w) \/ \E part \in Parts : RemovePart(w, part)
    <2>1. /\ pc[w] \in { "discard", "retire" }
          /\ pc'[w] = "release" \/ pc'[w] = pc[w]
          /\ UNCHANGED <<lock, active, base, result>>
          /\ \A g \in Generations \ { Doomed(w) } : dirs'[g] = dirs[g]
      BY <1>10, <1>p DEF RemoveDirectory, RemovePart, Goes
    <2>2. HoldersHold' /\ \A u \in Writers \ { w } : pc[u] \notin Holding
      BY <2>1, <1>u DEF IInv, HoldersHold, Holding
    <2>3. active # Doomed(w)
      BY <2>1 DEF IInv, SelectedCommitted, ResultsSoFar, BasesAreSelected, Doomed
    <2>4. ResultsSoFar' /\ BasesAreSelected' /\ NextIsWhole'
      BY <2>1, <2>2, <1>u DEF IInv, ResultsSoFar, BasesAreSelected, NextIsWhole,
                              Preparing, Holding
    <2>5. QED
      BY <1>t, <1>p, <2>1, <2>2, <2>3, <2>4
      DEF IInv, SelectedIsWhole, SelectedCommitted, Whole
  <1>11. CASE FindLocked(w) \/ LoadFails(w) \/ Refuse(w) \/ PidFails(w)
    <2>1. /\ pc[w] \in { "start", "load", "copy", "pid" }
          /\ \/ pc'[w] = "ended"
             \/ pc[w] \in Holding /\ pc'[w] = "release"
          /\ UNCHANGED <<lock, active, dirs, base>>
      BY <1>11, <1>p DEF FindLocked, LoadFails, Refuse, PidFails, Goes, Holding
    <2>2. HoldersHold'
      BY <2>1, <1>u DEF IInv, HoldersHold, Holding
    <2>3. active # w
      BY <2>1 DEF IInv, SelectedCommitted, ResultsSoFar, Preparing
    <2>4. ResultsSoFar' /\ BasesAreSelected' /\ NextIsWhole'
      BY <2>1, <1>u DEF IInv, ResultsSoFar, BasesAreSelected, NextIsWhole,
                        Preparing, Holding
    <2>5. QED
      BY <1>t, <1>u, <2>1, <2>2, <2>3, <2>4
      DEF IInv, SelectedIsWhole, SelectedCommitted, Whole
  <1>12. CASE Release(w) \/ Crash(w) \/ RemovalFails(w)
    <2>1. /\ pc[w] \in Holding
          /\ \/ pc'[w] \in { "ended", "dead" }
             \/ pc[w] = "unlink" /\ pc'[w] = "discard" /\ lock' = lock
             \/ pc'[w] = "release" /\ lock' = lock
          /\ UNCHANGED <<active, dirs, base, result>>
      BY <1>12, <1>p DEF Release, Crash, RemovalFails, Goes, Holding
    <2>2. HoldersHold' /\ \A u \in Writers \ { w } : pc[u] \notin Holding
      BY <2>1, <1>u DEF IInv, HoldersHold, Holding
    <2>3. ResultsSoFar' /\ BasesAreSelected' /\ NextIsWhole'
      BY <2>1, <2>2, <1>u DEF IInv, ResultsSoFar, BasesAreSelected, NextIsWhole,
                              Preparing, Holding
    <2>4. QED
      BY <1>t, <2>1, <2>2, <2>3 DEF IInv, SelectedIsWhole, SelectedCommitted, Whole
  <1>13. QED
    BY <1>1, <1>2, <1>3, <1>4, <1>5, <1>6, <1>7, <1>8, <1>9, <1>10, <1>11, <1>12
    DEF WriterStep

\* The owner's repairs keep the selected generation and disturb no command.
LEMMA OwnerKeepsInvariant ==
  ASSUME IInv, OwnerRemovesLock \/ OwnerRemovesResidue
  PROVE  IInv'
  <1>1. CASE OwnerRemovesLock
    <2>1. /\ lock' = None /\ pc[lock] \notin Holding
          /\ UNCHANGED <<active, dirs, selectors, pc, base, result>>
      BY <1>1 DEF OwnerRemovesLock
    <2>2. TypeOK' /\ HoldersHold'
      BY <2>1 DEF IInv, TypeOK, HoldersHold
    <2>3. QED
      BY <2>1, <2>2 DEF IInv, SelectedIsWhole, Whole, SelectedCommitted,
                        ResultsSoFar, BasesAreSelected, NextIsWhole
  <1>2. CASE OwnerRemovesResidue
    <2>1. /\ \A w \in Writers : pc[w] \notin Holding
          /\ selectors' = {}
          /\ dirs' = [ g \in Generations |-> IF g = active THEN dirs[g] ELSE Absent ]
          /\ UNCHANGED <<lock, active, pc, base, result>>
      BY <1>2 DEF OwnerRemovesResidue
    <2>2. TypeOK' /\ dirs'[active] = dirs[active]
      BY <2>1, DirectoriesAreTyped DEF IInv, TypeOK
    <2>3. NextIsWhole'
      BY <2>1 DEF NextIsWhole, Holding
    <2>4. QED
      BY <2>1, <2>2, <2>3 DEF IInv, SelectedIsWhole, Whole, SelectedCommitted,
                        ResultsSoFar, BasesAreSelected, HoldersHold
  <1>3. QED
    BY <1>1, <1>2

LEMMA StepPreserves == IInv /\ [Next]_vars => IInv'
  <1> SUFFICES ASSUME IInv, [Next]_vars PROVE IInv'
    OBVIOUS
  <1>1. ASSUME NEW w \in Writers,
               WriterStep(w) \/ Crash(w) \/ PidFails(w) \/ RemovalFails(w)
        PROVE  IInv'
    BY <1>1, WriterKeepsInvariant
  <1>2. ASSUME NEW v \in Verifiers, VerifierStep(v)
        PROVE  IInv'
    <2>1. /\ TypeOK'
          /\ UNCHANGED <<lock, active, dirs, selectors>>
          /\ \A w \in Writers : /\ pc'[w] = pc[w]
                                /\ base'[w] = base[w]
                                /\ result'[w] = result[w]
      BY <1>2, ProcessAssumption, VerifierIsQuiet DEF IInv, Processes
    <2>2. QED
      BY <2>1 DEF IInv, HoldersHold, SelectedIsWhole, Whole, SelectedCommitted,
                  ResultsSoFar, BasesAreSelected, NextIsWhole
  <1>3. CASE OwnerRemovesLock \/ OwnerRemovesResidue
    BY <1>3, OwnerKeepsInvariant
  <1>4. CASE UNCHANGED vars
    BY <1>4 DEF vars, IInv, TypeOK, HoldersHold, SelectedIsWhole, Whole,
                SelectedCommitted, ResultsSoFar, BasesAreSelected, NextIsWhole
  <1>5. QED
    BY <1>1, <1>2, <1>3, <1>4 DEF Next, Running, Fault

\* The invariant holds at every step, whatever faults there are.
THEOREM InvariantHolds == Spec => []IInv
  BY InitEstablishes, StepPreserves, PTL DEF Spec

\* Every variable stays in its type, for any number of commands and verifies.
THEOREM TypesHold == Spec => []TypeOK
  <1>1. IInv => TypeOK
    BY DEF IInv
  <1>2. QED
    BY <1>1, InvariantHolds, PTL

\* withWriter keeps commands apart even when commands are killed and their
\* stale locks are removed.
THEOREM ExclusionHolds == Spec => []MutualExclusion
  <1>1. IInv => MutualExclusion
    BY DEF IInv, HoldersHold, MutualExclusion
  <1>2. QED
    BY <1>1, InvariantHolds, PTL

\* publishMutation never lets .active select anything but a whole generation,
\* wherever it is killed and whatever removal fails.
THEOREM SelectedIsAlwaysWhole == Spec => []SelectedIsWhole
  <1>1. IInv => SelectedIsWhole
    BY DEF IInv
  <1>2. QED
    BY <1>1, InvariantHolds, PTL

-----------------------------------------------------------------------------
\* The refinement: a commit applies its command to the end of the history,
\* an ending answers for it, a kill leaves it dead; every other step stutters.
LEMMA InitRefines == Init => Store!Init
  BY DEF Init, Store!Init, StatusOf, Processes, Generations

\* What a step of command w does to the status of all commands.
LEMMA StatusMoves ==
  ASSUME TypeOK, NEW w \in Writers, NEW s,
         \A u \in Writers \ { w } : pc'[u] = pc[u] /\ result'[u] = result[u],
         StatusOf(w)' = s
  PROVE  [ u \in Writers |-> StatusOf(u) ]'
           = [ [ u \in Writers |-> StatusOf(u) ] EXCEPT ![w] = s ]
  BY DEF StatusOf

LEMMA StepRefines ==
  ASSUME IInv, [Next]_vars
  PROVE  [Store!Next]_<<dirs[active].value, [ w \in Writers |-> StatusOf(w) ]>>
  <1> USE ProcessAssumption
  <1> DEFINE status == [ w \in Writers |-> StatusOf(w) ]
             history == dirs[active].value
  <1> SUFFICES Store!Next \/ (history' = history /\ status' = status)
    OBVIOUS
  <1>1. ASSUME NEW w \in Writers,
               WriterStep(w) \/ Crash(w) \/ PidFails(w) \/ RemovalFails(w)
        PROVE  Store!Next \/ (history' = history /\ status' = status)
    <2>p. /\ w \in Processes /\ w \in Generations
          /\ pc \in [ Processes -> Places ]
          /\ result \in [ Processes -> Outcomes ]
          /\ dirs \in [ Generations -> Directory ]
          /\ active \in Generations
      BY DEF Processes, Generations, TypeOK, IInv
    <2>u. \A u \in Writers \ { w } : pc'[u] = pc[u] /\ result'[u] = result[u]
      BY <1>1, OthersDoNotMove DEF IInv, Processes
    <2>s. \A s : StatusOf(w)' = s => status' = [ status EXCEPT ![w] = s ]
      BY <2>u, StatusMoves DEF IInv
    <2>q. StatusOf(w)' = StatusOf(w) => status' = status
      BY <2>u DEF StatusOf
    <2>1. CASE Commit(w)
      <3>1. /\ pc[w] = "commit" /\ pc'[w] = "retire"
            /\ active' = w /\ result'[w] = "ok" /\ dirs' = dirs
        BY <2>1, <2>p DEF Commit, Goes, Results
      <3>2. result[w] = "none" /\ dirs[w].value = Append(dirs[active].value, w)
        BY <3>1 DEF IInv, ResultsSoFar, NextIsWhole, Preparing
      <3>3. status[w] = "waiting" /\ StatusOf(w)' = "applied"
        BY <3>1, <3>2 DEF StatusOf
      <3>4. Store!Apply(w)
        BY <3>1, <3>2, <3>3, <2>s DEF Store!Apply, Store!Moves
      <3>5. QED
        BY <3>4 DEF Store!Next
    <2>2. CASE FindLocked(w) \/ PidFails(w)
      <3>1. /\ pc[w] \in { "start", "pid" } /\ pc'[w] = "ended"
            /\ result'[w] # "ok" /\ UNCHANGED <<active, dirs>>
        BY <2>2, <2>p DEF FindLocked, PidFails, Goes, Results
      <3>2. status[w] = "waiting" /\ StatusOf(w)' = "refused"
        BY <3>1 DEF IInv, ResultsSoFar, StatusOf
      <3>3. Store!Refuse(w)
        BY <3>1, <3>2, <2>s DEF Store!Refuse, Store!Moves
      <3>4. QED
        BY <3>3 DEF Store!Next
    <2>3. CASE Crash(w)
      <3>1. pc[w] \in Holding /\ pc'[w] = "dead" /\ UNCHANGED <<active, dirs>>
        BY <2>3, <2>p DEF Crash
      <3>2. status[w] \in { "waiting", "applied" } /\ StatusOf(w)' = "dead"
        BY <3>1 DEF StatusOf, Holding
      <3>3. Store!Die(w)
        BY <3>1, <3>2, <2>s DEF Store!Die, Store!Moves
      <3>4. QED
        BY <3>3 DEF Store!Next
    <2>4. CASE Release(w) \/ (RemovalFails(w) /\ pc'[w] = "ended")
      <3>1. /\ pc[w] = "release" /\ pc'[w] = "ended"
            /\ UNCHANGED <<active, dirs, result>>
        BY <2>4, <2>p DEF Release, RemovalFails, Goes
      <3>2. CASE result[w] = "ok"
        <4>1. status[w] = "applied" /\ StatusOf(w)' = "succeeded"
          BY <3>1, <3>2 DEF StatusOf
        <4>2. Store!Succeed(w)
          BY <3>1, <4>1, <2>s DEF Store!Succeed, Store!Moves
        <4>3. QED
          BY <4>2 DEF Store!Next
      <3>3. CASE result[w] # "ok"
        <4>1. status[w] = "waiting" /\ StatusOf(w)' = "refused"
          BY <3>1, <3>3 DEF StatusOf
        <4>2. Store!Refuse(w)
          BY <3>1, <4>1, <2>s DEF Store!Refuse, Store!Moves
        <4>3. QED
          BY <4>2 DEF Store!Next
      <3>4. QED
        BY <3>2, <3>3
    <2>5. CASE \/ Acquire(w) \/ WritePid(w) \/ Load(w) \/ Link(w) \/ Unlink(w)
               \/ (RemovalFails(w) /\ pc'[w] # "ended")
      <3>1. /\ pc[w] \notin { "ended", "dead" } /\ pc'[w] \notin { "ended", "dead" }
            /\ UNCHANGED <<active, dirs, result>>
        BY <2>5, <2>p DEF Acquire, WritePid, Load, Link, Unlink, RemovalFails, Goes
      <3>2. QED
        BY <3>1, <2>q DEF StatusOf
    <2>6. CASE LoadFails(w) \/ Refuse(w) \/ Fail(w)
      <3>1. /\ pc[w] \in { "load" } \cup Preparing /\ pc'[w] \in { "release", "unlink" }
            /\ result'[w] # "ok" /\ UNCHANGED <<active, dirs>>
        BY <2>6, <2>p DEF LoadFails, Refuse, Fail, Goes, Results, Preparing
      <3>2. StatusOf(w)' = StatusOf(w)
        BY <3>1 DEF IInv, ResultsSoFar, StatusOf, Preparing
      <3>3. QED
        BY <3>1, <3>2, <2>q
    <2>7. CASE Copy(w) \/ Mutate(w) \/ Name(w)
      <3>1. /\ pc[w] \in Preparing /\ pc'[w] \in Preparing
            /\ UNCHANGED <<active, result>>
            /\ \A g \in Generations \ { w } : dirs'[g] = dirs[g]
        BY <2>7, <2>p DEF Copy, Mutate, Name, Goes, Preparing
      <3>2. active # w
        BY <3>1 DEF IInv, SelectedCommitted, ResultsSoFar
      <3>3. StatusOf(w)' = StatusOf(w) /\ history' = history
        BY <3>1, <3>2, <2>p DEF StatusOf, Preparing
      <3>4. QED
        BY <3>3, <2>q
    <2>8. CASE RemoveDirectory(w) \/ \E part \in Parts : RemovePart(w, part)
      <3>1. /\ pc[w] \in { "discard", "retire" }
            /\ pc'[w] = "release" \/ pc'[w] = pc[w]
            /\ UNCHANGED <<active, result>>
            /\ \A g \in Generations \ { Doomed(w) } : dirs'[g] = dirs[g]
        BY <2>8, <2>p DEF RemoveDirectory, RemovePart, Goes
      <3>2. active # Doomed(w)
        BY <3>1 DEF IInv, SelectedCommitted, ResultsSoFar, BasesAreSelected, Doomed
      <3>3. StatusOf(w)' = StatusOf(w) /\ history' = history
        BY <3>1, <3>2, <2>p DEF StatusOf
      <3>4. QED
        BY <3>3, <2>q
    <2>9. QED
      BY <1>1, <2>1, <2>2, <2>3, <2>4, <2>5, <2>6, <2>7, <2>8 DEF WriterStep
  <1>2. ASSUME NEW v \in Verifiers, VerifierStep(v)
        PROVE  history' = history /\ status' = status
    BY <1>2, VerifierIsQuiet DEF IInv, StatusOf, Processes
  <1>3. CASE OwnerRemovesLock \/ OwnerRemovesResidue
    BY <1>3 DEF OwnerRemovesLock, OwnerRemovesResidue, StatusOf, IInv, TypeOK
  <1>4. CASE UNCHANGED vars
    BY <1>4 DEF vars, StatusOf
  <1>5. QED
    BY <1>1, <1>2, <1>3, <1>4 DEF Next, Running, Fault

\* What the owner is promised of the commands holds whatever happens to them.
THEOREM CommandsAreAtomic == Spec => AppliesCommandsAtomically
  <1>1. Init => Store!Init
    BY InitRefines
  <1>2. IInv /\ [Next]_vars
          => [Store!Next]_<<dirs[active].value, [ w \in Writers |-> StatusOf(w) ]>>
    BY StepRefines
  <1>3. QED
    BY <1>1, <1>2, InvariantHolds, PTL
    DEF Spec, AppliesCommandsAtomically, Store!Spec

-----------------------------------------------------------------------------
(***************************************************************************)
(* The system without faults.  A command leaves things lying about only    *)
(* where it is between making and removing them, and it holds the lock     *)
(* then.                                                                   *)
(***************************************************************************)
Working == { "mutate", "name", "link", "commit", "unlink", "discard" }

LockIsHeld == lock # None => pc[lock] \in Holding

SelectorsAreUsed == \A w \in selectors : pc[w] \in { "commit", "unlink" }

ResidueIsUsed ==
  \A g \in Present \ { active } :
    \/ g \in Writers /\ pc[g] \in Working
    \/ \E w \in Writers : pc[w] = "retire" /\ g = base[w]

TidyInv == LockIsHeld /\ SelectorsAreUsed /\ ResidueIsUsed

LEMMA InitIsTidy ==
  ASSUME Init
  PROVE  TidyInv
  BY ProcessAssumption
  DEF Init, TidyInv, LockIsHeld, SelectorsAreUsed, ResidueIsUsed, Present, Absent, Generations

LEMMA WriterStaysTidy ==
  ASSUME IInv, TidyInv, NEW w \in Writers, WriterStep(w)
  PROVE  TidyInv'
  <1> USE ProcessAssumption
  <1>p. /\ w \in Processes /\ w \in Generations
        /\ pc \in [ Processes -> Places ]
        /\ base \in [ Processes -> Generations ]
        /\ dirs \in [ Generations -> Directory ]
        /\ active \in Generations /\ selectors \subseteq Writers
        /\ lock \in Writers \cup { None }
    BY DEF Processes, Generations, TypeOK, IInv
  <1>u. \A u \in Writers \ { w } : pc'[u] = pc[u] /\ base'[u] = base[u]
    BY OthersDoNotMove DEF IInv, Processes
  <1>1. CASE Acquire(w) \/ FindLocked(w) \/ WritePid(w) \/ Release(w)
             \/ Load(w) \/ LoadFails(w) \/ Refuse(w)
    <2>1. /\ pc[w] \in { "start", "pid", "load", "copy", "release" }
          /\ UNCHANGED <<active, dirs, selectors>>
      BY <1>1 DEF Acquire, FindLocked, WritePid, Release, Load, LoadFails, Refuse, Goes
    <2>2. LockIsHeld'
      BY <1>1, <1>p, <1>u
      DEF TidyInv, LockIsHeld, Holding, Goes,
          Acquire, FindLocked, WritePid, Release, Load, LoadFails, Refuse
    <2>3. SelectorsAreUsed' /\ ResidueIsUsed'
      BY <2>1, <1>p, <1>u
      DEF TidyInv, SelectorsAreUsed, ResidueIsUsed, Working, Present
    <2> QED BY <2>2, <2>3 DEF TidyInv
  <1>2. CASE Copy(w) \/ Mutate(w) \/ Name(w)
    <2>1. /\ pc[w] \in { "copy", "mutate", "name" } /\ pc'[w] \in { "mutate", "name", "link" }
          /\ UNCHANGED <<lock, active, selectors>>
          /\ \A g \in Generations \ { w } : dirs'[g] = dirs[g]
      BY <1>2, <1>p DEF Copy, Mutate, Name, Goes
    <2>2. LockIsHeld' /\ SelectorsAreUsed'
      BY <2>1, <1>p, <1>u DEF TidyInv, LockIsHeld, SelectorsAreUsed, Holding
    <2>3. ResidueIsUsed'
      BY <2>1, <1>p, <1>u DEF TidyInv, ResidueIsUsed, Working, Present
    <2> QED BY <2>2, <2>3 DEF TidyInv
  <1>3. CASE Link(w) \/ Fail(w) \/ Unlink(w)
    <2>1. /\ pc[w] \in Working /\ pc'[w] \in Working
          /\ UNCHANGED <<lock, active, dirs>>
          /\ \/ selectors' = selectors \cup { w } /\ pc'[w] = "commit"
             \/ selectors' = selectors /\ pc'[w] = "unlink"
             \/ selectors' = selectors \ { w }
      BY <1>3, <1>p DEF Link, Fail, Unlink, Goes, Working
    <2>2. LockIsHeld'
      BY <2>1, <1>p, <1>u DEF TidyInv, LockIsHeld, Holding, Working
    <2>3. SelectorsAreUsed'
      BY <2>1, <1>p, <1>u DEF TidyInv, SelectorsAreUsed
    <2>4. ResidueIsUsed'
      BY <2>1, <1>p, <1>u DEF TidyInv, ResidueIsUsed, Working, Present
    <2> QED BY <2>2, <2>3, <2>4 DEF TidyInv
  <1>4. CASE Commit(w)
    <2>1. /\ pc[w] = "commit" /\ pc'[w] = "retire" /\ active' = w
          /\ selectors' = selectors \ { w } /\ base' = base
          /\ UNCHANGED <<lock, dirs>>
      BY <1>4, <1>p DEF Commit, Goes
    <2>2. base[w] = active
      BY <2>1 DEF IInv, BasesAreSelected, Preparing
    <2>3. LockIsHeld' /\ SelectorsAreUsed'
      BY <2>1, <1>p, <1>u DEF TidyInv, LockIsHeld, SelectorsAreUsed, Holding
    <2>4. ResidueIsUsed'
      BY <2>1, <2>2, <1>p, <1>u DEF TidyInv, ResidueIsUsed, Working, Present
    <2> QED BY <2>3, <2>4 DEF TidyInv
  <1>5. CASE \E part \in Parts : RemovePart(w, part)
    <2>1. /\ UNCHANGED <<lock, active, selectors, pc, base>>
          /\ \A g \in Generations : dirs'[g].kind = dirs[g].kind
      BY <1>5, <1>p DEF RemovePart, Directory
    <2> QED
      BY <2>1, <1>p
      DEF TidyInv, LockIsHeld, SelectorsAreUsed, ResidueIsUsed, Present
  <1>6. CASE RemoveDirectory(w)
    <2>1. /\ pc[w] \in { "discard", "retire" } /\ pc'[w] = "release"
          /\ UNCHANGED <<lock, active, selectors, base>>
          /\ dirs' = [ dirs EXCEPT ![Doomed(w)] = Absent ]
      BY <1>6, <1>p DEF RemoveDirectory, Goes
    <2>2. Doomed(w) \in Generations /\ Doomed(w) = IF pc[w] = "retire" THEN base[w] ELSE w
      BY <1>p DEF Doomed
    <2>3. LockIsHeld' /\ SelectorsAreUsed'
      BY <2>1, <1>p, <1>u DEF TidyInv, LockIsHeld, SelectorsAreUsed, Holding
    <2>4. Present' = Present \ { Doomed(w) }
      BY <2>1, <2>2, <1>p DEF Present, Absent
    <2>5. ResidueIsUsed'
      BY <2>1, <2>2, <2>4, <1>p, <1>u DEF TidyInv, ResidueIsUsed, Working
    <2> QED BY <2>3, <2>5 DEF TidyInv
  <1> QED
    BY <1>1, <1>2, <1>3, <1>4, <1>5, <1>6 DEF WriterStep

LEMMA StepIsTidy ==
  ASSUME IInv, TidyInv, [Running]_vars
  PROVE  TidyInv'
  <1>1. ASSUME NEW w \in Writers, WriterStep(w)
        PROVE  TidyInv'
    BY <1>1, WriterStaysTidy
  <1>2. ASSUME NEW v \in Verifiers, VerifierStep(v)
        PROVE  TidyInv'
    BY <1>2, ProcessAssumption, VerifierIsQuiet
    DEF Processes, IInv, TypeOK, TidyInv, LockIsHeld, SelectorsAreUsed, ResidueIsUsed, Present
  <1>3. CASE UNCHANGED vars
    BY <1>3 DEF vars, TidyInv, LockIsHeld, SelectorsAreUsed, ResidueIsUsed, Present
  <1> QED BY <1>1, <1>2, <1>3 DEF Running

LEMMA TidyIsClean ==
  ASSUME IInv, TidyInv
  PROVE  CleanWhenIdle
  <1> SUFFICES ASSUME \A w \in Writers : pc[w] \notin Holding
               PROVE  lock = None /\ Loadable
    BY DEF CleanWhenIdle
  <1>1. lock = None /\ selectors = {}
    BY DEF IInv, TypeOK, TidyInv, LockIsHeld, SelectorsAreUsed, Holding
  <1>2. Present \subseteq { active }
    BY DEF IInv, TypeOK, TidyInv, ResidueIsUsed, Holding, Working
  <1>3. active \in Present /\ Whole(active)
    BY DEF IInv, TypeOK, SelectedIsWhole, Whole, Present
  <1> QED BY <1>1, <1>2, <1>3 DEF Loadable

LEMMA TidyHolds == ReliableSpec => [](IInv /\ TidyInv)
  <1>1. Init => IInv /\ TidyInv
    BY InitEstablishes, InitIsTidy
  <1>2. IInv /\ TidyInv /\ [Running]_vars => (IInv /\ TidyInv)'
    BY StepPreserves, StepIsTidy DEF Next
  <1> QED BY <1>1, <1>2, PTL DEF ReliableSpec

\* Without faults every way through publishMutation, its early returns and its failures
\* included, gives back the lock and leaves nothing but the selected generation.
THEOREM NothingIsLeft == ReliableSpec => []CleanWhenIdle
  <1>1. IInv /\ TidyInv => CleanWhenIdle
    BY TidyIsClean
  <1> QED BY <1>1, TidyHolds, PTL

\* What verify finds wrong, if nobody works on it and nobody has replaced it.
LEMMA ComplaintHasACause ==
  ASSUME IInv, CleanWhenIdle, [Running]_vars, NEW v \in Verifiers,
         pc[v] # "ended", pc'[v] = "ended", result'[v] \in { "alarm", "unusable" },
         \A w \in Writers : pc[w] \notin Holding, active = base[v]
  PROVE  FALSE
  <1>1. /\ selectors = {} /\ Present = { base[v] } /\ dirs[base[v]].parts = Parts
        /\ v \in Processes /\ v \notin Writers
        /\ pc \in [ Processes -> Places ] /\ result \in [ Processes -> Outcomes ]
    BY ProcessAssumption DEF CleanWhenIdle, Loadable, Whole, Processes, IInv, TypeOK
  <1>2. ASSUME NEW w \in Writers, WriterStep(w)
        PROVE  FALSE
    BY <1>1, <1>2, OthersDoNotMove DEF IInv
  <1>3. ASSUME NEW u \in Verifiers, VerifierStep(u)
        PROVE  FALSE
    <2>1. u = v
      BY <1>1, <1>3, VerifierIsQuiet DEF IInv
    <2>2. CASE VerifyLock(v) \/ VerifyRoot(v) \/ VerifySelector(v) \/ VerifyStates(v)
      BY <1>1, <2>2 DEF VerifyLock, VerifyRoot, VerifySelector, VerifyStates, Goes, Results
    <2>3. CASE VerifyCanonicalArea(v) \/ VerifyDerivedArea(v) \/ VerifyDraftArea(v)
      BY <1>1, <2>3
      DEF VerifyCanonicalArea, VerifyDerivedArea, VerifyDraftArea, Goes, Results, Readable, Parts
    <2>4. CASE VerifyTree(v) \/ VerifyDossiers(v)
      BY <1>1, <2>4 DEF VerifyTree, VerifyDossiers, Goes, Results, Readable, Parts
    <2> QED BY <1>3, <2>1, <2>2, <2>3, <2>4 DEF VerifierStep
  <1>4. CASE UNCHANGED vars
    BY <1>4 DEF vars
  <1> QED BY <1>2, <1>3, <1>4 DEF Running

\* Without faults verify (verifyWorkspace, which takes no lock) never raises a false
\* alarm about a workspace that is at rest and still the one it selected.
THEOREM ComplaintsHaveACause == ReliableSpec => VerifyComplainsForACause
  <1>1. IInv /\ TidyInv /\ [Running]_vars =>
          [\A v \in Verifiers :
             pc[v] # "ended" /\ pc'[v] = "ended" /\ result'[v] \in { "alarm", "unusable" }
               => \/ \E w \in Writers : pc[w] \in Holding
                  \/ active # base[v]]_vars
    BY TidyIsClean, ComplaintHasACause
  <1> QED BY <1>1, TidyHolds, PTL DEF ReliableSpec, VerifyComplainsForACause
=============================================================================
