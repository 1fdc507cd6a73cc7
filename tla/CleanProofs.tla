---------------------------- MODULE CleanProofs ----------------------------
(***************************************************************************)
(* Theorems about `pleach clean` beside the runs, for every set of         *)
(* processes and every bound: it is a client of the lock protocol, so the  *)
(* lock's invariants hold of it, and with them a sweep takes nothing from  *)
(* a run whose lock it saw.                                                *)
(***************************************************************************)
EXTENDS Clean, RunLockProofs

(* Clean and the nodes of a run take only steps the lock protocol allows.   *)
THEOREM ImplementsRunLock == CleanSpec => Spec
<1>1. CleanInit => Init
  BY DEF CleanInit
<1>2. [CleanNext]_allVars => [Next]_vars
  <2> SUFFICES ASSUME [CleanNext]_allVars PROVE [Next]_vars
    OBVIOUS
  <2>1. ASSUME NEW p \in Proc, Conductor(p) PROVE [Next]_vars
    BY <2>1 DEF Conductor, Next, Finish
  <2>2. ASSUME NEW p \in Proc,
               \/ Isolate(p) \/ SpawnWorker(p) \/ journalWorkerSpawned(p)
               \/ KillWorker(p) \/ journalWorkerKilled(p) \/ Dispose(p)
               \/ reap(p) \/ sweepOrphanWorktree(p)
        PROVE  UNCHANGED vars
    BY <2>2 DEF Isolate, SpawnWorker, journalWorkerSpawned, KillWorker, journalWorkerKilled,
                Dispose, reap, sweepOrphanWorktree, lockVars
  <2>3. CASE StopFindsHolder \/ StopWritesMarker
    BY <2>3 DEF Next
  <2>4. CASE CleanLooks \/ CleanClassifies \/ CleanUnlinks
    BY <2>4 DEF CleanLooks, CleanClassifies, CleanUnlinks, Next
  <2>5. CASE CleanReadsJournal \/ CleanNotes \/ CleanListsTrees \/ CleanDone \/ CleanDies
    BY <2>5 DEF CleanReadsJournal, CleanNotes, CleanListsTrees, CleanDone, CleanDies, lockVars
  <2>6. CASE UNCHANGED allVars
    BY <2>6 DEF allVars
  <2> QED BY <2>1, <2>2, <2>3, <2>4, <2>5, <2>6 DEF CleanNext
<1> QED BY <1>1, <1>2, PTL DEF CleanSpec, Spec

(* A holder that nobody robbed is the one the path names, whatever a clean  *)
(* does meanwhile.                                                          *)
THEOREM HolderKeepsFileBesideClean == CleanSpec => [](TypeOK /\ HolderKeepsFile)
<1> QED BY ImplementsRunLock, TypeCorrect, HolderKeepsFileHolds, PTL

-----------------------------------------------------------------------------
(* The sweep spares the runs it saw                                        *)

Sweeping == {"journal", "reap", "note", "trees"}

(* Whom the clean saw holding never holds anew.                             *)
SeenHeld == \A p \in saw : pc[p] \in Holding \cup {"failed", "released", "exited"}

(* Where the clean is agrees with where its look for locks is.              *)
LooksWithSweep == clean = "locks" <=> cleaner.at # "idle"

(* A run it saw, that still holds and was not robbed, is the one whose pid  *)
(* it read, or whose file it is about to unlink.                            *)
KnowsTheSeen ==
    \A p \in saw : pc[p] \in Holding /\ p \notin robbed =>
        /\ clean \notin Sweeping
        /\ clean = "locks" => cleaner.at = "unlink" \/ cleaner.pid \in {p, NoPid}

SparesInv == /\ saw \subseteq Proc
             /\ clean \in {"idle", "locks"} \cup Sweeping
             /\ SeenHeld /\ LooksWithSweep /\ KnowsTheSeen /\ SweepSparesTheSeen

(* What a step of the lock protocol that is not a sweep's leaves of it: no  *)
(* robbery is forgotten, and a process that did not hold begins to hold     *)
(* only out of the acquire ladder.                                          *)
LEMMA ConductorStep ==
    ASSUME TypeOK, NEW p \in Proc, Conductor(p)
    PROVE  /\ robbed \subseteq robbed'
           /\ cleaner' = cleaner
           /\ \A q \in Proc : pc[q] \in Holding \cup {"failed", "released", "exited"} =>
                /\ pc'[q] \in Holding \cup {"failed", "released", "exited"}
                /\ pc'[q] \in Holding => pc[q] \in Holding
  BY DEF Conductor, Acquire, Start, Create, CreateExists, WritePid, ReadHolder, CheckLiveness,
         Takeover, FinalStopCheck, ClearStop, Release, Exit, WritePidFails, LaunchDecision,
         RunThrows, Crash, TypeOK, Goto, opVars, Holding, Alive, Ended

(* cli.ts:987: a sweep takes no session and no worktree from a run that     *)
(* held the lock when it looked, unless that run was robbed of its file.    *)
THEOREM SweepSparesTheSeenHolds == CleanSpec => []SweepSparesTheSeen
<1>1. CleanInit => SparesInv
  BY DEF CleanInit, Init, SparesInv, Sweeping, SeenHeld, LooksWithSweep, KnowsTheSeen,
         SweepSparesTheSeen
<1>2. TypeOK /\ HolderKeepsFile /\ SparesInv /\ [CleanNext]_allVars => SparesInv'
  <2> SUFFICES ASSUME TypeOK, HolderKeepsFile, SparesInv, [CleanNext]_allVars PROVE SparesInv'
    OBVIOUS
  <2> USE DEF SparesInv, SeenHeld, LooksWithSweep, KnowsTheSeen, SweepSparesTheSeen
  <2>1. ASSUME NEW p \in Proc, Conductor(p) PROVE SparesInv'
    <3>1. UNCHANGED <<clean, saw, lost>>
      BY <2>1 DEF Conductor, cleanVars
    <3> QED BY <2>1, <3>1, ConductorStep
  <2>2. ASSUME NEW p \in Proc,
               \/ Isolate(p) \/ SpawnWorker(p) \/ journalWorkerSpawned(p)
               \/ KillWorker(p) \/ journalWorkerKilled(p) \/ Dispose(p)
        PROVE  SparesInv'
    BY <2>2 DEF Isolate, SpawnWorker, journalWorkerSpawned, KillWorker, journalWorkerKilled,
                Dispose, lockVars, vars, cleanVars
  <2>3. ASSUME NEW p \in Proc, reap(p) PROVE SparesInv'
    BY <2>3 DEF reap, Takes, lockVars, vars, Sweeping
  <2>4. ASSUME NEW p \in Proc, sweepOrphanWorktree(p) PROVE SparesInv'
    BY <2>4 DEF sweepOrphanWorktree, Takes, lockVars, vars, Sweeping
  <2>5. CASE (StopFindsHolder \/ StopWritesMarker) /\ UNCHANGED <<groundVars, cleanVars>>
    BY <2>5 DEF StopFindsHolder, StopWritesMarker, cleanVars
  <2>6. CASE CleanLooks
    <3>1. \A p \in Proc : pc[p] \in Holding /\ p \notin robbed =>
             file # NoFile /\ ReadPid \in {p, NoPid}
      BY DEF HolderKeepsFile, ReadPid
    <3> QED BY <2>6, <3>1 DEF CleanLooks, SweepReads, Sweeping
  <2>7. CASE CleanClassifies
    <3>1. \A p \in saw : pc[p] \in Holding => Alive(p) /\ p # NoPid
      BY LockAssumption DEF Alive, Ended, Holding
    <3> QED BY <2>7, <3>1 DEF CleanClassifies, SweepClassifies, Sweeping
  <2>8. CASE CleanUnlinks
    <3>1. \A p \in saw : pc[p] \in Holding => p \in robbed'
      BY <2>8, LockAssumption DEF CleanUnlinks, SweepUnlinks, Robs, HolderKeepsFile
    <3> QED BY <2>8, <3>1 DEF CleanUnlinks, SweepUnlinks, Sweeping
  <2>9. CASE CleanReadsJournal \/ CleanNotes \/ CleanListsTrees
    BY <2>9 DEF CleanReadsJournal, CleanNotes, CleanListsTrees, lockVars, vars, Sweeping
  <2>10. CASE CleanDone \/ CleanDies
    BY <2>10 DEF CleanDone, CleanDies, lockVars, vars, Sweeping
  <2>11. CASE UNCHANGED allVars
    BY <2>11 DEF allVars, vars, cleanVars
  <2> QED BY <2>1, <2>2, <2>3, <2>4, <2>5, <2>6, <2>7, <2>8, <2>9, <2>10, <2>11 DEF CleanNext
<1>3. SparesInv => SweepSparesTheSeen
  BY DEF SparesInv
<1> QED BY <1>1, <1>2, <1>3, HolderKeepsFileBesideClean, PTL DEF CleanSpec

-----------------------------------------------------------------------------
(* A session that runs is one the next clean finds                         *)

Ground ==
    /\ tree \subseteq Busy
    /\ worker \in [Proc -> {"none", "running", "survives", "ended"}]
    /\ named \in [Proc -> {"none", "spawned", "killed", "reaped"}]
    /\ clean \in {"idle", "locks"} \cup Sweeping
    /\ left \subseteq Proc /\ reaping \in Proc \cup {NoPid}
    /\ clean = "note" => reaping \in left
    /\ saw \subseteq Proc /\ lost \subseteq Proc

(* The journal names no session that was never started, and none as over    *)
(* that nobody asked the end of.                                            *)
NamesFollow ==
    /\ \A p \in Proc :
          /\ named[p] # "none" => worker[p] # "none"
          /\ named[p] \in {"killed", "reaped"} => worker[p] \in {"ended", "survives"}
    /\ clean \in {"reap", "note"} => \A p \in left : named[p] # "none"
    /\ clean = "note" => worker[reaping] \in {"ended", "survives"}

(* Type correctness, and docs/guarantees.md:293: a session that still runs  *)
(* is not one the journal holds for killed or reaped.                       *)
THEOREM LeakIsFoundHolds == CleanSpec => [](CleanTypeOK /\ LeakIsFound)
<1>1. CleanInit => Ground /\ NamesFollow
  BY DEF CleanInit, Ground, NamesFollow
<1>2. Ground /\ NamesFollow /\ [CleanNext]_allVars => (Ground /\ NamesFollow)'
  <2> SUFFICES ASSUME Ground, NamesFollow, [CleanNext]_allVars PROVE Ground' /\ NamesFollow'
    OBVIOUS
  <2> USE LockAssumption, BusyAssumption DEF Ground, NamesFollow, Sweeping
  <2>1. ASSUME NEW p \in Proc, Conductor(p) PROVE Ground' /\ NamesFollow'
    BY <2>1 DEF Conductor, groundVars, cleanVars
  <2>2. ASSUME NEW p \in Proc, Isolate(p) PROVE Ground' /\ NamesFollow'
    BY <2>2 DEF Isolate, InRun, cleanVars
  <2>3. ASSUME NEW p \in Proc, SpawnWorker(p) PROVE Ground' /\ NamesFollow'
    BY <2>3 DEF SpawnWorker, cleanVars
  <2>4. ASSUME NEW p \in Proc, journalWorkerSpawned(p) PROVE Ground' /\ NamesFollow'
    BY <2>4 DEF journalWorkerSpawned, cleanVars
  <2>5. ASSUME NEW p \in Proc, KillWorker(p) PROVE Ground' /\ NamesFollow'
    BY <2>5 DEF KillWorker, cleanVars
  <2>6. ASSUME NEW p \in Proc, journalWorkerKilled(p) PROVE Ground' /\ NamesFollow'
    BY <2>6 DEF journalWorkerKilled, cleanVars
  <2>7. ASSUME NEW p \in Proc, Dispose(p) PROVE Ground' /\ NamesFollow'
    BY <2>7 DEF Dispose, cleanVars
  <2>8. ASSUME NEW p \in Proc, reap(p) PROVE Ground' /\ NamesFollow'
    BY <2>8 DEF reap, Takes, Running
  <2>9. ASSUME NEW p \in Proc, sweepOrphanWorktree(p) PROVE Ground' /\ NamesFollow'
    BY <2>9 DEF sweepOrphanWorktree, Takes
  <2>10. CASE (StopFindsHolder \/ StopWritesMarker) /\ UNCHANGED <<groundVars, cleanVars>>
    BY <2>10 DEF groundVars, cleanVars
  <2>11. CASE CleanLooks \/ CleanClassifies \/ CleanUnlinks
    BY <2>11 DEF CleanLooks, CleanClassifies, CleanUnlinks, groundVars
  <2>12. CASE CleanReadsJournal
    BY <2>12 DEF CleanReadsJournal, unreapedSessions, groundVars
  <2>13. CASE CleanNotes
    BY <2>13 DEF CleanNotes
  <2>14. CASE CleanListsTrees
    BY <2>14 DEF CleanListsTrees, groundVars
  <2>15. CASE CleanDone \/ CleanDies
    BY <2>15 DEF CleanDone, CleanDies, groundVars
  <2>16. CASE UNCHANGED allVars
    BY <2>16 DEF allVars, groundVars, cleanVars
  <2> QED BY <2>1, <2>2, <2>3, <2>4, <2>5, <2>6, <2>7, <2>8, <2>9, <2>10, <2>11, <2>12, <2>13,
             <2>14, <2>15, <2>16 DEF CleanNext
<1>3. TypeOK /\ Ground /\ NamesFollow => CleanTypeOK /\ LeakIsFound
  BY DEF Ground, NamesFollow, CleanTypeOK, LeakIsFound, Sweeping
<1> QED BY <1>1, <1>2, <1>3, HolderKeepsFileBesideClean, PTL DEF CleanSpec

(* The shape of the lock, of the ground and of the sweep, on its own.       *)
THEOREM CleanTypeCorrect == CleanSpec => []CleanTypeOK
<1> QED BY LeakIsFoundHolds, PTL
=============================================================================
