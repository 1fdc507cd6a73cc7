------------------------------- MODULE Clean -------------------------------
(***************************************************************************)
(* `pleach clean` (verbClean in src/src/faces/cli.ts, src/src/seams/       *)
(* clean.ts, src/src/core/reap.ts) beside the runs it must leave alone:    *)
(* RunLock with what a run keeps on the ground while it holds the lock.    *)
(*                                                                         *)
(* A run's ground is one node: its worktree, its worker's session, and     *)
(* what the journal says of that session.  A kill or a crash of the        *)
(* conductor takes neither the tree nor the session with it.               *)
(***************************************************************************)
EXTENDS RunLock

CONSTANT Busy       \* the processes whose run has a node to run

ASSUME BusyAssumption == Busy \subseteq Proc

VARIABLES
    tree,     \* the processes whose worktree is registered
    worker,   \* each process's worker session; survives: one a kill or a status failed on
    named,    \* the last event the journal holds of that session
    clean,    \* where `pleach clean` is
    left,     \* the sessions, then the worktrees, it has yet to deal with
    reaping,  \* the session it has just reaped
    saw,      \* history: who held the lock when it looked for locks
    lost      \* history: who, among those, lost a live session or a worktree to it

groundVars == <<tree, worker, named>>
cleanVars == <<clean, left, reaping, saw, lost>>
lockVars == vars
allVars == <<vars, groundVars, cleanVars>>

Running == {"running", "survives"}

(* The run's nodes are in flight until the process ends: one whose promise *)
(* rejected leaves the others so behind the lock's release.                *)
InRun(p) == p \in Busy /\ pc[p] \in {"held", "closing", "releasing", "released"}

CleanInit ==
    /\ Init
    /\ tree = {}
    /\ worker = [p \in Proc |-> "none"] /\ named = [p \in Proc |-> "none"]
    /\ clean = "idle" /\ left = {} /\ reaping = NoPid
    /\ saw = {} /\ lost = {}

-----------------------------------------------------------------------------
(* A node of a run                                                         *)

Isolate(p) ==
    /\ InRun(p) /\ pc[p] = "held"
    /\ p \notin tree /\ worker[p] = "none"
    /\ tree' = tree \cup {p}
    /\ UNCHANGED <<lockVars, worker, named, cleanVars>>

SpawnWorker(p) ==
    /\ InRun(p) /\ p \in tree /\ worker[p] = "none"
    /\ worker' = [worker EXCEPT ![p] = "running"]
    /\ UNCHANGED <<lockVars, tree, named, cleanVars>>

journalWorkerSpawned(p) ==
    /\ InRun(p) /\ worker[p] # "none" /\ named[p] = "none"
    /\ named' = [named EXCEPT ![p] = "spawned"]
    /\ UNCHANGED <<lockVars, tree, worker, cleanVars>>

(* kill(): a kill that umbel refuses, or that times out, is tolerated.     *)
KillWorker(p) ==
    /\ InRun(p) /\ worker[p] = "running" /\ named[p] # "none"
    /\ \E after \in {"ended", "survives"} : worker' = [worker EXCEPT ![p] = after]
    /\ UNCHANGED <<lockVars, tree, named, cleanVars>>

(* Mutant: the line is written, then the worker is killed.                 *)
MutJournalWorkerKilled(p) ==
    /\ InRun(p) /\ worker[p] # "none" /\ named[p] \in {"spawned", "reaped"}
    /\ named' = [named EXCEPT ![p] = "killed"]
    /\ UNCHANGED <<lockVars, tree, worker, cleanVars>>

journalWorkerKilled(p) ==
    /\ InRun(p) /\ worker[p] \in {"ended", "survives"} /\ named[p] \in {"spawned", "reaped"}
    /\ named' = [named EXCEPT ![p] = "killed"]
    /\ UNCHANGED <<lockVars, tree, worker, cleanVars>>

NodeOver(p) == worker[p] = "none" \/ named[p] = "killed"

(* A tree that is gone already is disposed of too.                         *)
Dispose(p) ==
    /\ InRun(p) /\ p \in tree /\ NodeOver(p)
    /\ tree' = tree \ {p}
    /\ UNCHANGED <<lockVars, worker, named, cleanVars>>

(* Every node promise is awaited before the run's final check.             *)
Settled(p) == p \notin tree /\ NodeOver(p)

Conductor(p) ==
    /\ \/ Start(p) \/ Acquire(p) \/ ClearStop(p) \/ Release(p) \/ Exit(p)
       \/ Settled(p) /\ FinalStopCheck(p)
       \/ WritePidFails(p) \/ LaunchDecision(p) \/ RunThrows(p) \/ Crash(p)
    /\ UNCHANGED <<groundVars, cleanVars>>

-----------------------------------------------------------------------------
(* `pleach clean`                                                          *)

CleanLooks ==
    /\ clean = "idle"
    /\ SweepReads
    /\ clean' = IF file = NoFile THEN "journal" ELSE "locks"
    /\ saw' = {p \in Proc : pc[p] \in Holding}
    /\ UNCHANGED <<groundVars, left, reaping, lost>>

(* Mutant: a live lock is reported, and the sweep goes on.                 *)
MutCleanClassifies ==
    /\ clean = "locks"
    /\ SweepClassifies
    /\ clean' = IF cleaner'.at = "idle" THEN "journal" ELSE "locks"
    /\ UNCHANGED <<groundVars, left, reaping, saw, lost>>

(* A live lock is reported, and the sweep refused.                         *)
CleanClassifies ==
    /\ clean = "locks"
    /\ SweepClassifies
    /\ clean' = IF cleaner'.at = "idle" THEN "idle" ELSE "locks"
    /\ UNCHANGED <<groundVars, left, reaping, saw, lost>>

(* Unlike a takeover's, this unlink throws on a file that is gone.         *)
CleanUnlinks ==
    /\ clean = "locks"
    /\ SweepUnlinks
    /\ clean' = IF file = NoFile THEN "idle" ELSE "journal"
    /\ UNCHANGED <<groundVars, left, reaping, saw, lost>>

(* The sessions whose last event is their spawn.                           *)
unreapedSessions == {p \in Proc : named[p] = "spawned"}

(* A runner that cannot reap leaves them all.                              *)
CleanReadsJournal ==
    /\ clean = "journal"
    /\ left' \in {unreapedSessions, {}} /\ clean' = "reap"
    /\ UNCHANGED <<lockVars, groundVars, reaping, saw, lost>>

(* History: what it takes from a run that still holds the lock it saw.     *)
Takes(p, what) ==
    lost' = IF what /\ pc[p] \in Holding /\ p \in saw THEN lost \cup {p} ELSE lost

(* A status that does not answer is a session that is gone; a kill that    *)
(* fails is tolerated.                                                     *)
reap(p) ==
    /\ clean = "reap" /\ p \in left
    /\ Takes(p, worker[p] \in Running)
    /\ worker' \in IF worker[p] \in Running
                   THEN {[worker EXCEPT ![p] = after] : after \in {"ended", "survives"}}
                   ELSE {worker}
    /\ clean' = "note" /\ reaping' = p
    /\ UNCHANGED <<lockVars, tree, named, left, saw>>

CleanNotes ==
    /\ clean = "note"
    /\ named' = [named EXCEPT ![reaping] = "reaped"]
    /\ left' = left \ {reaping}
    /\ clean' = "reap" /\ reaping' = NoPid
    /\ UNCHANGED <<lockVars, tree, worker, saw, lost>>

CleanListsTrees ==
    /\ clean = "reap" /\ left = {}
    /\ left' = tree /\ clean' = "trees"
    /\ UNCHANGED <<lockVars, groundVars, reaping, saw, lost>>

(* A removal git refuses leaves the tree.                                  *)
sweepOrphanWorktree(p) ==
    /\ clean = "trees" /\ p \in left
    /\ left' = left \ {p}
    /\ \/ tree' = tree \ {p} /\ Takes(p, p \in tree)
       \/ UNCHANGED <<tree, lost>>
    /\ UNCHANGED <<lockVars, worker, named, clean, reaping, saw>>

CleanDone ==
    /\ clean = "trees" /\ left = {}
    /\ clean' = "idle" /\ saw' = {}
    /\ UNCHANGED <<lockVars, groundVars, left, reaping, lost>>

(* A journal, a runner or git throws, or the operator's process is killed. *)
CleanDies ==
    /\ clean \notin {"idle", "locks"}
    /\ clean' = "idle" /\ left' = {} /\ reaping' = NoPid /\ saw' = {}
    /\ UNCHANGED <<lockVars, groundVars, lost>>

-----------------------------------------------------------------------------

CleanNext ==
    \/ \E p \in Proc :
          \/ Conductor(p)
          \/ Isolate(p) \/ SpawnWorker(p) \/ journalWorkerSpawned(p)
          \/ KillWorker(p) \/ journalWorkerKilled(p) \/ Dispose(p)
          \/ reap(p) \/ sweepOrphanWorktree(p)
    \/ (StopFindsHolder \/ StopWritesMarker) /\ UNCHANGED <<groundVars, cleanVars>>
    \/ CleanLooks \/ CleanClassifies \/ CleanUnlinks
    \/ CleanReadsJournal \/ CleanNotes \/ CleanListsTrees \/ CleanDone \/ CleanDies

CleanSpec == CleanInit /\ [][CleanNext]_allVars

(* As in RunLock: the acquire ladder awaits only file operations.          *)
CleanFairSpec == CleanSpec /\ \A p \in Proc : WF_vars(Acquire(p) /\ UNCHANGED <<groundVars, cleanVars>>)

-----------------------------------------------------------------------------
(* Properties                                                              *)

(* The shape of the lock's variables and of the ground's. *)
CleanTypeOK ==
    /\ TypeOK
    /\ tree \subseteq Busy
    /\ worker \in [Proc -> {"none", "running", "survives", "ended"}]
    /\ named \in [Proc -> {"none", "spawned", "killed", "reaped"}]
    /\ clean \in {"idle", "locks", "journal", "reap", "note", "trees"}
    /\ left \subseteq Proc /\ reaping \in Proc \cup {NoPid}
    /\ clean = "note" => reaping \in left
    /\ saw \subseteq Proc /\ lost \subseteq Proc

(* cli.ts:987, "the session and worktree sweeps refuse while any LIVE lock  *)
(* exists": a run that held the lock when the sweep looked for locks loses  *)
(* no session and no worktree to it, unless its lock file was taken from    *)
(* it.  A run that begins after the look is not protected.                  *)
SweepSparesTheSeen == lost \subseteq robbed

(* docs/guarantees.md:293, "A killed run's sessions are reaped": a session  *)
(* that still runs, its conductor alive or dead, is one the journal names   *)
(* as spawned, for the next clean to find, unless its line is not written   *)
(* yet, or somebody asked umbel for its end in vain.                        *)
LeakIsFound == \A p \in Proc : worker[p] = "running" => named[p] \in {"none", "spawned"}
=============================================================================
