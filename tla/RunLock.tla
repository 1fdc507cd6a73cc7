------------------------------- MODULE RunLock -------------------------------
(***************************************************************************)
(* The lock of one (repository, plan source): src/src/seams/lock.ts, the   *)
(* stale-lock half of `pleach clean` (src/src/seams/clean.ts), and the     *)
(* drain marker `pleach stop` leaves beside the lock.                      *)
(*                                                                         *)
(* Every element of Proc is one operating-system process, and its pid: a   *)
(* conductor that tries to take the lock once, runs, releases and exits.   *)
(* The run lock and the landing lock climb the same ladder (acquireAt), so *)
(* one instance of this module stands for either; only the run reads the   *)
(* drain marker.                                                           *)
(*                                                                         *)
(* The lock file is an inode, not a name: a process that created the file  *)
(* writes its pid through the handle it holds, wherever the path now leads.*)
(* An inode is named by the process that created it (a process creates at  *)
(* most one).                                                              *)
(***************************************************************************)
EXTENDS Naturals

CONSTANTS
    Proc,        \* the processes that may try to take the lock, named by pid
    NoFile,      \* the path names no file
    NoPid,       \* readPid's null: no file, or a file with no pid in it yet
    MaxErrands   \* bound: how many times somebody runs `pleach stop` or `pleach clean`

ASSUME LockAssumption ==
    /\ NoPid \notin Proc
    /\ NoFile \notin [by : Proc, written : BOOLEAN]
    /\ MaxErrands \in Nat

VARIABLES
    file,     \* what the lock path names: NoFile, or the inode and whether its pid is written
    pc,       \* where each process is in acquire / run / release
    seen,     \* the pid each process read from the lock file
    stop,     \* the drain marker exists
    stopper,  \* `pleach stop`: the live pid it found and is about to write the marker for
    cleaner,  \* `pleach clean`: idle, or the pid it read, or about to unlink
    stops,    \* number of `pleach stop` started
    sweeps,   \* number of `pleach clean` started
    robbed,   \* history: processes whose lock file another process unlinked while they held it
    wanted,   \* history: processes a `pleach stop` was addressed to
    drained   \* history: processes that read the drain marker as present

vars == <<file, pc, seen, stop, stopper, cleaner, stops, sweeps, robbed, wanted, drained>>
opVars == <<stop, stopper, cleaner, stops, sweeps, wanted, drained>>

(* Between a successful open('wx') and the unlink of release a process      *)
(* believes it is the conductor.                                            *)
Holding == {"writing", "held", "closing", "releasing"}
Acquiring == {"start", "inspect", "liveness", "takeover", "retry"}
Ended == {"idle", "exited"}
PC == Holding \cup Acquiring \cup Ended \cup {"refused", "failed", "released"}

File == {NoFile} \cup [by : Proc, written : BOOLEAN]

Alive(p) == pc[p] \notin Ended

Goto(p, l) == pc' = [pc EXCEPT ![p] = l]

(* The pid a reader of the lock path gets.                                  *)
ReadPid == IF file # NoFile /\ file.written THEN file.by ELSE NoPid

(* The processes an unlink of the path by `who` takes the lock from.        *)
Robs(who) == {q \in Proc \ {who} : file # NoFile /\ file.by = q /\ pc[q] \in Holding}

Init ==
    /\ file = NoFile
    /\ pc = [p \in Proc |-> "idle"]
    /\ seen = [p \in Proc |-> NoPid]
    /\ stop = FALSE
    /\ stopper = NoPid
    /\ cleaner = [at |-> "idle", pid |-> NoPid]
    /\ stops = 0
    /\ sweeps = 0
    /\ robbed = {}
    /\ wanted = {}
    /\ drained = {}

-----------------------------------------------------------------------------
(* acquireAt                                                               *)

Start(p) ==
    /\ pc[p] = "idle"
    /\ Goto(p, "start")
    /\ UNCHANGED <<file, seen, robbed, opVars>>

(* Mutant: the file is opened 'w', over whatever is there.                 *)
MutCreateOver(p) ==
    /\ pc[p] \in {"start", "retry"}
    /\ file' = [by |-> p, written |-> FALSE]
    /\ Goto(p, "writing")
    /\ UNCHANGED <<seen, robbed, opVars>>

(* tryAcquireExcl's open(path, 'wx'): atomic; the pid is not in the file yet. *)
Create(p) ==
    /\ pc[p] \in {"start", "retry"}
    /\ file = NoFile
    /\ file' = [by |-> p, written |-> FALSE]
    /\ Goto(p, "writing")
    /\ UNCHANGED <<seen, robbed, opVars>>

(* EEXIST: the first time the holder is inspected, after a takeover the race is lost. *)
CreateExists(p) ==
    /\ file # NoFile
    /\ \/ pc[p] = "start" /\ Goto(p, "inspect")
       \/ pc[p] = "retry" /\ Goto(p, "refused")
    /\ UNCHANGED <<file, seen, robbed, opVars>>

(* fh.writeFile goes to the inode this process created, linked or not. *)
WritePid(p) ==
    /\ pc[p] = "writing"
    /\ file' = IF file # NoFile /\ file.by = p THEN [file EXCEPT !.written = TRUE] ELSE file
    /\ Goto(p, "held")
    /\ UNCHANGED <<seen, robbed, opVars>>

(* A write the file system refuses is rethrown: no handle, and the file stays. *)
WritePidFails(p) ==
    /\ pc[p] = "writing"
    /\ Goto(p, "failed")
    /\ UNCHANGED <<file, seen, robbed, opVars>>

(* Mutant: the file's text is kept as read, without parsing a pid.         *)
MutReadHolderRaw(p) ==
    /\ pc[p] = "inspect"
    /\ seen' = [seen EXCEPT ![p] = file]
    /\ Goto(p, "liveness")
    /\ UNCHANGED <<file, robbed, opVars>>

ReadHolder(p) ==
    /\ pc[p] = "inspect"
    /\ seen' = [seen EXCEPT ![p] = ReadPid]
    /\ Goto(p, "liveness")
    /\ UNCHANGED <<file, robbed, opVars>>

(* Mutant: any pid counts as live.                                         *)
MutCheckLivenessAnyPid(p) ==
    /\ pc[p] = "liveness"
    /\ Goto(p, IF seen[p] # NoPid THEN "refused" ELSE "takeover")
    /\ UNCHANGED <<file, seen, robbed, opVars>>

(* process.kill(pid, 0), asked after the read answered. *)
CheckLiveness(p) ==
    /\ pc[p] = "liveness"
    /\ Goto(p, IF seen[p] # NoPid /\ Alive(seen[p]) THEN "refused" ELSE "takeover")
    /\ UNCHANGED <<file, seen, robbed, opVars>>

(* unlink whatever the path names now; ENOENT is fine. *)
Takeover(p) ==
    /\ pc[p] = "takeover"
    /\ robbed' = robbed \cup Robs(p)
    /\ file' = NoFile
    /\ Goto(p, "retry")
    /\ UNCHANGED <<seen, opVars>>

-----------------------------------------------------------------------------
(* The run under the lock, as far as the lock and the marker see it        *)

(* A launch decision that finds the marker: the run launches nothing more. *)
LaunchDecision(p) ==
    /\ pc[p] = "held"
    /\ stop
    /\ drained' = drained \cup {p}
    /\ UNCHANGED <<file, pc, seen, stop, stopper, cleaner, stops, sweeps, robbed, wanted>>

(* The run's one authoritative read at the end: a marker present is consumed. *)
FinalStopCheck(p) ==
    /\ pc[p] = "held"
    /\ IF stop
       THEN Goto(p, "closing") /\ drained' = drained \cup {p}
       ELSE Goto(p, "releasing") /\ UNCHANGED drained
    /\ UNCHANGED <<file, seen, stop, stopper, cleaner, stops, sweeps, robbed, wanted>>

ClearStop(p) ==
    /\ pc[p] = "closing"
    /\ stop' = FALSE
    /\ Goto(p, "releasing")
    /\ UNCHANGED <<file, seen, stopper, cleaner, stops, sweeps, robbed, wanted, drained>>

(* A run that throws (RebuildRequiredError, a rejected node) skips the final check. *)
RunThrows(p) ==
    /\ pc[p] = "held"
    /\ Goto(p, "releasing")
    /\ UNCHANGED <<file, seen, robbed, opVars>>

(* release(): unlink the path, whoever's file it names; ENOENT is fine. *)
Release(p) ==
    /\ pc[p] = "releasing"
    /\ robbed' = robbed \cup Robs(p)
    /\ file' = NoFile
    /\ Goto(p, "released")
    /\ UNCHANGED <<seen, opVars>>

Exit(p) ==
    /\ pc[p] \in {"refused", "failed", "released"}
    /\ Goto(p, "exited")
    /\ UNCHANGED <<file, seen, robbed, opVars>>

(* The process is killed: nothing of its is cleaned up. *)
Crash(p) ==
    /\ Alive(p)
    /\ Goto(p, "exited")
    /\ UNCHANGED <<file, seen, robbed, opVars>>

-----------------------------------------------------------------------------
(* `pleach stop` and `pleach clean`                                        *)

(* liveHolder: NoRunError unless the lock names a live pid. *)
StopFindsHolder ==
    /\ stops + sweeps < MaxErrands
    /\ stopper = NoPid
    /\ ReadPid # NoPid
    /\ Alive(ReadPid)
    /\ stops' = stops + 1
    /\ stopper' = ReadPid
    /\ UNCHANGED <<file, pc, seen, stop, cleaner, sweeps, robbed, wanted, drained>>

StopWritesMarker ==
    /\ stopper # NoPid
    /\ stop' = TRUE
    /\ wanted' = wanted \cup {stopper}
    /\ stopper' = NoPid
    /\ UNCHANGED <<file, pc, seen, cleaner, stops, sweeps, robbed, drained>>

(* The lock files there are, each read for its pid. *)
SweepReads ==
    /\ stops + sweeps < MaxErrands
    /\ cleaner.at = "idle"
    /\ sweeps' = sweeps + 1
    /\ cleaner' = IF file = NoFile THEN cleaner ELSE [at |-> "liveness", pid |-> ReadPid]
    /\ UNCHANGED <<file, pc, seen, stop, stopper, stops, robbed, wanted, drained>>

SweepClassifies ==
    /\ cleaner.at = "liveness"
    /\ cleaner' = IF cleaner.pid # NoPid /\ Alive(cleaner.pid)
                  THEN [at |-> "idle", pid |-> NoPid]
                  ELSE [cleaner EXCEPT !.at = "unlink"]
    /\ UNCHANGED <<file, pc, seen, stop, stopper, stops, sweeps, robbed, wanted, drained>>

SweepUnlinks ==
    /\ cleaner.at = "unlink"
    /\ robbed' = robbed \cup Robs(NoPid)
    /\ file' = NoFile
    /\ cleaner' = [at |-> "idle", pid |-> NoPid]
    /\ UNCHANGED <<pc, seen, stop, stopper, stops, sweeps, wanted, drained>>

-----------------------------------------------------------------------------

Acquire(p) ==
    \/ Create(p) \/ CreateExists(p) \/ WritePid(p) \/ ReadHolder(p)
    \/ CheckLiveness(p) \/ Takeover(p)

Finish(p) ==
    \/ FinalStopCheck(p) \/ ClearStop(p) \/ Release(p) \/ Exit(p)

Next ==
    \/ \E p \in Proc :
          \/ Start(p) \/ Acquire(p) \/ Finish(p)
          \/ WritePidFails(p) \/ LaunchDecision(p) \/ RunThrows(p) \/ Crash(p)
    \/ StopFindsHolder \/ StopWritesMarker
    \/ SweepReads \/ SweepClassifies \/ SweepUnlinks

Spec == Init /\ [][Next]_vars

(* A process that has begun to acquire keeps running: the ladder awaits     *)
(* only file operations that return. Nothing forces a process to start, to  *)
(* crash, to end its run, or an operator to type a command.                 *)
FairSpec == Spec /\ \A p \in Proc : WF_vars(Acquire(p))

-----------------------------------------------------------------------------
(* Properties                                                              *)

(* The shape of every variable of the lock protocol. *)
TypeOK ==
    /\ file \in File
    /\ pc \in [Proc -> PC]
    /\ seen \in [Proc -> Proc \cup {NoPid}]
    /\ stop \in BOOLEAN
    /\ stopper \in Proc \cup {NoPid}
    /\ cleaner \in [at : {"idle", "liveness", "unlink"}, pid : Proc \cup {NoPid}]
    /\ stops \in Nat
    /\ sweeps \in Nat
    /\ robbed \subseteq Proc
    /\ wanted \subseteq Proc
    /\ drained \subseteq Proc

(* A process that holds the lock, and whose file nobody else unlinked, is   *)
(* the one the lock path names (so `pleach stop` and `status` find it).     *)
HolderKeepsFile ==
    \A p \in Proc : pc[p] \in Holding /\ p \notin robbed => file # NoFile /\ file.by = p

(* Two conductors of one plan exist only after one of them was robbed of    *)
(* its lock file by a takeover, a sweep or another's release: O_EXCL itself *)
(* never lets two in.                                                       *)
TwoOnlyByRobbery ==
    \A p, q \in Proc :
        p # q /\ pc[p] \in Holding /\ pc[q] \in Holding => p \in robbed \/ q \in robbed

(* ENGINEERING.md:130, "One conductor per (repo, source)": no two processes *)
(* hold the lock at once. The takeover breaks it, see the README.           *)
OneConductor ==
    \A p, q \in Proc :
        pc[p] \in Holding \ {"writing"} /\ pc[q] \in Holding \ {"writing"} => p = q

(* deps.ts:301, "so the run that drained does not leave the next one        *)
(* stopped before it starts": a run drains only when a `pleach stop` was    *)
(* addressed to it.                                                         *)
DrainsOnlyWhenAsked == drained \subseteq wanted

(* Every climb of the acquire ladder ends: nobody spins or waits on the     *)
(* lock, whatever the others do.                                            *)
AcquireSettles ==
    \A p \in Proc : pc[p] = "start" ~> pc[p] \notin Acquiring \cup {"writing"}

(* A lock left by dead processes never keeps a conductor out: one that      *)
(* starts with nobody else alive gets the lock, unless it is killed itself  *)
(* or the file system refuses its pid.                                      *)
StaleNeverBlocks ==
    \A p \in Proc :
        (pc[p] = "start" /\ [](\A q \in Proc \ {p} : ~Alive(q)))
            ~> pc[p] \in {"held", "failed", "exited"}
=============================================================================
