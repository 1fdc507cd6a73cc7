---------------------------- MODULE RunLockProofs ----------------------------
(***************************************************************************)
(* Theorems about RunLock, for every set of processes and every bound.     *)
(* The invariant is TypeOK /\ HolderKeepsFile: it is inductive because the *)
(* only steps that can take the path from a holder are the three unlinks,  *)
(* and each of them records whom it robs.                                  *)
(***************************************************************************)
EXTENDS RunLock, TLAPS

LEMMA FileShape ==
    ASSUME TypeOK, file # NoFile
    PROVE  file \in [by : Proc, written : BOOLEAN]
  BY DEF TypeOK, File

(* Type correctness of the lock protocol.                                   *)
THEOREM TypeCorrect == Spec => []TypeOK
<1>1. Init => TypeOK
  <2> SUFFICES ASSUME Init PROVE TypeOK
    OBVIOUS
  <2>1. file \in File /\ pc \in [Proc -> PC] /\ seen \in [Proc -> Proc \cup {NoPid}]
    BY DEF Init, File, PC, Ended
  <2>2. cleaner \in [at : {"idle", "liveness", "unlink"}, pid : Proc \cup {NoPid}]
    BY DEF Init
  <2>3. stop \in BOOLEAN /\ stopper \in Proc \cup {NoPid} /\ stops \in Nat /\ sweeps \in Nat
    BY DEF Init
  <2>4. robbed \subseteq Proc /\ wanted \subseteq Proc /\ drained \subseteq Proc
    BY DEF Init
  <2> QED BY <2>1, <2>2, <2>3, <2>4 DEF TypeOK
<1>2. TypeOK /\ [Next]_vars => TypeOK'
  <2> SUFFICES ASSUME TypeOK, [Next]_vars PROVE TypeOK'
    OBVIOUS
  <2> USE LockAssumption DEF TypeOK, PC, Holding, Acquiring, Ended, opVars, Goto, Alive
  <2>1. ASSUME NEW p \in Proc, Start(p) PROVE TypeOK'
    BY <2>1 DEF Start
  <2>2. ASSUME NEW p \in Proc, Create(p) PROVE TypeOK'
    BY <2>2 DEF Create, File
  <2>3. ASSUME NEW p \in Proc, CreateExists(p) PROVE TypeOK'
    BY <2>3 DEF CreateExists
  <2>4. ASSUME NEW p \in Proc, WritePid(p) PROVE TypeOK'
    <3>1. file' \in File
      BY <2>4, FileShape DEF WritePid, File
    <3> QED BY <2>4, <3>1 DEF WritePid
  <2>5. ASSUME NEW p \in Proc, ReadHolder(p) PROVE TypeOK'
    <3>1. ReadPid \in Proc \cup {NoPid}
      BY FileShape DEF ReadPid
    <3> QED BY <2>5, <3>1 DEF ReadHolder
  <2>6. ASSUME NEW p \in Proc, CheckLiveness(p) PROVE TypeOK'
    BY <2>6 DEF CheckLiveness
  <2>7. ASSUME NEW p \in Proc, Takeover(p) PROVE TypeOK'
    BY <2>7 DEF Takeover, Robs, File
  <2>8. ASSUME NEW p \in Proc, FinalStopCheck(p) PROVE TypeOK'
    BY <2>8 DEF FinalStopCheck
  <2>9. ASSUME NEW p \in Proc, ClearStop(p) PROVE TypeOK'
    BY <2>9 DEF ClearStop
  <2>10. ASSUME NEW p \in Proc, Release(p) PROVE TypeOK'
    BY <2>10 DEF Release, Robs, File
  <2>11. ASSUME NEW p \in Proc, Exit(p) \/ Crash(p) \/ RunThrows(p) \/ WritePidFails(p)
         PROVE TypeOK'
    BY <2>11 DEF Exit, Crash, RunThrows, WritePidFails
  <2>12. ASSUME NEW p \in Proc, LaunchDecision(p) PROVE TypeOK'
    BY <2>12 DEF LaunchDecision
  <2>13. ASSUME StopFindsHolder PROVE TypeOK'
    <3>1. ReadPid \in Proc \cup {NoPid}
      BY FileShape DEF ReadPid
    <3> QED BY <2>13, <3>1 DEF StopFindsHolder
  <2>14. ASSUME StopWritesMarker PROVE TypeOK'
    BY <2>14 DEF StopWritesMarker
  <2>15. ASSUME SweepReads PROVE TypeOK'
    <3>1. ReadPid \in Proc \cup {NoPid}
      BY FileShape DEF ReadPid
    <3> QED BY <2>15, <3>1 DEF SweepReads
  <2>16. ASSUME SweepClassifies PROVE TypeOK'
    <3>1. cleaner' \in [at : {"idle", "liveness", "unlink"}, pid : Proc \cup {NoPid}]
      BY <2>16 DEF SweepClassifies
    <3> QED BY <2>16, <3>1 DEF SweepClassifies
  <2>17. ASSUME SweepUnlinks PROVE TypeOK'
    BY <2>17 DEF SweepUnlinks, Robs, File
  <2>18. CASE UNCHANGED vars
    BY <2>18 DEF vars
  <2> QED
    BY <2>1, <2>2, <2>3, <2>4, <2>5, <2>6, <2>7, <2>8, <2>9, <2>10, <2>11, <2>12,
       <2>13, <2>14, <2>15, <2>16, <2>17, <2>18 DEF Next, Acquire, Finish
<1>3. QED
  BY <1>1, <1>2, PTL DEF Spec

(* An unlink of the path robs every holder it could have dispossessed.      *)
LEMMA UnlinkRobs ==
    ASSUME HolderKeepsFile, NEW who, file' = NoFile, robbed' = robbed \cup Robs(who),
           NEW q \in Proc, q # who, pc[q] \in Holding
    PROVE  q \in robbed'
  BY DEF HolderKeepsFile, Robs

(* A holder nobody robbed is the process the lock path names.               *)
THEOREM HolderKeepsFileHolds == Spec => []HolderKeepsFile
<1>1. Init => HolderKeepsFile
  BY DEF Init, HolderKeepsFile, Holding
<1>2. TypeOK /\ HolderKeepsFile /\ [Next]_vars => HolderKeepsFile'
  <2> SUFFICES ASSUME TypeOK, HolderKeepsFile, [Next]_vars,
                      NEW q \in Proc, pc'[q] \in Holding, q \notin robbed'
               PROVE  file' # NoFile /\ file'.by = q
    BY DEF HolderKeepsFile
  <2> DEFINE Owns == file' # NoFile /\ file'.by = q
  <2>1. ASSUME NEW p \in Proc, Create(p) PROVE Owns
    <3>1. CASE q = p
      <4>1. file' = [by |-> p, written |-> FALSE]
        BY <2>1 DEF Create
      <4>2. file' \in [by : Proc, written : BOOLEAN]
        BY <4>1
      <4> QED BY <3>1, <4>1, <4>2, LockAssumption
    <3>2. CASE q # p
      BY <2>1, <3>2 DEF Create, Goto, HolderKeepsFile, TypeOK
    <3> QED BY <3>1, <3>2
  <2>2. ASSUME NEW p \in Proc, WritePid(p) PROVE Owns
    <3>1. file # NoFile /\ file.by = q
      BY <2>2 DEF WritePid, Goto, HolderKeepsFile, TypeOK, Holding
    <3>2. file \in [by : Proc, written : BOOLEAN]
      BY <3>1, FileShape
    <3>3. CASE file.by = p
      BY <2>2, <3>1, <3>2, <3>3, LockAssumption DEF WritePid
    <3>4. CASE file.by # p
      BY <2>2, <3>1, <3>4 DEF WritePid
    <3> QED BY <3>3, <3>4
  <2>3. ASSUME NEW p \in Proc, Takeover(p) PROVE Owns
    <3>1. q # p /\ pc[q] \in Holding
      BY <2>3 DEF Takeover, Goto, TypeOK, Holding
    <3> QED BY <2>3, <3>1, UnlinkRobs DEF Takeover
  <2>4. ASSUME NEW p \in Proc, Release(p) PROVE Owns
    <3>1. q # p /\ pc[q] \in Holding
      BY <2>4 DEF Release, Goto, TypeOK, Holding
    <3> QED BY <2>4, <3>1, UnlinkRobs DEF Release
  <2>5. ASSUME SweepUnlinks PROVE Owns
    <3>1. q # NoPid /\ pc[q] \in Holding
      BY <2>5, LockAssumption DEF SweepUnlinks
    <3> QED BY <2>5, <3>1, UnlinkRobs DEF SweepUnlinks
  <2>6. ASSUME NEW p \in Proc,
               \/ Start(p) \/ CreateExists(p) \/ ReadHolder(p) \/ CheckLiveness(p)
               \/ Exit(p) \/ Crash(p) \/ WritePidFails(p)
        PROVE  Owns
    <3>1. file' = file /\ robbed' = robbed /\ pc[q] \in Holding
      BY <2>6 DEF Start, CreateExists, ReadHolder, CheckLiveness, Exit, Crash, WritePidFails,
                  Goto, TypeOK, Holding
    <3> QED BY <3>1 DEF HolderKeepsFile
  <2>7. ASSUME NEW p \in Proc,
               RunThrows(p) \/ FinalStopCheck(p) \/ ClearStop(p) \/ LaunchDecision(p)
        PROVE  Owns
    <3>1. file' = file /\ robbed' = robbed /\ pc[q] \in Holding
      BY <2>7 DEF RunThrows, FinalStopCheck, ClearStop, LaunchDecision, Goto, TypeOK,
                  Holding, opVars
    <3> QED BY <3>1 DEF HolderKeepsFile
  <2>8. ASSUME StopFindsHolder \/ StopWritesMarker \/ SweepReads \/ SweepClassifies
               \/ UNCHANGED vars
        PROVE  Owns
    <3>1. file' = file /\ robbed' = robbed /\ pc' = pc
      BY <2>8 DEF StopFindsHolder, StopWritesMarker, SweepReads, SweepClassifies, vars
    <3> QED BY <3>1 DEF HolderKeepsFile
  <2> QED
    BY <2>1, <2>2, <2>3, <2>4, <2>5, <2>6, <2>7, <2>8 DEF Next, Acquire, Finish
<1>3. QED
  BY <1>1, <1>2, TypeCorrect, PTL DEF Spec

(* Two conductors at once means one was robbed of its lock file.            *)
THEOREM TwoOnlyByRobberyHolds == Spec => []TwoOnlyByRobbery
<1>1. HolderKeepsFile => TwoOnlyByRobbery
  BY DEF HolderKeepsFile, TwoOnlyByRobbery
<1>2. QED
  BY <1>1, HolderKeepsFileHolds, PTL
=============================================================================
