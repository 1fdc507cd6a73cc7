--------------------------- MODULE WorktreeProofs ---------------------------
(***************************************************************************)
(* Theorems about Worktree, for every set of paths, every rule of what is  *)
(* ignored and every number of attempts, windows, merges and runs.         *)
(*                                                                         *)
(* What the verified commit holds is settled when the close is staged: the *)
(* index does not move again, though nearly anything may write to the      *)
(* files.  So the invariants relate, at each stage, the index to the files *)
(* it was staged from, to the files the smoke began with, and to HEAD.     *)
(***************************************************************************)
EXTENDS Worktree, TLAPS

-----------------------------------------------------------------------------
(* The invariants                                                          *)

(* The paths delivery looks at.                                             *)
Delivered == Path \ (Scratch \cup ignored)

(* And those of them whose names it reads.                                  *)
Named == Delivered \ quoted

(* From the staging on, what hygiene passed is the index.                   *)
JudgedIsStaged ==
    /\ at \in {"smoke", "audit", "verify"} => judged = index
    /\ published # NoTree => at \in {"dispose", "end"} /\ published = judged

(* What a failed gate wrote is undone before anything looks at the tree.    *)
Spotless(t) == \A p \in Delivered : t[p] # "red"
Unsoiled ==
    /\ Spotless(wt) /\ Spotless(index) /\ Spotless(head) /\ Spotless(record)
    /\ Spotless(origin.tree)
    /\ published # NoTree => Spotless(published)
    /\ kept \notin {NoTree, Missed} => Spotless(kept)

(* A tree handed back and disposed of is staged whole, but for the paths    *)
(* whose names are printed in quotes.                                       *)
StagedWhole ==
    /\ at \notin {"dispose", "end"} => kept = NoTree
    /\ at = "dispose" /\ published = NoTree /\ kept # Missed =>
          \A p \in Path :
             /\ \/ wt[p] = index[p]
                \/ wt[p] \in Late
                \/ p \in quoted
                \/ p \in ignored /\ index[p] = "none" /\ head[p] = "none"
             /\ IF kept = NoTree THEN index[p] = head[p] ELSE kept[p] = index[p]

(* The index against the files: what is not about to be staged is staged.   *)
Held(t, p) == t[p] = index[p] \/ t[p] \in Late
Agree ==
    /\ gate # "off" => at \in Gates
    /\ at = "stage" => \A p \in Named \ files : Held(wt, p)
    /\ at = "smoke" /\ gate = "off" => \A p \in Named : Held(wt, p)
    /\ at = "smoke" /\ gate # "off" =>
          /\ smoked # NoTree
          /\ \A p \in Named : Held(record, p) /\ Held(smoked, p)
    /\ at \in {"audit", "verify"} /\ node.smoke =>
          smoked # NoTree /\ \A p \in Named : Held(smoked, p)
    /\ published # NoTree => at \in {"dispose", "end"}
    /\ published # NoTree /\ node.smoke =>
          \A p \in Named : published[p] = smoked[p] \/ smoked[p] \in Late

(* No marker passes the scan, and none is staged after it.                  *)
Marked(t) == \E p \in Path \ (Scratch \cup quoted) : t[p] = "marker"
Unmarked ==
    /\ at = "collect" => NoMarkers
    /\ at = "stage" =>
          /\ \A p \in files \ {InQuotes} : wt[p] # "marker"
          /\ \A p \in Path \ (Scratch \cup quoted) : index[p] = "marker" => p \in files
    /\ at \in {"smoke", "audit", "verify"} => ~Marked(index)
    /\ published # NoTree => at \in {"dispose", "end"} /\ ~Marked(published)

(* What hygiene refuses reaches HEAD only with the tree the node began on.  *)
Scanned ==
    /\ \A p \in Path : head[p] = "refused" => origin.tree[p] = "refused"
    /\ at # "dispose" => \A p \in Scratch : index[p] = "refused" => head[p] = "refused"
    /\ at = "stage" =>
          \A p \in Path \ Scratch : index[p] = "refused" => head[p] = "refused" \/ files # {}
    /\ at \in {"smoke", "audit", "verify"} =>
          \A p \in Path : index[p] = "refused" => head[p] = "refused"
    /\ files \cap Scratch = {}
    /\ at = "isolate" /\ concluded => index = head
    /\ published # NoTree =>
          /\ at \in {"dispose", "end"}
          /\ \A p \in Path : published[p] = "refused" => origin.tree[p] = "refused"

-----------------------------------------------------------------------------
(* Type correctness                                                        *)

(* What git and pleach answer about trees are trees, and sets of paths.     *)
LEMMA Collected ==
    ASSUME NEW touched \in SUBSET Path
    PROVE  /\ collectDelivery(touched) \subseteq Path \cup {InQuotes}
           /\ collectDelivery(touched) \cap Scratch = {}
  BY WorktreeAssumption DEF collectDelivery, partitionDelivery, changedFiles, Changed

(* What is left running writes its own content, to the files only.          *)
LEMMA Background ==
    ASSUME TypeOK, BackgroundWrites
    PROVE  /\ wt' \in Tree
           /\ \A p \in Path : wt'[p] = wt[p] \/ wt'[p] \in Late
           /\ at # "end"
           /\ UNCHANGED <<given, at, attempt, isolateVars, index, head, sealed, settleVars, gateVars,
                          stageVars, answers>>
<1> USE DEF BackgroundWrites, TypeOK, Tree
<1>1. CASE UNCHANGED wt
  BY <1>1
<1>2. ASSUME NEW p \in Loose,
             wt' = [wt EXCEPT ![p] = IF wt[p] = "late" THEN "later" ELSE "late"]
      PROVE  wt' \in Tree /\ \A q \in Path : wt'[q] = wt[q] \/ wt'[q] \in Late
  <2>1. (IF wt[p] = "late" THEN "later" ELSE "late") \in Late
    BY DEF Late
  <2>2. Late \subseteq Content
    BY DEF Late, Content
  <2> QED
    BY <1>2, <2>1, <2>2
<1> QED
  BY <1>1, <1>2

(* The three trees and the record stay trees, whoever writes to them.       *)
LEMMA TreesTyped ==
    ASSUME TypeOK, Next
    PROVE  wt' \in Tree /\ index' \in Tree /\ head' \in Tree /\ record' \in Tree
<1> USE WorktreeAssumption DEF given, trees, settleVars, gateVars, stageVars, isolateVars,
        answers, TypeOK, Tree, Content, Write, recordTree, restoreTree, stage, GateOver,
        Edits, commit, Refused, commitBranch, Refuse, Blank
<1>1. CASE MergeConflicts \/ MergeRefused
  BY <1>1 DEF MergeConflicts, MergeRefused
<1>2. CASE IsolateFails \/ Isolated
  BY <1>2 DEF IsolateFails, Isolated
<1>3. CASE Work \/ WorkFails
  BY <1>3 DEF Work, WorkFails
<1>4. CASE Recast
  BY <1>4 DEF Recast
<1>5. CASE SettleOff \/ SettleBegins
  BY <1>5 DEF SettleOff, SettleBegins
<1>6. CASE SettleWindow \/ SettleCut
  BY <1>6 DEF SettleWindow, SettleCut
<1>7. CASE GateRuns
  BY <1>7 DEF GateRuns
<1>8. CASE GatePasses
  BY <1>8 DEF GatePasses
<1>9. CASE GateFails
  BY <1>9 DEF GateFails
<1>10. CASE GateCannotRun
  BY <1>10 DEF GateCannotRun
<1>11. CASE SealCollects
  BY <1>11 DEF SealCollects
<1>12. CASE Seal
  BY <1>12 DEF Seal
<1>13. CASE Marker \/ Collect
  BY <1>13 DEF Marker, Collect
<1>14. CASE StageAndScan
  BY <1>14 DEF StageAndScan
<1>15. CASE Audit
  BY <1>15 DEF Audit
<1>16. CASE SeamFails
  BY <1>16 DEF SeamFails
<1>17. CASE Verify
  BY <1>17 DEF Verify
<1>18. CASE Quarantine
  BY <1>18 DEF Quarantine
<1>19. CASE Dispose \/ Resume
  BY <1>19 DEF Dispose, Resume
<1>20. CASE BackgroundWrites
  BY <1>20, Background
<1> QED
  BY <1>1, <1>2, <1>3, <1>4, <1>5, <1>6, <1>7, <1>8, <1>9, <1>10, <1>11, <1>12, <1>13, <1>14,
     <1>15, <1>16, <1>17, <1>18, <1>19, <1>20
  DEF Next

(* The node goes from stage to stage, within its attempts, windows and runs. *)
LEMMA PlaceTyped ==
    ASSUME TypeOK, Next
    PROVE  /\ at' \in Stages /\ attempt' \in 1..node.maxAttempts /\ run' \in 1..MaxRuns
           /\ node' = node /\ ignored' = ignored /\ quoted' = quoted
           /\ merged' \in 0..MaxMerges /\ windows' \in -1..(MaxWindows - 1)
<1> USE WorktreeAssumption DEF given, trees, settleVars, gateVars, stageVars, isolateVars,
        answers, TypeOK, Stages, Gates, Retry, Keep, FirstStep, AfterSettle, After,
        AfterHygiene, Settled, StillChanging, commitBranch, Refuse
<1>1. CASE MergeConflicts \/ MergeRefused
  BY <1>1 DEF MergeConflicts, MergeRefused
<1>2. CASE IsolateFails \/ Isolated
  BY <1>2 DEF IsolateFails, Isolated
<1>3. CASE Work \/ WorkFails
  BY <1>3 DEF Work, WorkFails
<1>4. CASE Recast
  BY <1>4 DEF Recast
<1>5. CASE SettleOff \/ SettleBegins
  BY <1>5 DEF SettleOff, SettleBegins
<1>6. CASE SettleWindow \/ SettleCut
  BY <1>6 DEF SettleWindow, SettleCut
<1>7. CASE GateRuns
  BY <1>7 DEF GateRuns
<1>8. CASE GatePasses
  BY <1>8 DEF GatePasses
<1>9. CASE GateFails
  BY <1>9 DEF GateFails
<1>10. CASE GateCannotRun
  BY <1>10 DEF GateCannotRun
<1>11. CASE SealCollects
  BY <1>11 DEF SealCollects
<1>12. CASE Seal
  BY <1>12 DEF Seal
<1>13. CASE Marker \/ Collect
  BY <1>13 DEF Marker, Collect
<1>14. CASE StageAndScan
  BY <1>14 DEF StageAndScan
<1>15. CASE Audit
  BY <1>15 DEF Audit
<1>16. CASE SeamFails
  BY <1>16 DEF SeamFails
<1>17. CASE Verify
  BY <1>17 DEF Verify
<1>18. CASE Quarantine
  BY <1>18 DEF Quarantine
<1>19. CASE Dispose \/ Resume
  BY <1>19 DEF Dispose, Resume
<1>20. CASE BackgroundWrites
  BY <1>20 DEF BackgroundWrites
<1> QED
  BY <1>1, <1>2, <1>3, <1>4, <1>5, <1>6, <1>7, <1>8, <1>9, <1>10, <1>11, <1>12, <1>13, <1>14,
     <1>15, <1>16, <1>17, <1>18, <1>19, <1>20
  DEF Next

(* So do the flags, the gate's run and the collected paths.                 *)
LEMMA RestTyped ==
    ASSUME TypeOK, Next
    PROVE  /\ concluded' \in BOOLEAN /\ sealed' \in BOOLEAN /\ running' \in BOOLEAN
           /\ gate' \in {"off", "first", "again"} /\ files' \subseteq Path \cup {InQuotes}
<1> USE Collected DEF given, trees, settleVars, gateVars, stageVars, isolateVars, answers,
        TypeOK, GateOver, Edits, commit, Refuse, commitBranch
<1>1. CASE MergeConflicts \/ MergeRefused
  BY <1>1 DEF MergeConflicts, MergeRefused
<1>2. CASE IsolateFails \/ Isolated
  BY <1>2 DEF IsolateFails, Isolated
<1>3. CASE Work \/ WorkFails
  BY <1>3 DEF Work, WorkFails
<1>4. CASE Recast
  BY <1>4 DEF Recast
<1>5. CASE SettleOff \/ SettleBegins
  BY <1>5 DEF SettleOff, SettleBegins
<1>6. CASE SettleWindow \/ SettleCut
  BY <1>6 DEF SettleWindow, SettleCut
<1>7. CASE GateRuns
  BY <1>7 DEF GateRuns
<1>8. CASE GatePasses
  BY <1>8 DEF GatePasses
<1>9. CASE GateFails
  BY <1>9 DEF GateFails
<1>10. CASE GateCannotRun
  BY <1>10 DEF GateCannotRun
<1>11. CASE SealCollects
  BY <1>11 DEF SealCollects
<1>12. CASE Seal
  BY <1>12 DEF Seal
<1>13. CASE Marker \/ Collect
  BY <1>13 DEF Marker, Collect
<1>14. CASE StageAndScan
  BY <1>14 DEF StageAndScan
<1>15. CASE Audit
  BY <1>15 DEF Audit
<1>16. CASE SeamFails
  BY <1>16 DEF SeamFails
<1>17. CASE Verify
  BY <1>17 DEF Verify
<1>18. CASE Quarantine
  BY <1>18 DEF Quarantine
<1>19. CASE Dispose \/ Resume
  BY <1>19 DEF Dispose, Resume
<1>20. CASE BackgroundWrites
  BY <1>20 DEF BackgroundWrites
<1> QED
  BY <1>1, <1>2, <1>3, <1>4, <1>5, <1>6, <1>7, <1>8, <1>9, <1>10, <1>11, <1>12, <1>13, <1>14,
     <1>15, <1>16, <1>17, <1>18, <1>19, <1>20
  DEF Next

(* So do the trees that are remembered.                                     *)
LEMMA HistoryTyped ==
    ASSUME TypeOK, Next, index' \in Tree, wt' \in Tree
    PROVE  /\ judged' \in Tree \cup {NoTree} /\ smoked' \in Tree \cup {NoTree}
           /\ published' \in Tree \cup {NoTree} /\ kept' \in Tree \cup {NoTree, Missed}
           /\ origin' \in [tree : Tree, sealed : BOOLEAN]
<1> USE DEF given, trees, settleVars, gateVars, stageVars, isolateVars, answers, TypeOK,
        GateOver, commit, Refuse, commitBranch, snapshot
<1>1. CASE MergeConflicts \/ MergeRefused
  BY <1>1 DEF MergeConflicts, MergeRefused
<1>2. CASE IsolateFails \/ Isolated
  BY <1>2 DEF IsolateFails, Isolated
<1>3. CASE Work \/ WorkFails
  BY <1>3 DEF Work, WorkFails
<1>4. CASE Recast
  BY <1>4 DEF Recast
<1>5. CASE SettleOff \/ SettleBegins
  BY <1>5 DEF SettleOff, SettleBegins
<1>6. CASE SettleWindow \/ SettleCut
  BY <1>6 DEF SettleWindow, SettleCut
<1>7. CASE GateRuns
  BY <1>7 DEF GateRuns
<1>8. CASE GatePasses
  BY <1>8 DEF GatePasses
<1>9. CASE GateFails
  BY <1>9 DEF GateFails
<1>10. CASE GateCannotRun
  BY <1>10 DEF GateCannotRun
<1>11. CASE SealCollects
  BY <1>11 DEF SealCollects
<1>12. CASE Seal
  BY <1>12 DEF Seal
<1>13. CASE Marker \/ Collect
  BY <1>13 DEF Marker, Collect
<1>14. CASE StageAndScan
  BY <1>14 DEF StageAndScan
<1>15. CASE Audit
  BY <1>15 DEF Audit
<1>16. CASE SeamFails
  BY <1>16 DEF SeamFails
<1>17. CASE Verify
  BY <1>17 DEF Verify
<1>18. CASE Quarantine
  BY <1>18 DEF Quarantine
<1>19. CASE Dispose \/ Resume
  BY <1>19 DEF Dispose, Resume
<1>20. CASE BackgroundWrites
  BY <1>20 DEF BackgroundWrites
<1> QED
  BY <1>1, <1>2, <1>3, <1>4, <1>5, <1>6, <1>7, <1>8, <1>9, <1>10, <1>11, <1>12, <1>13, <1>14,
     <1>15, <1>16, <1>17, <1>18, <1>19, <1>20
  DEF Next

(* No step takes a variable out of its range.                               *)
LEMMA StepTyped == TypeOK /\ [Next]_vars => TypeOK'
<1>1. ASSUME TypeOK, Next PROVE TypeOK'
  <2>1. node \in Nodes /\ [ignored |-> ignored, quoted |-> quoted] \in Repos
    BY <1>1 DEF TypeOK
  <2> QED
    BY <1>1, <2>1, TreesTyped, PlaceTyped, RestTyped, HistoryTyped DEF TypeOK
<1>2. ASSUME TypeOK, UNCHANGED vars PROVE TypeOK'
  BY <1>2 DEF TypeOK, vars, given, trees, isolateVars, settleVars, gateVars, stageVars, answers
<1> QED
  BY <1>1, <1>2

-----------------------------------------------------------------------------
(* Each invariant is kept                                                  *)

(* After the staging only the commit touches the index, and it changes nothing in it. *)
LEMMA StepJudged ==
    ASSUME TypeOK, Next, JudgedIsStaged
    PROVE  JudgedIsStaged'
<1> USE DEF given, trees, settleVars, gateVars, stageVars, isolateVars, answers, TypeOK,
        Gates, JudgedIsStaged, commit, Refuse, commitBranch, Retry, Keep, FirstStep,
        AfterSettle, After, AfterHygiene
<1>1. CASE MergeConflicts \/ MergeRefused
  BY <1>1 DEF MergeConflicts, MergeRefused
<1>2. CASE IsolateFails \/ Isolated
  BY <1>2 DEF IsolateFails, Isolated
<1>3. CASE Work \/ WorkFails
  BY <1>3 DEF Work, WorkFails
<1>4. CASE Recast
  BY <1>4 DEF Recast
<1>5. CASE SettleOff \/ SettleBegins
  BY <1>5 DEF SettleOff, SettleBegins
<1>6. CASE SettleWindow \/ SettleCut
  BY <1>6 DEF SettleWindow, SettleCut
<1>7. CASE GateRuns
  BY <1>7 DEF GateRuns
<1>8. CASE GatePasses
  BY <1>8 DEF GatePasses
<1>9. CASE GateFails
  BY <1>9 DEF GateFails
<1>10. CASE GateCannotRun
  BY <1>10 DEF GateCannotRun
<1>11. CASE SealCollects
  BY <1>11 DEF SealCollects
<1>12. CASE Seal
  BY <1>12 DEF Seal
<1>13. CASE Marker \/ Collect
  BY <1>13 DEF Marker, Collect
<1>14. CASE StageAndScan
  BY <1>14 DEF StageAndScan
<1>15. CASE Audit
  BY <1>15 DEF Audit
<1>16. CASE SeamFails
  BY <1>16 DEF SeamFails
<1>17. CASE Verify
  BY <1>17 DEF Verify
<1>18. CASE Quarantine
  BY <1>18 DEF Quarantine
<1>19. CASE Dispose \/ Resume
  BY <1>19 DEF Dispose, Resume
<1>20. CASE BackgroundWrites
  BY <1>20 DEF BackgroundWrites
<1> QED
  BY <1>1, <1>2, <1>3, <1>4, <1>5, <1>6, <1>7, <1>8, <1>9, <1>10, <1>11, <1>12, <1>13, <1>14,
     <1>15, <1>16, <1>17, <1>18, <1>19, <1>20
  DEF Next

(* A failed gate's writes are put back to the record, which holds none.     *)
LEMMA StepUnsoiled ==
    ASSUME TypeOK, Next, Unsoiled
    PROVE  Unsoiled'
<1> USE WorktreeAssumption DEF given, trees, settleVars, gateVars, stageVars, isolateVars,
        answers, TypeOK, Tree, Content, Unsoiled, Spotless, Delivered, Write, recordTree,
        restoreTree, stage, GateOver, Edits, commit, Refused, commitBranch, Refuse, Blank,
        snapshot
<1>1. CASE MergeConflicts \/ MergeRefused
  BY <1>1 DEF MergeConflicts, MergeRefused
<1>2. CASE IsolateFails \/ Isolated
  BY <1>2 DEF IsolateFails, Isolated
<1>3. CASE Work \/ WorkFails
  BY <1>3 DEF Work, WorkFails
<1>4. CASE Recast
  BY <1>4 DEF Recast
<1>5. CASE SettleOff \/ SettleBegins
  BY <1>5 DEF SettleOff, SettleBegins
<1>6. CASE SettleWindow \/ SettleCut
  BY <1>6 DEF SettleWindow, SettleCut
<1>7. CASE GateRuns
  BY <1>7 DEF GateRuns
<1>8. CASE GatePasses
  BY <1>8 DEF GatePasses
<1>9. CASE GateFails
  BY <1>9 DEF GateFails
<1>10. CASE GateCannotRun
  BY <1>10 DEF GateCannotRun
<1>11. CASE SealCollects
  BY <1>11 DEF SealCollects
<1>12. CASE Seal
  BY <1>12 DEF Seal
<1>13. CASE Marker \/ Collect
  BY <1>13 DEF Marker, Collect
<1>14. CASE StageAndScan
  BY <1>14 DEF StageAndScan
<1>15. CASE Audit
  BY <1>15 DEF Audit
<1>16. CASE SeamFails
  BY <1>16 DEF SeamFails
<1>17. CASE Verify
  BY <1>17 DEF Verify
<1>18. CASE Quarantine
  BY <1>18 DEF Quarantine
<1>19. CASE Dispose \/ Resume
  BY <1>19 DEF Dispose, Resume
<1>20. CASE BackgroundWrites
  BY <1>20, Background DEF Late
<1> QED
  BY <1>1, <1>2, <1>3, <1>4, <1>5, <1>6, <1>7, <1>8, <1>9, <1>10, <1>11, <1>12, <1>13, <1>14,
     <1>15, <1>16, <1>17, <1>18, <1>19, <1>20
  DEF Next

(* A quarantine stages all that changed, and only a background command writes behind it. *)
LEMMA StepStagedWhole ==
    ASSUME TypeOK, Next, StagedWhole
    PROVE  StagedWhole'
<1> USE WorktreeAssumption DEF given, trees, settleVars, gateVars, stageVars, isolateVars,
        answers, TypeOK, Tree, StagedWhole, Late, Retry, Keep, FirstStep, AfterSettle, After,
        AfterHygiene, Gates
<1>1. CASE MergeConflicts \/ MergeRefused
  BY <1>1 DEF MergeConflicts, MergeRefused
<1>2. CASE IsolateFails \/ Isolated
  BY <1>2 DEF IsolateFails, Isolated
<1>3. CASE Work \/ WorkFails
  BY <1>3 DEF Work, WorkFails
<1>4. CASE Recast
  BY <1>4 DEF Recast
<1>5. CASE SettleOff \/ SettleBegins
  BY <1>5 DEF SettleOff, SettleBegins
<1>6. CASE SettleWindow \/ SettleCut
  BY <1>6 DEF SettleWindow, SettleCut
<1>7. CASE GateRuns
  BY <1>7 DEF GateRuns
<1>8. CASE GatePasses
  BY <1>8 DEF GatePasses
<1>9. CASE GateFails
  BY <1>9 DEF GateFails
<1>10. CASE GateCannotRun
  BY <1>10 DEF GateCannotRun
<1>11. CASE SealCollects
  BY <1>11 DEF SealCollects
<1>12. CASE Seal
  BY <1>12 DEF Seal
<1>13. CASE Marker \/ Collect
  BY <1>13 DEF Marker, Collect
<1>14. CASE StageAndScan
  BY <1>14 DEF StageAndScan
<1>15. CASE Audit
  BY <1>15 DEF Audit
<1>16. CASE SeamFails
  BY <1>16 DEF SeamFails
<1>17. CASE Verify
  BY <1>17 DEF Verify, Refuse, commitBranch
<1>18. CASE Quarantine
  BY <1>18 DEF Quarantine, changedFiles, Changed, NotIgnored, Tracked, stage, snapshot
<1>19. CASE Dispose \/ Resume
  BY <1>19 DEF Dispose, Resume
<1>20. CASE BackgroundWrites
  BY <1>20, Background
<1> QED
  BY <1>1, <1>2, <1>3, <1>4, <1>5, <1>6, <1>7, <1>8, <1>9, <1>10, <1>11, <1>12, <1>13, <1>14,
     <1>15, <1>16, <1>17, <1>18, <1>19, <1>20
  DEF Next

(* The smoke runs on what was staged, each time it runs.                    *)
LEMMA StepAgree ==
    ASSUME TypeOK, Next, Agree, StagedWhole
    PROVE  Agree'
<1> USE WorktreeAssumption DEF given, trees, settleVars, gateVars, stageVars, isolateVars,
        answers, TypeOK, Tree, Agree, Held, Delivered, Named, Late, Gates, Retry, Keep, FirstStep,
        AfterSettle, After, AfterHygiene
<1>1. CASE MergeConflicts \/ MergeRefused
  BY <1>1 DEF MergeConflicts, MergeRefused
<1>2. CASE IsolateFails \/ Isolated
  BY <1>2 DEF IsolateFails, Isolated
<1>3. CASE Work \/ WorkFails
  BY <1>3 DEF Work, WorkFails
<1>4. CASE Recast
  BY <1>4 DEF Recast
<1>5. CASE SettleOff \/ SettleBegins
  BY <1>5 DEF SettleOff, SettleBegins
<1>6. CASE SettleWindow \/ SettleCut
  BY <1>6 DEF SettleWindow, SettleCut
<1>7. CASE GateRuns
  BY <1>7 DEF GateRuns, recordTree
<1>8. CASE GatePasses
  BY <1>8 DEF GatePasses, GateOver
<1>9. CASE GateFails
  <2>1. /\ \A p \in Named : wt'[p] = record[p]
        /\ wt' # NoTree
    BY <1>9, TreesTyped DEF GateFails, restoreTree
  <2>2. CASE at = "smoke" /\ gate = "first"
    BY <1>9, <2>1, <2>2 DEF GateFails
  <2>3. CASE ~(at = "smoke" /\ gate = "first")
    BY <1>9, <2>3 DEF GateFails, GateOver
  <2> QED
    BY <2>2, <2>3
<1>10. CASE GateCannotRun
  BY <1>10 DEF GateCannotRun, GateOver
<1>11. CASE SealCollects
  BY <1>11 DEF SealCollects
<1>12. CASE Seal
  BY <1>12 DEF Seal
<1>13. CASE Marker \/ Collect
  BY <1>13 DEF Marker, Collect, collectDelivery, partitionDelivery, changedFiles, Changed,
     NotIgnored, Tracked
<1>14. CASE StageAndScan
  <2>1. \A p \in Named : wt[p] = index'[p] \/ wt[p] \in Late
    BY <1>14 DEF StageAndScan, stage
  <2> QED
    BY <1>14, <2>1 DEF StageAndScan
<1>15. CASE Audit
  BY <1>15 DEF Audit
<1>16. CASE SeamFails
  BY <1>16 DEF SeamFails, GateOver
<1>17. CASE Verify
  BY <1>17 DEF Verify, Refuse, commit, commitBranch
<1>18. CASE Quarantine
  BY <1>18 DEF Quarantine
<1>19. CASE Dispose \/ Resume
  BY <1>19 DEF Dispose, Resume
<1>20. CASE BackgroundWrites
  BY <1>20, Background
<1> QED
  BY <1>1, <1>2, <1>3, <1>4, <1>5, <1>6, <1>7, <1>8, <1>9, <1>10, <1>11, <1>12, <1>13, <1>14,
     <1>15, <1>16, <1>17, <1>18, <1>19, <1>20
  DEF Next

(* The scan sees every marker that staging could take.                      *)
LEMMA StepUnmarked ==
    ASSUME TypeOK, Next, Unmarked
    PROVE  Unmarked'
<1> USE WorktreeAssumption DEF given, trees, settleVars, gateVars, stageVars, isolateVars,
        answers, TypeOK, Tree, Unmarked, Marked, Late, Gates, Retry, Keep, FirstStep, AfterSettle,
        After, AfterHygiene
<1>1. CASE MergeConflicts \/ MergeRefused
  BY <1>1 DEF MergeConflicts, MergeRefused
<1>2. CASE IsolateFails \/ Isolated
  BY <1>2 DEF IsolateFails, Isolated
<1>3. CASE Work \/ WorkFails
  BY <1>3 DEF Work, WorkFails
<1>4. CASE Recast
  BY <1>4 DEF Recast
<1>5. CASE SettleOff \/ SettleBegins
  BY <1>5 DEF SettleOff, SettleBegins
<1>6. CASE SettleWindow \/ SettleCut
  BY <1>6 DEF SettleWindow, SettleCut
<1>7. CASE GateRuns
  BY <1>7 DEF GateRuns
<1>8. CASE GatePasses
  BY <1>8 DEF GatePasses
<1>9. CASE GateFails
  BY <1>9 DEF GateFails
<1>10. CASE GateCannotRun
  BY <1>10 DEF GateCannotRun
<1>11. CASE SealCollects
  BY <1>11 DEF SealCollects
<1>12. CASE Seal
  BY <1>12 DEF Seal
<1>13. CASE Marker \/ Collect
  BY <1>13 DEF Marker, Collect, collectDelivery, partitionDelivery, changedFiles, Changed,
     NotIgnored, Tracked, NoMarkers
<1>14. CASE StageAndScan
  BY <1>14 DEF StageAndScan, stage
<1>15. CASE Audit
  BY <1>15 DEF Audit
<1>16. CASE SeamFails
  BY <1>16 DEF SeamFails
<1>17. CASE Verify
  BY <1>17 DEF Verify, Refuse, commit, commitBranch
<1>18. CASE Quarantine
  BY <1>18 DEF Quarantine
<1>19. CASE Dispose \/ Resume
  BY <1>19 DEF Dispose, Resume
<1>20. CASE BackgroundWrites
  BY <1>20, Background DEF NoMarkers, NotIgnored, Tracked
<1> QED
  BY <1>1, <1>2, <1>3, <1>4, <1>5, <1>6, <1>7, <1>8, <1>9, <1>10, <1>11, <1>12, <1>13, <1>14,
     <1>15, <1>16, <1>17, <1>18, <1>19, <1>20
  DEF Next

(* Hygiene sees all that staging adds to HEAD.                              *)
LEMMA StepScanned ==
    ASSUME TypeOK, Next, Scanned
    PROVE  Scanned'
<1> USE WorktreeAssumption DEF given, trees, settleVars, gateVars, stageVars, isolateVars,
        answers, TypeOK, Tree, Scanned, Gates, Retry, Keep, FirstStep, AfterSettle, After,
        AfterHygiene
<1>1. CASE MergeConflicts \/ MergeRefused
  <2>1. \A p \in Path : index'[p] \in {index[p], "marker", "base"}
    BY <1>1 DEF MergeConflicts, MergeRefused, Write
  <2>2. index = head /\ (head' = index' \/ head' = head)
    BY <1>1 DEF MergeConflicts, MergeRefused
  <2>3. at = "isolate" /\ at' = "isolate" /\ (concluded' => head' = index') /\ origin' = origin /\ files' = files
    BY <1>1 DEF MergeConflicts, MergeRefused
  <2>4. published' = published
    BY <1>1 DEF MergeConflicts, MergeRefused
  <2> QED
    BY <1>1, <2>1, <2>2, <2>3, <2>4
<1>2. CASE IsolateFails \/ Isolated
  BY <1>2 DEF IsolateFails, Isolated, Blank
<1>3. CASE Work \/ WorkFails
  BY <1>3 DEF Work, WorkFails
<1>4. CASE Recast
  BY <1>4 DEF Recast
<1>5. CASE SettleOff \/ SettleBegins
  BY <1>5 DEF SettleOff, SettleBegins
<1>6. CASE SettleWindow \/ SettleCut
  BY <1>6 DEF SettleWindow, SettleCut
<1>7. CASE GateRuns
  BY <1>7 DEF GateRuns
<1>8. CASE GatePasses
  BY <1>8 DEF GatePasses
<1>9. CASE GateFails
  BY <1>9 DEF GateFails
<1>10. CASE GateCannotRun
  BY <1>10 DEF GateCannotRun
<1>11. CASE SealCollects
  BY <1>11 DEF SealCollects, collectDelivery, partitionDelivery
<1>12. CASE Seal
  <2>1. \A p \in Scratch : stage(files)[p] = index[p]
    BY DEF stage
  <2>2. CASE index' = stage(files) /\ UNCHANGED head
    BY <1>12, <2>1, <2>2 DEF Seal
  <2>3. CASE Refused(stage(files)) /\ UNCHANGED head
    <3>1. \A p \in Scratch : index'[p] \in {index[p], "hook"}
      BY <2>1, <2>3 DEF Refused, stage
    <3> QED
      BY <1>12, <2>3, <3>1 DEF Seal
  <2>4. CASE ~Refuses(stage(files)) /\ commit(stage(files))
    BY <1>12, <2>1, <2>4 DEF Seal, Refuses, stagedPaths, commit, stage
  <2> QED
    BY <1>12, <2>2, <2>3, <2>4 DEF Seal
<1>13. CASE Marker \/ Collect
  BY <1>13 DEF Marker, Collect, collectDelivery, partitionDelivery, changedFiles, Changed,
     NotIgnored, Tracked
<1>14. CASE StageAndScan
  BY <1>14 DEF StageAndScan, stage, Refuses, stagedPaths
<1>15. CASE Audit
  BY <1>15 DEF Audit
<1>16. CASE SeamFails
  BY <1>16 DEF SeamFails
<1>17. CASE Verify
  BY <1>17 DEF Verify, Refuse, Refused, commit, commitBranch
<1>18. CASE Quarantine
  BY <1>18 DEF Quarantine
<1>19. CASE Dispose \/ Resume
  BY <1>19 DEF Dispose, Resume, Blank
<1>20. CASE BackgroundWrites
  BY <1>20, Background
<1> QED
  BY <1>1, <1>2, <1>3, <1>4, <1>5, <1>6, <1>7, <1>8, <1>9, <1>10, <1>11, <1>12, <1>13, <1>14,
     <1>15, <1>16, <1>17, <1>18, <1>19, <1>20
  DEF Next

-----------------------------------------------------------------------------
(* The invariants hold                                                     *)

IInv == TypeOK /\ JudgedIsStaged /\ Unsoiled /\ StagedWhole /\ Agree /\ Unmarked /\ Scanned

(* A fresh worktree is in the invariant.                                    *)
LEMMA InitInvariant == Init => IInv
<1> SUFFICES ASSUME Init PROVE IInv
  OBVIOUS
<1>1. origin.tree \in Tree /\ \A p \in Path : origin.tree[p] \in {"none", "base"}
  BY WorktreeAssumption DEF Init, Tree, Content
<1>2. TypeOK
  <2>1. /\ node \in Nodes /\ [ignored |-> ignored, quoted |-> quoted] \in Repos
        /\ attempt \in 1..node.maxAttempts /\ run \in 1..MaxRuns
        /\ merged \in 0..MaxMerges /\ windows \in -1..(MaxWindows - 1)
    BY WorktreeAssumption DEF Init
  <2>2. wt \in Tree /\ index \in Tree /\ head \in Tree /\ record \in Tree
    BY <1>1 DEF Init, Blank, Tree, Content
  <2>3. origin \in [tree : Tree, sealed : BOOLEAN]
    BY WorktreeAssumption, <1>1 DEF Init
  <2> QED
    BY <2>1, <2>2, <2>3 DEF Init, TypeOK, Stages
<1>3. JudgedIsStaged /\ StagedWhole /\ Agree /\ Unmarked
  BY DEF Init, JudgedIsStaged, StagedWhole, Agree, Unmarked
<1>4. Unsoiled /\ Scanned
  BY <1>1 DEF Init, Unsoiled, Spotless, Delivered, Scanned, Blank
<1> QED
  BY <1>2, <1>3, <1>4 DEF IInv

(* And no step leaves it.                                                   *)
LEMMA StepInvariant == IInv /\ [Next]_vars => IInv'
<1>1. ASSUME IInv, Next PROVE IInv'
  BY <1>1, StepTyped, StepJudged, StepUnsoiled, StepStagedWhole, StepAgree, StepUnmarked, StepScanned
  DEF IInv
<1>2. ASSUME IInv, UNCHANGED vars PROVE IInv'
  <2> USE <1>2 DEF vars, given, trees, isolateVars, settleVars, gateVars, stageVars, answers
  <2>1. TypeOK'
    BY StepTyped DEF IInv
  <2>2. JudgedIsStaged' /\ StagedWhole' /\ Unsoiled'
    BY DEF IInv, JudgedIsStaged, StagedWhole, Unsoiled, Spotless, Delivered
  <2>3. Agree' /\ Unmarked' /\ Scanned'
    BY DEF IInv, Agree, Held, Delivered, Named, Unmarked, Marked, NoMarkers, NotIgnored, Tracked, Scanned
  <2> QED
    BY <2>1, <2>2, <2>3 DEF IInv
<1> QED
  BY <1>1, <1>2

(* So it holds in every state of every run.                                 *)
LEMMA Invariant == Spec => []IInv
  BY InitInvariant, StepInvariant, PTL DEF Spec

-----------------------------------------------------------------------------
(* Theorems                                                                *)

(* Every variable keeps its shape, whoever writes to the tree.              *)
THEOREM TypeCorrect == Spec => []TypeOK
<1>1. IInv => TypeOK
  BY DEF IInv
<1> QED
  BY <1>1, Invariant, PTL

(* docs/ledger.md, D24: node/<id> names the tree hygiene passed.            *)
THEOREM PublishedIsJudgedHolds == Spec => []PublishedIsJudged
<1>1. IInv => PublishedIsJudged
  BY DEF IInv, JudgedIsStaged, PublishedIsJudged
<1> QED
  BY <1>1, Invariant, PTL

(* And, in every delivered path whose name git status prints plainly, what  *)
(* the smoke ran on.                                                        *)
THEOREM PublishedIsWhatSmokeSawHolds == Spec => []PublishedIsWhatSmokeSaw
<1>1. IInv => PublishedIsWhatSmokeSaw
  BY DEF IInv, Agree, Delivered, Named, PublishedIsWhatSmokeSaw
<1> QED
  BY <1>1, Invariant, PTL

(* No marker is published in a path of a plain name, and nothing hygiene    *)
(* refuses but what was there.                                              *)
THEOREM NothingRefusedIsPublishedHolds == Spec => []NothingRefusedIsPublished
<1>1. IInv => NothingRefusedIsPublished
  BY DEF IInv, Unmarked, Marked, Scanned, NothingRefusedIsPublished
<1> QED
  BY <1>1, Invariant, PTL

(* docs/ledger.md, D32: a failed gate's writes are in no commit.            *)
THEOREM RedGateWritesNeverDeliveredHolds == Spec => []RedGateWritesNeverDelivered
<1>1. IInv => RedGateWritesNeverDelivered
  BY DEF IInv, Unsoiled, Spotless, Delivered, RedGateWritesNeverDelivered
<1> QED
  BY <1>1, Invariant, PTL

(* A tree is disposed of only with what changed in it kept, or the miss     *)
(* journaled: of the paths printed in quotes, what was staged already.      *)
THEOREM KeptHoldsTheWorkHolds == Spec => []KeptHoldsTheWork
<1>1. IInv => KeptHoldsTheWork
  BY DEF IInv, StagedWhole, KeptHoldsTheWork, Changed, NotIgnored, Tracked
<1> QED
  BY <1>1, Invariant, PTL
=============================================================================
