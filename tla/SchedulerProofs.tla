-------------------------- MODULE SchedulerProofs --------------------------
(***************************************************************************)
(* Theorems about Scheduler, for every plan, cap, scope and set of pins.   *)
(*                                                                         *)
(* The safety properties are not inductive: they hold because a node has a *)
(* fate only once its promise is past the point that gives it one (Fated), *)
(* because what a launch was decided on stays true until it happens        *)
(* (Decided: the closed set only grows while the marker is being read),    *)
(* and because a tree is disposed of before its node closes (TreeGone).    *)
(***************************************************************************)
EXTENDS Scheduler, TLAPS

-----------------------------------------------------------------------------
(* The inductive invariant                                                 *)

(* The promise of n has begun and has not yet come to a fate.               *)
Running(n) ==
    \/ at[n] \in {"isolating", "working", "commit", "verdict", "emit", "rejected", "close"}
    \/ at[n] \in {"dispose", "receipt"} /\ outcome[n].status = "done"

(* No fate before its time, and none for a node that was never launched.    *)
Fated ==
    \A n \in Node :
        /\ Running(n) => n \notin Settled
        /\ at[n] = "idle" => n \notin failed \cup blocked \cup aborted \cup partial

(* What settle knows of the outcome at each of its awaits.                  *)
OutcomeKnown ==
    \A n \in Node :
        /\ at[n] \in {"idle", "isolating", "working"} => outcome[n] = NoOutcome
        /\ at[n] \in {"commit", "verdict", "emit", "emitBad", "keep"} =>
              outcome[n].decision = "none"
        /\ at[n] \in {"commit", "emit", "rejected", "close"} => outcome[n].status = "done"
        /\ at[n] \in {"emitBad", "keep"} => outcome[n].status # "done"
        /\ at[n] \in {"verdict", "emitBad", "keep", "dispose", "receipt"} =>
              outcome[n].status \in Statuses
        /\ outcome[n].decision # "none" => outcome[n].status = "done"

(* The launch being decided is of a node that is still ready.               *)
Decided ==
    loop \in {"asking", "launching"} =>
        /\ cand \in Node
        /\ at[cand] = "idle"
        /\ cand \notin closed
        /\ Needs[cand] \subseteq closed
        /\ Predecessors(cand) \subseteq closed

(* What a promise stands on.                                                *)
Grounded ==
    \A n \in Node : at[n] # "idle" => Needs[n] \subseteq closed /\ Predecessors(n) \subseteq closed

(* A closed node's tree is gone, and no tree exists before it is made.      *)
TreeGone ==
    \A n \in Node :
        /\ n \in closed => tree[n] # "live"
        /\ at[n] \in {"idle", "isolating"} => tree[n] = "none"
        /\ at[n] \in {"receipt", "rejected", "reemit", "close", "settled"} => tree[n] # "live"

(* The branch is published before the ledger is told.                       *)
Published ==
    \A n \in Node :
        /\ at[n] = "verdict" /\ outcome[n].status = "done" => n \in published
        /\ at[n] = "emit" => n \in published
        /\ n \in toldDone => n \in published

(* A started node's content is frozen at what it was launched with.         *)
Frozen ==
    \A n \in Node : launched[n] # -1 => n \in started /\ content[n] = launched[n]

(* The one launch a drain may come too late for has not been made yet.      *)
Late == late <= 1 /\ (loop = "launching" /\ stop => late = 0)

IInv ==
    /\ TypeOK
    /\ Fated /\ OneFate
    /\ OutcomeKnown
    /\ Decided /\ Grounded
    /\ TreeGone
    /\ Published
    /\ Frozen
    /\ Late

-----------------------------------------------------------------------------
(* Type correctness                                                        *)

(* The shape of every variable holds in every state of every run.           *)
LEMMA InitTyped == Init => TypeOK
<1> SUFFICES ASSUME Init PROVE TypeOK
  OBVIOUS
<1>1. scope \subseteq Node
  BY DEF Init, RunScope
<1>2. NoOutcome \in Outcome
  BY DEF NoOutcome, Outcome, Work
<1>3. /\ closed \subseteq Node
      /\ at \in [Node -> Stages]
      /\ loop \in LoopStages
      /\ cap \in Caps
  BY DEF Init, Stages, LoopStages
<1>4. /\ cand \in Node \cup {NoNode}
      /\ outcome \in [Node -> Outcome]
      /\ tree \in [Node -> {"none", "live", "disposed"}]
      /\ kept \in [Node -> {"none", "snapshot", "missed"}]
      /\ content \in [Node -> Nat] /\ launched \in [Node -> Int]
  BY <1>2 DEF Init
<1>5. /\ watched = {} /\ failed = {} /\ blocked = {} /\ aborted = {} /\ partial = {}
      /\ published = {} /\ toldDone = {} /\ started = closed
      /\ edits = 0 /\ late = 0 /\ stop = FALSE /\ signal = FALSE /\ threw = FALSE
  BY DEF Init
<1> QED
  BY <1>1, <1>3, <1>4, <1>5 DEF TypeOK

(* The scheduler loop's own steps keep every variable in its range.          *)
LEMMA LoopTyped ==
    ASSUME TypeOK, Decided, LoopStep
    PROVE  TypeOK'
<1> USE SchedulerAssumption
    DEF TypeOK, LoopStages, Stages, fates, planVars, nodeVars, operatorVars
<1>1. CASE NoReload
  BY <1>1 DEF NoReload
<1>2. CASE Reload
  BY <1>2 DEF Reload
<1>3. CASE Choose
  BY <1>3 DEF Choose, FirstReady, Ready
<1>4. CASE NothingToLaunch
  BY <1>4 DEF NothingToLaunch, Park, Inflight
<1>5. CASE AskStop
  BY <1>5 DEF AskStop, Park, Inflight
<1>6. CASE Launch
  BY <1>6 DEF Launch, Decided
<1>7. CASE Wake
  BY <1>7 DEF Wake
<1>8. CASE FinalStop
  BY <1>8 DEF FinalStop
<1>9. CASE ReleaseLock
  BY <1>9 DEF ReleaseLock
<1>10. CASE LoopThrows
  BY <1>10 DEF LoopThrows
<1> QED
  BY <1>1, <1>2, <1>3, <1>4, <1>5, <1>6, <1>7, <1>8, <1>9, <1>10 DEF LoopStep

(* So does every await of runOne and settle.                                *)
LEMMA NodeTyped ==
    ASSUME TypeOK, NEW n \in Node, NodeStep(n)
    PROVE  TypeOK'
<1> USE DEF TypeOK, Goto, Stages, fates, loopVars, planVars, operatorVars
<1>1. CASE Isolate(n)
  BY <1>1 DEF Isolate
<1>2. CASE Return(n)
  <2>1. PICK s \in Statuses, w \in Work :
            /\ outcome' = [outcome EXCEPT ![n].status = s, ![n].work = w]
            /\ Goto(n, IF s = "done" THEN "commit" ELSE "verdict")
    BY <1>2 DEF Return
  <2>2. [outcome[n] EXCEPT !.status = s, !.work = w] \in Outcome
    BY DEF Outcome
  <2>3. outcome' \in [Node -> Outcome]
    BY <2>1, <2>2
  <2> QED
    BY <1>2, <2>1, <2>3 DEF Return
<1>3. CASE Commit(n)
  <2>1. [outcome[n] EXCEPT !.status = "failed"] \in Outcome
    BY DEF Outcome, Statuses
  <2>2. outcome' \in [Node -> Outcome]
    BY <1>3, <2>1 DEF Commit
  <2> QED
    BY <1>3, <2>2 DEF Commit
<1>4. CASE RecordVerdict(n)
  BY <1>4 DEF RecordVerdict
<1>5. CASE EmitNotDone(n)
  BY <1>5 DEF EmitNotDone
<1>6. CASE Quarantine(n)
  BY <1>6 DEF Quarantine
<1>7. CASE EmitDone(n)
  <2>1. \A d \in {"closed", "declined", "rejected"} :
            [outcome[n] EXCEPT !.decision = d] \in Outcome
    BY DEF Outcome
  <2>2. outcome' \in [Node -> Outcome]
    BY <1>7, <2>1 DEF EmitDone
  <2> QED
    BY <1>7, <2>2 DEF EmitDone
<1>8. CASE Dispose(n)
  BY <1>8 DEF Dispose
<1>9. CASE FailRejected(n)
  BY <1>9 DEF FailRejected
<1>10. CASE EmitFailed(n)
  BY <1>10 DEF EmitFailed
<1>11. CASE WriteReceipt(n)
  BY <1>11 DEF WriteReceipt
<1>12. CASE Close(n)
  BY <1>12 DEF Close
<1>13. CASE Leave(n)
  BY <1>13 DEF Leave, Outcome, NoOutcome, Work
<1>14. CASE SettleThrows(n)
  BY <1>14 DEF SettleThrows, LoopStages, Outcome, NoOutcome, Work
<1> QED
  BY <1>1, <1>2, <1>3, <1>4, <1>5, <1>6, <1>7, <1>8, <1>9, <1>10, <1>11, <1>12, <1>13, <1>14
  DEF NodeStep

(* So do the stop marker and the interrupt.                                 *)
LEMMA OperatorTyped ==
    ASSUME TypeOK, RequestStop \/ Interrupt \/ UNCHANGED vars
    PROVE  TypeOK'
<1> USE DEF TypeOK, fates, planVars, nodeVars, operatorVars
<1>1. CASE RequestStop
  BY <1>1 DEF RequestStop
<1>2. CASE Interrupt
  BY <1>2 DEF Interrupt
<1>3. CASE UNCHANGED vars
  BY <1>3 DEF vars
<1> QED
  BY <1>1, <1>2, <1>3

(* No step of the run takes a variable out of its range.                    *)
LEMMA StepTyped == IInv /\ [Next]_vars => TypeOK'
  BY LoopTyped, NodeTyped, OperatorTyped DEF Next, IInv

-----------------------------------------------------------------------------
(* What a step leaves alone                                                *)

(* A node's step is its own: nothing of another node moves, the closed set  *)
(* only grows, and the plan, the pins and the decision in progress stand.   *)
OthersStand(n) ==
    \A m \in Node \ {n} :
        /\ at'[m] = at[m] /\ outcome'[m] = outcome[m] /\ tree'[m] = tree[m]
        /\ kept'[m] = kept[m]
        /\ m \in closed' <=> m \in closed
        /\ m \in failed' <=> m \in failed
        /\ m \in blocked' <=> m \in blocked
        /\ m \in aborted' <=> m \in aborted
        /\ m \in partial' <=> m \in partial
        /\ m \in published' <=> m \in published
        /\ m \in toldDone' <=> m \in toldDone

(* What runOne and settle do to one node they do to no other.               *)
LEMMA NodeLeavesOthers ==
    ASSUME TypeOK, NEW n \in Node, NodeStep(n)
    PROVE  OthersStand(n)
<1> USE DEF OthersStand, TypeOK, Goto, fates
<1>1. CASE Isolate(n)
  BY <1>1 DEF Isolate
<1>2. CASE Return(n)
  BY <1>2 DEF Return
<1>3. CASE Commit(n)
  BY <1>3 DEF Commit
<1>4. CASE RecordVerdict(n)
  BY <1>4 DEF RecordVerdict
<1>5. CASE EmitNotDone(n)
  BY <1>5 DEF EmitNotDone
<1>6. CASE Quarantine(n)
  BY <1>6 DEF Quarantine
<1>7. CASE EmitDone(n)
  BY <1>7 DEF EmitDone
<1>8. CASE Dispose(n)
  BY <1>8 DEF Dispose
<1>9. CASE FailRejected(n)
  BY <1>9 DEF FailRejected
<1>10. CASE EmitFailed(n)
  BY <1>10 DEF EmitFailed
<1>11. CASE WriteReceipt(n)
  BY <1>11 DEF WriteReceipt
<1>12. CASE Close(n)
  BY <1>12 DEF Close
<1>13. CASE Leave(n)
  BY <1>13 DEF Leave
<1>14. CASE SettleThrows(n)
  BY <1>14 DEF SettleThrows
<1> QED
  BY <1>1, <1>2, <1>3, <1>4, <1>5, <1>6, <1>7, <1>8, <1>9, <1>10, <1>11, <1>12, <1>13, <1>14
  DEF NodeStep

(* A node's promise moves the loop only by rejecting, and takes nothing out *)
(* of the closed set.                                                      *)
LEMMA NodeLeavesLoop ==
    ASSUME TypeOK, NEW n \in Node, NodeStep(n)
    PROVE  /\ at[n] # "idle" /\ at'[n] # "idle"
           /\ closed \subseteq closed'
           /\ loop' \in {loop, "thrown", "crashed"}
           /\ UNCHANGED <<cand, watched, scope, cap, started, content, edits, launched, stop,
                           signal, late, threw>>
<1> USE DEF TypeOK, Goto, fates, loopVars, planVars, operatorVars
<1>1. CASE Isolate(n)
  BY <1>1 DEF Isolate
<1>2. CASE Return(n)
  BY <1>2 DEF Return
<1>3. CASE Commit(n)
  BY <1>3 DEF Commit
<1>4. CASE RecordVerdict(n)
  BY <1>4 DEF RecordVerdict
<1>5. CASE EmitNotDone(n)
  BY <1>5 DEF EmitNotDone
<1>6. CASE Quarantine(n)
  BY <1>6 DEF Quarantine
<1>7. CASE EmitDone(n)
  BY <1>7 DEF EmitDone
<1>8. CASE Dispose(n)
  BY <1>8 DEF Dispose
<1>9. CASE FailRejected(n)
  BY <1>9 DEF FailRejected
<1>10. CASE EmitFailed(n)
  BY <1>10 DEF EmitFailed
<1>11. CASE WriteReceipt(n)
  BY <1>11 DEF WriteReceipt
<1>12. CASE Close(n)
  BY <1>12 DEF Close
<1>13. CASE Leave(n)
  BY <1>13 DEF Leave
<1>14. CASE SettleThrows(n)
  BY <1>14 DEF SettleThrows
<1> QED
  BY <1>1, <1>2, <1>3, <1>4, <1>5, <1>6, <1>7, <1>8, <1>9, <1>10, <1>11, <1>12, <1>13, <1>14
  DEF NodeStep

(* The loop touches a node once: it launches the one it had chosen.          *)
LEMMA LoopLeavesNodes ==
    ASSUME IInv, LoopStep
    PROVE  /\ UNCHANGED <<closed, failed, blocked, aborted, partial, outcome, tree, published,
                           toldDone, kept, scope>>
           /\ \/ UNCHANGED at
              \/ /\ loop = "launching" /\ loop' = "decide"
                 /\ at' = [at EXCEPT ![cand] = "isolating"]
<1> USE DEF fates, nodeVars
<1>1. CASE NoReload \/ Reload
  BY <1>1 DEF NoReload, Reload
<1>2. CASE Choose \/ NothingToLaunch \/ AskStop
  BY <1>2 DEF Choose, NothingToLaunch, AskStop
<1>3. CASE Launch
  BY <1>3 DEF Launch
<1>4. CASE Wake \/ FinalStop \/ LoopThrows \/ ReleaseLock
  BY <1>4 DEF Wake, FinalStop, LoopThrows, ReleaseLock
<1> QED
  BY <1>1, <1>2, <1>3, <1>4 DEF LoopStep

(* A stop or an interrupt changes no node, no plan and no place of the loop. *)
LEMMA OperatorLeavesAll ==
    ASSUME RequestStop \/ Interrupt \/ UNCHANGED vars
    PROVE  UNCHANGED <<loop, cand, closed, failed, blocked, aborted, partial, at, outcome, tree,
                       published, toldDone, kept, cap, started, content, launched, scope,
                       threw>>
  BY DEF RequestStop, Interrupt, vars, fates, nodeVars, planVars

-----------------------------------------------------------------------------
(* Each part of the invariant is kept by every step                        *)

(* The loop chooses only ready nodes, and the answer of the marker's stat    *)
(* does not change the choice.                                              *)
LEMMA DecidedLoop ==
    ASSUME IInv, LoopStep
    PROVE  Decided'
<1> USE SchedulerAssumption DEF IInv, TypeOK, Decided, fates, nodeVars, planVars
<1>1. CASE NoReload \/ Reload \/ Wake \/ FinalStop \/ LoopThrows \/ ReleaseLock \/ Launch
  BY <1>1 DEF NoReload, Reload, Wake, FinalStop, LoopThrows, ReleaseLock, Launch
<1>2. CASE Choose
  <2>1. cand' \in Ready /\ loop' = "asking"
    BY <1>2 DEF Choose, FirstReady
  <2>2. UNCHANGED <<at, closed>>
    BY <1>2 DEF Choose
  <2> QED
    BY <2>1, <2>2 DEF Ready, Settled, Predecessors
<1>3. CASE NothingToLaunch
  BY <1>3 DEF NothingToLaunch, Park
<1>4. CASE AskStop
  BY <1>4 DEF AskStop, Park, Predecessors
<1> QED
  BY <1>1, <1>2, <1>3, <1>4 DEF LoopStep

(* What a launch was decided on stays true across the stat it awaits.        *)
LEMMA DecidedKept == IInv /\ [Next]_vars => Decided'
<1> SUFFICES ASSUME IInv, [Next]_vars PROVE Decided'
  OBVIOUS
<1>1. CASE LoopStep
  BY <1>1, DecidedLoop
<1>2. ASSUME NEW n \in Node, NodeStep(n) PROVE Decided'
  <2>1. OthersStand(n)
    BY <1>2, NodeLeavesOthers DEF IInv
  <2> QED
    BY <1>2, <2>1, NodeLeavesLoop DEF IInv, Decided, OthersStand, Predecessors
<1>3. CASE RequestStop \/ Interrupt \/ UNCHANGED vars
  BY <1>3, OperatorLeavesAll DEF IInv, Decided, Predecessors
<1> QED
  BY <1>1, <1>2, <1>3 DEF Next

(* A promise never loses a closed dependency or predecessor under it.        *)
LEMMA GroundedKept == IInv /\ [Next]_vars => Grounded'
<1> SUFFICES ASSUME IInv, [Next]_vars PROVE Grounded'
  OBVIOUS
<1>1. CASE LoopStep
  BY <1>1, LoopLeavesNodes DEF IInv, TypeOK, Decided, Grounded, Predecessors
<1>2. ASSUME NEW n \in Node, NodeStep(n) PROVE Grounded'
  <2>1. OthersStand(n)
    BY <1>2, NodeLeavesOthers DEF IInv
  <2> QED
    BY <1>2, <2>1, NodeLeavesLoop DEF IInv, Grounded, OthersStand, Predecessors
<1>3. CASE RequestStop \/ Interrupt \/ UNCHANGED vars
  BY <1>3, OperatorLeavesAll DEF IInv, Grounded, Predecessors
<1> QED
  BY <1>1, <1>2, <1>3 DEF Next

(* A step of settle finds and leaves the outcome its place implies.          *)
LEMMA OutcomeNode ==
    ASSUME IInv, NEW n \in Node, NodeStep(n)
    PROVE  OutcomeKnown'
<1>1. OthersStand(n)
  BY NodeLeavesOthers DEF IInv
<1> USE <1>1 DEF IInv, TypeOK, OutcomeKnown, OthersStand, Goto, NoOutcome, Outcome, Statuses
<1>2. CASE Isolate(n)
  BY <1>2 DEF Isolate
<1>3. CASE Return(n)
  BY <1>3 DEF Return
<1>4. CASE Commit(n)
  BY <1>4 DEF Commit
<1>5. CASE RecordVerdict(n)
  BY <1>5 DEF RecordVerdict
<1>6. CASE EmitNotDone(n)
  BY <1>6 DEF EmitNotDone
<1>7. CASE Quarantine(n)
  BY <1>7 DEF Quarantine
<1>8. CASE EmitDone(n)
  BY <1>8 DEF EmitDone
<1>9. CASE Dispose(n)
  BY <1>9 DEF Dispose
<1>10. CASE FailRejected(n)
  BY <1>10 DEF FailRejected
<1>11. CASE EmitFailed(n)
  BY <1>11 DEF EmitFailed
<1>12. CASE WriteReceipt(n)
  BY <1>12 DEF WriteReceipt
<1>13. CASE Close(n)
  BY <1>13 DEF Close
<1>14. CASE Leave(n)
  BY <1>14 DEF Leave
<1>15. CASE SettleThrows(n)
  BY <1>15 DEF SettleThrows
<1> QED
  BY <1>2, <1>3, <1>4, <1>5, <1>6, <1>7, <1>8, <1>9, <1>10, <1>11, <1>12, <1>13, <1>14, <1>15 DEF NodeStep

(* No step contradicts what settle knows of an outcome.                      *)
LEMMA OutcomeKept == IInv /\ [Next]_vars => OutcomeKnown'
<1> SUFFICES ASSUME IInv, [Next]_vars PROVE OutcomeKnown'
  OBVIOUS
<1>1. CASE LoopStep
  BY <1>1, LoopLeavesNodes DEF IInv, TypeOK, Decided, OutcomeKnown
<1>2. CASE RequestStop \/ Interrupt \/ UNCHANGED vars
  BY <1>2, OperatorLeavesAll DEF IInv, OutcomeKnown
<1> QED
  BY <1>1, <1>2, OutcomeNode DEF Next

(* A step of settle gives a fate only to a node that has none.               *)
LEMMA FatedNode ==
    ASSUME IInv, NEW n \in Node, NodeStep(n)
    PROVE  Fated' /\ OneFate'
<1>1. OthersStand(n)
  BY NodeLeavesOthers DEF IInv
<1> USE <1>1 DEF IInv, TypeOK, Fated, OneFate, Running, Settled, OutcomeKnown, OthersStand, Goto,
                fates
<1>2. CASE Isolate(n)
  BY <1>2 DEF Isolate
<1>3. CASE Return(n)
  BY <1>3 DEF Return
<1>4. CASE Commit(n)
  BY <1>4 DEF Commit
<1>5. CASE RecordVerdict(n)
  BY <1>5 DEF RecordVerdict
<1>6. CASE EmitNotDone(n)
  BY <1>6 DEF EmitNotDone
<1>7. CASE Quarantine(n)
  BY <1>7 DEF Quarantine
<1>8. CASE EmitDone(n)
  BY <1>8 DEF EmitDone
<1>9. CASE Dispose(n)
  BY <1>9 DEF Dispose
<1>10. CASE FailRejected(n)
  BY <1>10 DEF FailRejected
<1>11. CASE EmitFailed(n)
  BY <1>11 DEF EmitFailed
<1>12. CASE WriteReceipt(n)
  BY <1>12 DEF WriteReceipt
<1>13. CASE Close(n)
  BY <1>13 DEF Close
<1>14. CASE Leave(n)
  BY <1>14 DEF Leave
<1>15. CASE SettleThrows(n)
  BY <1>15 DEF SettleThrows
<1> QED
  BY <1>2, <1>3, <1>4, <1>5, <1>6, <1>7, <1>8, <1>9, <1>10, <1>11, <1>12, <1>13, <1>14, <1>15 DEF NodeStep

(* No step gives a node a second fate, or one before its time.               *)
LEMMA FatedKept == IInv /\ [Next]_vars => Fated' /\ OneFate'
<1> SUFFICES ASSUME IInv, [Next]_vars PROVE Fated' /\ OneFate'
  OBVIOUS
<1>1. CASE LoopStep
  BY <1>1, LoopLeavesNodes DEF IInv, TypeOK, Decided, Fated, OneFate, Running, Settled
<1>2. CASE RequestStop \/ Interrupt \/ UNCHANGED vars
  BY <1>2, OperatorLeavesAll DEF IInv, Fated, OneFate, Running, Settled
<1> QED
  BY <1>1, <1>2, FatedNode DEF Next

(* A step of settle closes a node only after its tree was disposed of.       *)
LEMMA TreeNode ==
    ASSUME IInv, NEW n \in Node, NodeStep(n)
    PROVE  TreeGone'
<1>1. OthersStand(n)
  BY NodeLeavesOthers DEF IInv
<1> USE <1>1 DEF IInv, TypeOK, TreeGone, Fated, Running, Settled, OthersStand, Goto, fates
<1>2. CASE Isolate(n)
  BY <1>2 DEF Isolate
<1>3. CASE Return(n)
  BY <1>3 DEF Return
<1>4. CASE Commit(n)
  BY <1>4 DEF Commit
<1>5. CASE RecordVerdict(n)
  BY <1>5 DEF RecordVerdict
<1>6. CASE EmitNotDone(n)
  BY <1>6 DEF EmitNotDone
<1>7. CASE Quarantine(n)
  BY <1>7 DEF Quarantine
<1>8. CASE EmitDone(n)
  BY <1>8 DEF EmitDone
<1>9. CASE Dispose(n)
  BY <1>9 DEF Dispose
<1>10. CASE FailRejected(n)
  BY <1>10 DEF FailRejected
<1>11. CASE EmitFailed(n)
  BY <1>11 DEF EmitFailed
<1>12. CASE WriteReceipt(n)
  BY <1>12 DEF WriteReceipt
<1>13. CASE Close(n)
  BY <1>13 DEF Close
<1>14. CASE Leave(n)
  BY <1>14 DEF Leave
<1>15. CASE SettleThrows(n)
  BY <1>15 DEF SettleThrows
<1> QED
  BY <1>2, <1>3, <1>4, <1>5, <1>6, <1>7, <1>8, <1>9, <1>10, <1>11, <1>12, <1>13, <1>14, <1>15 DEF NodeStep

(* No step leaves a closed node with a live tree.                            *)
LEMMA TreeKept == IInv /\ [Next]_vars => TreeGone'
<1> SUFFICES ASSUME IInv, [Next]_vars PROVE TreeGone'
  OBVIOUS
<1>1. CASE LoopStep
  BY <1>1, LoopLeavesNodes DEF IInv, TypeOK, Decided, TreeGone
<1>2. CASE RequestStop \/ Interrupt \/ UNCHANGED vars
  BY <1>2, OperatorLeavesAll DEF IInv, TreeGone
<1> QED
  BY <1>1, <1>2, TreeNode DEF Next

(* A step of settle tells the ledger done only of a branch it published.     *)
LEMMA PublishedNode ==
    ASSUME IInv, NEW n \in Node, NodeStep(n)
    PROVE  Published'
<1>1. OthersStand(n)
  BY NodeLeavesOthers DEF IInv
<1> USE <1>1 DEF IInv, TypeOK, Published, OutcomeKnown, NoOutcome, OthersStand, Goto
<1>2. CASE Isolate(n)
  BY <1>2 DEF Isolate
<1>3. CASE Return(n)
  BY <1>3 DEF Return
<1>4. CASE Commit(n)
  <2>1. CASE outcome' = [outcome EXCEPT ![n].status = "failed"] /\ UNCHANGED published
    <3>1. outcome'[n].status = "failed" /\ at'[n] = "verdict" /\ UNCHANGED toldDone
      BY <1>4, <2>1 DEF Commit
    <3> QED
      BY <1>4, <2>1, <3>1 DEF Commit
  <2>2. CASE published' = published \cup {n} /\ UNCHANGED outcome
    BY <1>4, <2>2 DEF Commit
  <2> QED
    BY <1>4, <2>1, <2>2 DEF Commit
<1>5. CASE RecordVerdict(n)
  BY <1>5 DEF RecordVerdict
<1>6. CASE EmitNotDone(n)
  BY <1>6 DEF EmitNotDone
<1>7. CASE Quarantine(n)
  BY <1>7 DEF Quarantine
<1>8. CASE EmitDone(n)
  BY <1>8 DEF EmitDone
<1>9. CASE Dispose(n)
  BY <1>9 DEF Dispose
<1>10. CASE FailRejected(n)
  BY <1>10 DEF FailRejected
<1>11. CASE EmitFailed(n)
  BY <1>11 DEF EmitFailed
<1>12. CASE WriteReceipt(n)
  BY <1>12 DEF WriteReceipt
<1>13. CASE Close(n)
  BY <1>13 DEF Close
<1>14. CASE Leave(n)
  BY <1>14 DEF Leave
<1>15. CASE SettleThrows(n)
  BY <1>15 DEF SettleThrows
<1> QED
  BY <1>2, <1>3, <1>4, <1>5, <1>6, <1>7, <1>8, <1>9, <1>10, <1>11, <1>12, <1>13, <1>14, <1>15 DEF NodeStep

(* No step tells the ledger of an unpublished branch.                        *)
LEMMA PublishedKept == IInv /\ [Next]_vars => Published'
<1> SUFFICES ASSUME IInv, [Next]_vars PROVE Published'
  OBVIOUS
<1>1. CASE LoopStep
  BY <1>1, LoopLeavesNodes DEF IInv, TypeOK, Decided, Published
<1>2. CASE RequestStop \/ Interrupt \/ UNCHANGED vars
  BY <1>2, OperatorLeavesAll DEF IInv, Published
<1> QED
  BY <1>1, <1>2, PublishedNode DEF Next

(* No reload changes the content of a launched node.                         *)
LEMMA FrozenKept == IInv /\ [Next]_vars => Frozen'
<1> SUFFICES ASSUME IInv, [Next]_vars PROVE Frozen'
  OBVIOUS
<1> USE DEF IInv, TypeOK, Frozen
<1>1. CASE LoopStep
  <2> USE DEF planVars
  <2>1. CASE \/ NoReload \/ Choose \/ NothingToLaunch \/ AskStop
             \/ Wake \/ FinalStop \/ LoopThrows \/ ReleaseLock
    BY <2>1 DEF NoReload, Choose, NothingToLaunch, AskStop, Wake, FinalStop, LoopThrows,
                ReleaseLock
  <2>2. CASE Reload
    BY <2>2 DEF Reload
  <2>3. CASE Launch
    BY <2>3 DEF Launch, Decided
  <2> QED
    BY <1>1, <2>1, <2>2, <2>3 DEF LoopStep
<1>2. ASSUME NEW n \in Node, NodeStep(n) PROVE Frozen'
  BY <1>2, NodeLeavesLoop
<1>3. CASE RequestStop \/ Interrupt \/ UNCHANGED vars
  BY <1>3, OperatorLeavesAll
<1> QED
  BY <1>1, <1>2, <1>3 DEF Next

(* A second launch after a drain would have to pass the marker's stat.        *)
LEMMA LateKept == IInv /\ [Next]_vars => Late'
<1> SUFFICES ASSUME IInv, [Next]_vars PROVE Late'
  OBVIOUS
<1> USE DEF IInv, TypeOK, Late
<1>1. CASE LoopStep
  <2> USE DEF operatorVars
  <2>1. CASE NoReload \/ Reload \/ Choose \/ Wake \/ FinalStop \/ LoopThrows \/ ReleaseLock
    BY <2>1 DEF NoReload, Reload, Choose, Wake, FinalStop, LoopThrows, ReleaseLock
  <2>2. CASE NothingToLaunch \/ AskStop
    BY <2>2 DEF NothingToLaunch, AskStop, Park
  <2>3. CASE Launch
    BY <2>3 DEF Launch
  <2> QED
    BY <1>1, <2>1, <2>2, <2>3 DEF LoopStep
<1>2. ASSUME NEW n \in Node, NodeStep(n) PROVE Late'
  BY <1>2, NodeLeavesLoop
<1>3. CASE RequestStop
  BY <1>3 DEF RequestStop
<1>4. CASE Interrupt \/ UNCHANGED vars
  BY <1>4 DEF Interrupt, vars, operatorVars
<1> QED
  BY <1>1, <1>2, <1>3, <1>4 DEF Next

(* A run starts in the invariant.                                            *)
LEMMA InitInv == Init => IInv
<1> SUFFICES ASSUME Init PROVE IInv
  OBVIOUS
<1>1. TypeOK
  BY InitTyped
<1>2. Fated /\ OneFate /\ Decided /\ Grounded /\ Published /\ Frozen
  BY SchedulerAssumption
  DEF Init, Fated, OneFate, Running, Decided, Grounded, Published, Frozen
<1>3. OutcomeKnown
  BY DEF Init, OutcomeKnown, NoOutcome
<1>4. TreeGone /\ Late
  BY DEF Init, TreeGone, Late
<1> QED
  BY <1>1, <1>2, <1>3, <1>4 DEF IInv

(* The invariant holds in every state of every run.                          *)
THEOREM Invariant == Spec => []IInv
<1>1. IInv /\ [Next]_vars => IInv'
  BY StepTyped, DecidedKept, GroundedKept, OutcomeKept, FatedKept, TreeKept, PublishedKept,
     FrozenKept, LateKept
  DEF IInv
<1> QED
  BY InitInv, <1>1, PTL DEF Spec

-----------------------------------------------------------------------------
(* The safety properties of a run                                          *)

(* Every variable keeps its shape, in every run of every plan.              *)
THEOREM TypeCorrect == Spec => []TypeOK
<1>1. IInv => TypeOK
  BY DEF IInv
<1> QED
  BY <1>1, Invariant, PTL

(* No node is ever in two of the summary's lists.                           *)
THEOREM OneFateHolds == Spec => []OneFate
<1>1. IInv => OneFate
  BY DEF IInv
<1> QED
  BY <1>1, Invariant, PTL

(* A node's promise stands on dependencies that are closed and whose trees  *)
(* are gone, for any graph, cap and interleaving of settles.                *)
THEOREM DependentsNeverOverlapHolds == Spec => []DependentsNeverOverlap
<1>1. IInv => DependentsNeverOverlap
  BY SchedulerAssumption DEF IInv, Grounded, TreeGone, DependentsNeverOverlap
<1> QED
  BY <1>1, Invariant, PTL

(* A rebuild group is rebuilt in plan order, whatever fails or rejects.     *)
THEOREM GroupInPlanOrderHolds == Spec => []GroupInPlanOrder
<1>1. IInv => GroupInPlanOrder
  BY DEF IInv, Grounded, GroupInPlanOrder
<1> QED
  BY <1>1, Invariant, PTL

(* The ledger is told done only of a published branch.                      *)
THEOREM CommitBeforeEmitHolds == Spec => []CommitBeforeEmit
<1>1. IInv => CommitBeforeEmit
  BY DEF IInv, TypeOK, Published, CommitBeforeEmit
<1> QED
  BY <1>1, Invariant, PTL

(* A plan edited while it runs never changes a node that was launched.      *)
THEOREM StartedKeepsPlanHolds == Spec => []StartedKeepsPlan
<1>1. IInv => StartedKeepsPlan
  BY DEF IInv, Frozen, StartedKeepsPlan
<1> QED
  BY <1>1, Invariant, PTL

(* A drain comes too late for one launch at most.                           *)
THEOREM AtMostOneLateLaunchHolds == Spec => []AtMostOneLateLaunch
<1>1. IInv => AtMostOneLateLaunch
  BY DEF IInv, Late, AtMostOneLateLaunch
<1> QED
  BY <1>1, Invariant, PTL
=============================================================================
