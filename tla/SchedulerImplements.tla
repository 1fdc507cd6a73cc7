------------------------ MODULE SchedulerImplements ------------------------
(***************************************************************************)
(* What Scheduler promises beyond its inductive invariant, for every plan: *)
(* no work is lost with its tree, the cap holds at every launch, the lock  *)
(* outlives every node of a run in which nothing was rejected, and the     *)
(* scheduler implements DagRun.                                            *)
(***************************************************************************)
EXTENDS SchedulerProofs, FiniteSetTheorems, WellFoundedInduction

-----------------------------------------------------------------------------
(* Work is kept                                                            *)

(* A tree is disposed of near the end of settle, and by then any work that  *)
(* it held is in a branch or in the journal.                                *)
Saved ==
    \A n \in Node :
        /\ tree[n] = "disposed" =>
              at[n] \in {"receipt", "rejected", "reemit", "close", "settled", "out", "lost"}
        /\ tree[n] = "none" => outcome[n].work = "none"
        /\ /\ at[n] \in {"dispose", "receipt", "rejected", "reemit", "close", "settled", "out",
                        "lost"}
           /\ outcome[n].work = "changed"
           => n \in published \/ kept[n] # "none"

(* A step of settle disposes of no tree before its work is saved.           *)
LEMMA SavedNode ==
    ASSUME IInv, Saved, NEW n \in Node, NodeStep(n)
    PROVE  Saved'
<1>1. OthersStand(n)
  BY NodeLeavesOthers DEF IInv
<1> USE <1>1 DEF IInv, TypeOK, Saved, TreeGone, Published, OutcomeKnown, NoOutcome, Outcome, Work,
                OthersStand, Goto
<1>2. CASE Isolate(n)
  BY <1>2 DEF Isolate
<1>3. CASE Return(n)
  BY <1>3 DEF Return
<1>4. CASE Commit(n)
  BY <1>4 DEF Commit
<1>5. CASE RecordVerdict(n)
  BY <1>5 DEF RecordVerdict
<1>6. CASE EmitNotDone(n)
  BY <1>6 DEF EmitNotDone
<1>7. CASE Quarantine(n)
  BY <1>7 DEF Quarantine
<1>8. CASE EmitDone(n)
  BY <1>8 DEF EmitDone
<1>9. CASE Dispose(n)
  BY <1>9 DEF Dispose
<1>10. CASE FailRejected(n)
  BY <1>10 DEF FailRejected
<1>11. CASE EmitFailed(n)
  BY <1>11 DEF EmitFailed
<1>12. CASE WriteReceipt(n)
  BY <1>12 DEF WriteReceipt
<1>13. CASE Close(n)
  BY <1>13 DEF Close
<1>14. CASE Leave(n)
  BY <1>14 DEF Leave
<1>15. CASE SettleThrows(n)
  BY <1>15 DEF SettleThrows
<1> QED
  BY <1>2, <1>3, <1>4, <1>5, <1>6, <1>7, <1>8, <1>9, <1>10,
     <1>11, <1>12, <1>13, <1>14, <1>15 DEF NodeStep

(* Nor does any other step.                                                 *)
LEMMA SavedKept == IInv /\ Saved /\ [Next]_vars => Saved'
<1> SUFFICES ASSUME IInv, Saved, [Next]_vars PROVE Saved'
  OBVIOUS
<1>1. CASE LoopStep
  BY <1>1, LoopLeavesNodes DEF IInv, TypeOK, Decided, Saved
<1>2. CASE RequestStop \/ Interrupt \/ UNCHANGED vars
  BY <1>2, OperatorLeavesAll DEF Saved
<1> QED
  BY <1>1, <1>2, SavedNode DEF Next

(* No changed tree is disposed of with its work in no branch and no line of *)
(* the journal, for any plan and whatever rejects.                          *)
THEOREM WorkKeptHolds == Spec => []WorkKept
<1>1. Init => Saved
  BY DEF Init, Saved, NoOutcome
<1>2. Saved => WorkKept
  BY DEF Saved, WorkKept, Accounted
<1> QED
  BY <1>1, <1>2, SavedKept, Invariant, PTL DEF Spec

-----------------------------------------------------------------------------
(* The cap                                                                 *)

(* Only a promise that has begun and not ended takes a step.                *)
LEMMA NodeInflight ==
    ASSUME NEW n \in Node, NodeStep(n)
    PROVE  n \in Inflight
  BY DEF NodeStep, Isolate, Return, Commit, RecordVerdict, EmitNotDone, Quarantine, EmitDone,
         Dispose, FailRejected, EmitFailed, WriteReceipt, Close, Leave, SettleThrows, Inflight

(* The promises in flight are finitely many, as the plan's nodes are.       *)
LEMMA InflightFinite == IsFiniteSet(Inflight) /\ Cardinality(Inflight) \in Nat
<1>1. IsFiniteSet(Inflight)
  BY FS_Subset, SchedulerAssumption DEF Inflight
<1> QED
  BY <1>1, FS_CardinalityType

(* Fewer of them, or one more, change their number accordingly.             *)
LEMMA InflightSize ==
    ASSUME NEW S, NEW e, S \subseteq Inflight \cup {e}
    PROVE  /\ Cardinality(S) \in Nat
           /\ Cardinality(S) <= Cardinality(Inflight) + 1
           /\ S \subseteq Inflight => Cardinality(S) <= Cardinality(Inflight)
<1>1. /\ IsFiniteSet(Inflight \cup {e})
      /\ Cardinality(Inflight \cup {e}) \in {Cardinality(Inflight), Cardinality(Inflight) + 1}
  BY InflightFinite, FS_AddElement
<1>2. IsFiniteSet(S) /\ Cardinality(S) <= Cardinality(Inflight \cup {e})
  BY <1>1, FS_Subset
<1>3. Cardinality(S) \in Nat
  BY <1>2, FS_CardinalityType
<1>4. S \subseteq Inflight => Cardinality(S) <= Cardinality(Inflight)
  BY InflightFinite, FS_Subset
<1>5. Cardinality(S) <= Cardinality(Inflight) + 1
  BY <1>1, <1>2, <1>3, InflightFinite
<1> QED
  BY <1>3, <1>4, <1>5

(* The room a launch was decided on is still there when it happens.         *)
Room == loop \in {"asking", "launching"} => Cardinality(Inflight) < cap

(* While the marker is being read promises only end, and the plan is not    *)
(* reloaded.                                                                *)
LEMMA RoomKept == IInv /\ Room /\ [Next]_vars => Room'
<1> SUFFICES ASSUME IInv, Room, [Next]_vars PROVE Room'
  OBVIOUS
<1>1. CASE LoopStep
  <2> USE DEF Room, nodeVars, planVars
  <2>1. CASE \/ NoReload \/ Reload \/ NothingToLaunch \/ Launch
             \/ Wake \/ FinalStop \/ LoopThrows \/ ReleaseLock
    BY <2>1 DEF NoReload, Reload, NothingToLaunch, Park, Launch, Wake, FinalStop, LoopThrows,
                ReleaseLock
  <2>2. CASE Choose
    BY <2>2 DEF Choose, Inflight
  <2>3. CASE AskStop
    BY <2>3 DEF AskStop, Park, Inflight
  <2> QED
    BY <1>1, <2>1, <2>2, <2>3 DEF LoopStep
<1>2. ASSUME NEW n \in Node, NodeStep(n) PROVE Room'
  <2>1. Inflight' \subseteq Inflight
    BY <1>2, NodeInflight, NodeLeavesOthers DEF IInv, OthersStand, Inflight
  <2>2. /\ Cardinality(Inflight) \in Nat
        /\ Cardinality(Inflight') \in Nat
        /\ Cardinality(Inflight') <= Cardinality(Inflight)
    BY <2>1, InflightSize, InflightFinite
  <2>3. cap' = cap /\ loop' \in {loop, "thrown", "crashed"} /\ cap \in Nat
    BY <1>2, NodeLeavesLoop, SchedulerAssumption DEF IInv, TypeOK
  <2> QED
    BY <2>2, <2>3 DEF Room
<1>3. CASE RequestStop \/ Interrupt \/ UNCHANGED vars
  BY <1>3, OperatorLeavesAll DEF Room, Inflight
<1> QED
  BY <1>1, <1>2, <1>3 DEF Next

(* Only a launch begins a promise, and it finds room.                       *)
LEMMA LaunchHasRoom ==
    ASSUME IInv, Room, [Next]_vars, NEW n \in Node, at[n] = "idle", at'[n] # "idle"
    PROVE  Cardinality(Inflight') <= cap
<1>1. CASE LoopStep
  <2>1. loop = "launching" /\ at' = [at EXCEPT ![cand] = "isolating"]
    BY <1>1, LoopLeavesNodes
  <2>2. Inflight' \subseteq Inflight \cup {cand}
    BY <2>1 DEF Inflight, IInv, TypeOK
  <2>3. /\ Cardinality(Inflight) \in Nat
        /\ Cardinality(Inflight') \in Nat
        /\ Cardinality(Inflight') <= Cardinality(Inflight) + 1
    BY <2>2, InflightSize, InflightFinite
  <2>4. cap \in Nat /\ Cardinality(Inflight) < cap
    BY <2>1, SchedulerAssumption DEF IInv, TypeOK, Room
  <2> QED
    BY <2>3, <2>4
<1>2. ASSUME NEW m \in Node, NodeStep(m) PROVE FALSE
  BY <1>2, NodeLeavesLoop, NodeLeavesOthers DEF IInv, OthersStand
<1>3. CASE RequestStop \/ Interrupt \/ UNCHANGED vars
  BY <1>3, OperatorLeavesAll
<1> QED
  BY <1>1, <1>2, <1>3 DEF Next

(* The cap in force holds at every launch, whatever settles and reloads     *)
(* between the decision and the launch.                                     *)
THEOREM CapRespectedHolds == Spec => CapRespected
<1>1. Init => Room
  BY DEF Init, Room
<1>2. IInv /\ Room /\ [Next]_vars =>
        [(\E n \in Node : at[n] = "idle" /\ at'[n] # "idle") => Cardinality(Inflight') <= cap]_vars
  BY LaunchHasRoom
<1> QED
  BY <1>1, <1>2, RoomKept, Invariant, PTL DEF Spec, CapRespected

-----------------------------------------------------------------------------
(* What a run leaves behind                                                *)

(* A node's promise was rejected, or an await of the loop itself was.       *)
Broken == Rejected \/ threw

(* A promise past its fate has one, unless it rejected; the loop leaves no  *)
(* promise behind, unless one of them rejected, or an await of its own.     *)
Orderly ==
    /\ \A n \in Node : at[n] \notin {"idle", "lost"} /\ ~Running(n) => n \in Settled
    /\ loop \in {"final", "ended"} => Inflight = {}
    /\ loop = "released" => Inflight = {} \/ Broken
    /\ loop \in {"thrown", "crashed"} => Broken

(* A rejected promise stays one, and only a rejection makes one.            *)
LEMMA RejectionsStay ==
    ASSUME IInv, NEW n \in Node, NodeStep(n)
    PROVE  /\ at[n] # "lost"
           /\ Rejected => Rejected'
           /\ at'[n] # "lost" => (Rejected' <=> Rejected)
           /\ at'[n] = "lost" => SettleThrows(n) /\ Rejected'
<1>1. at[n] # "lost" /\ \A m \in Node \ {n} : at'[m] = at[m]
  BY NodeInflight, NodeLeavesOthers DEF IInv, OthersStand, Inflight
<1>2. at'[n] = "lost" => SettleThrows(n)
  <2> USE DEF Goto, IInv, TypeOK
  <2>1. CASE RecordVerdict(n) \/ FailRejected(n) \/ Close(n)
    BY <2>1 DEF RecordVerdict, FailRejected, Close
  <2>2. CASE Isolate(n) \/ Return(n) \/ Commit(n) \/ EmitNotDone(n) \/ Quarantine(n)
    BY <2>2 DEF Isolate, Return, Commit, EmitNotDone, Quarantine
  <2>3. CASE EmitDone(n) \/ Dispose(n) \/ EmitFailed(n) \/ WriteReceipt(n) \/ Leave(n)
    BY <2>3 DEF EmitDone, Dispose, EmitFailed, WriteReceipt, Leave
  <2> QED
    BY <2>1, <2>2, <2>3 DEF NodeStep
<1> QED
  BY <1>1, <1>2 DEF Rejected

(* The loop moves under a node's step only by its rejection.                *)
LEMMA OnlyRejectionMovesLoop ==
    ASSUME IInv, NEW n \in Node, NodeStep(n)
    PROVE  \/ loop' = loop
           \/ /\ loop \notin {"final", "ended", "released"} \/ Rejected'
              /\ loop \notin {"ended", "released"}
              /\ loop' \in {"thrown", "crashed"}
              /\ Rejected'
<1>1. CASE SettleThrows(n)
  <2>1. at'[n] = "lost"
    BY <1>1 DEF SettleThrows, Goto, IInv, TypeOK
  <2>2. \/ loop' = loop
        \/ loop \notin {"ended", "released"} /\ loop' \in {"thrown", "crashed"}
    BY <1>1 DEF SettleThrows
  <2> QED
    BY <2>1, <2>2, RejectionsStay
<1>2. CASE ~SettleThrows(n)
  <2>1. CASE RecordVerdict(n) \/ FailRejected(n) \/ Close(n)
    BY <2>1 DEF RecordVerdict, FailRejected, Close
  <2>2. CASE Isolate(n) \/ Return(n) \/ Commit(n) \/ EmitNotDone(n) \/ Quarantine(n)
    BY <2>2 DEF Isolate, Return, Commit, EmitNotDone, Quarantine
  <2>3. CASE EmitDone(n) \/ Dispose(n) \/ EmitFailed(n) \/ WriteReceipt(n) \/ Leave(n)
    BY <2>3 DEF EmitDone, Dispose, EmitFailed, WriteReceipt, Leave
  <2> QED
    BY <1>2, <2>1, <2>2, <2>3 DEF NodeStep
<1> QED
  BY <1>1, <1>2

(* A step of settle gives a node its fate before the promise is past it.    *)
LEMMA FateInTime ==
    ASSUME IInv, Orderly, NEW n \in Node, NodeStep(n)
    PROVE  \A m \in Node : at'[m] \notin {"idle", "lost"} /\ ~Running(m)' => m \in Settled'
<1>1. OthersStand(n)
  BY NodeLeavesOthers DEF IInv
<1> USE <1>1 DEF IInv, TypeOK, Orderly, OutcomeKnown, Running, Settled, Outcome, Statuses,
                 OthersStand, Goto, fates
<1>3. CASE Isolate(n)
  BY <1>3 DEF Isolate
<1>4. CASE Return(n)
  BY <1>4 DEF Return
<1>5. CASE Commit(n)
  BY <1>5 DEF Commit
<1>6. CASE RecordVerdict(n)
  BY <1>6 DEF RecordVerdict
<1>7. CASE EmitNotDone(n)
  BY <1>7 DEF EmitNotDone
<1>8. CASE Quarantine(n)
  BY <1>8 DEF Quarantine
<1>9. CASE EmitDone(n)
  BY <1>9 DEF EmitDone
<1>10. CASE Dispose(n)
  BY <1>10 DEF Dispose
<1>11. CASE FailRejected(n)
  BY <1>11 DEF FailRejected
<1>12. CASE EmitFailed(n)
  BY <1>12 DEF EmitFailed
<1>13. CASE WriteReceipt(n)
  BY <1>13 DEF WriteReceipt
<1>14. CASE Close(n)
  BY <1>14 DEF Close
<1>15. CASE Leave(n)
  BY <1>15 DEF Leave
<1>16. CASE SettleThrows(n)
  BY <1>16 DEF SettleThrows
<1> QED
  BY <1>3, <1>4, <1>5, <1>6, <1>7, <1>8, <1>9, <1>10, <1>11,
     <1>12, <1>13, <1>14, <1>15, <1>16 DEF NodeStep

(* A node's step happens only in a run that goes on, or is broken.          *)
LEMMA OrderlyNode ==
    ASSUME IInv, Orderly, NEW n \in Node, NodeStep(n)
    PROVE  Orderly'
<1>1. n \in Inflight
  BY NodeInflight
<1>2. loop \notin {"final", "ended"} /\ (loop = "released" => Broken)
  BY <1>1 DEF Orderly
<1>3. loop' \notin {"final", "ended"}
  BY <1>2, OnlyRejectionMovesLoop
<1>4. threw' = threw
  BY NodeLeavesLoop DEF IInv
<1>5. loop' \in {"released", "thrown", "crashed"} => Broken'
  BY <1>2, <1>4, OnlyRejectionMovesLoop, RejectionsStay DEF Orderly, Broken
<1> QED
  BY <1>3, <1>5, FateInTime DEF Orderly

(* No step leaves a promise behind, or past its fate without one.           *)
LEMMA OrderlyKept == IInv /\ Orderly /\ [Next]_vars => Orderly'
<1> SUFFICES ASSUME IInv, Orderly, [Next]_vars PROVE Orderly'
  OBVIOUS
<1>1. CASE LoopStep
  <2>1. \A n \in Node : at'[n] \notin {"idle", "lost"} /\ ~Running(n)' => n \in Settled'
    BY <1>1, LoopLeavesNodes DEF IInv, TypeOK, Decided, Orderly, Running, Settled
  <2> USE DEF Orderly, nodeVars
  <2>2. CASE NoReload \/ Reload \/ Choose \/ Launch \/ Wake
    BY <2>1, <2>2 DEF NoReload, Reload, Choose, Launch, Wake
  <2>3. CASE NothingToLaunch \/ AskStop
    BY <2>1, <2>3 DEF NothingToLaunch, AskStop, Park, Inflight
  <2>4. CASE FinalStop \/ ReleaseLock
    BY <2>1, <2>4 DEF FinalStop, ReleaseLock, Inflight, Rejected, Broken
  <2>5. CASE LoopThrows
    BY <2>1, <2>5 DEF LoopThrows, Broken
  <2> QED
    BY <1>1, <2>2, <2>3, <2>4, <2>5 DEF LoopStep
<1>2. CASE RequestStop \/ Interrupt \/ UNCHANGED vars
  BY <1>2, OperatorLeavesAll DEF Orderly, Running, Settled, Inflight, Rejected, Broken
<1> QED
  BY <1>1, <1>2, OrderlyNode DEF Next

(* A run starts orderly.                                                    *)
LEMMA OrderlyInit == Init => Orderly
  BY DEF Init, Orderly, Running

(* The lock is held as long as any promise is alive, in every run in which  *)
(* no promise was rejected, nor any await of the loop itself.               *)
THEOREM LockCoversNodesHolds == Spec => []LockCoversNodes
<1>1. Orderly => LockCoversNodes
  BY DEF Orderly, LockCoversNodes, Broken
<1> QED
  BY <1>1, OrderlyKept, OrderlyInit, Invariant, PTL DEF Spec

-----------------------------------------------------------------------------
(* A clean run is complete                                                 *)

(* A run that nobody ended ends for want of anything ready; its scope holds *)
(* the ids it was asked for and whatever they need that is not closed.      *)
Dry ==
    /\ loop = "final" /\ ~stop /\ ~signal => Ready = {}
    /\ Only \subseteq scope
    /\ \A n \in scope : Needs[n] \subseteq scope \cup closed

(* The run's scope is what computeRunScope's walk arrives at.               *)
LEMMA ScopeFollowsNeeds ==
    ASSUME NEW done
    PROVE  /\ Only \subseteq RunScope(done)
           /\ \A n \in RunScope(done) : Needs[n] \subseteq RunScope(done) \cup done
<1>1. Only \subseteq RunScope(done)
  BY SchedulerAssumption DEF RunScope
<1>2. ASSUME NEW n \in RunScope(done), NEW m \in Needs[n], m \notin done
      PROVE  m \in RunScope(done)
  <2>1. n \in Node /\ m \in Node
    BY SchedulerAssumption DEF RunScope
  <2>2. ASSUME NEW S \in SUBSET Node, Only \subseteq S, \A k \in S : Needs[k] \ done \subseteq S
        PROVE  m \in S
    <3>1. n \in S
      BY <2>2 DEF RunScope
    <3> QED
      BY <2>2, <3>1, <1>2
  <2> QED
    BY <2>1, <2>2 DEF RunScope
<1> QED
  BY <1>1, <1>2

(* A run starts with its scope so, far from its end.                        *)
LEMMA DryInit == Init => Dry
<1> SUFFICES ASSUME Init PROVE Dry
  OBVIOUS
<1>1. scope = RunScope(closed) /\ loop = "reload"
  BY DEF Init
<1> QED
  BY <1>1, ScopeFollowsNeeds DEF Dry

(* The scope stands, the closed set grows.                                  *)
LEMMA ScopeStands == IInv /\ [Next]_vars => scope' = scope /\ closed \subseteq closed'
<1> SUFFICES ASSUME IInv, [Next]_vars PROVE scope' = scope /\ closed \subseteq closed'
  OBVIOUS
<1>1. CASE LoopStep
  BY <1>1, LoopLeavesNodes
<1>2. ASSUME NEW n \in Node, NodeStep(n) PROVE scope' = scope /\ closed \subseteq closed'
  BY <1>2, NodeLeavesLoop, NodeLeavesOthers DEF IInv, OthersStand
<1>3. CASE RequestStop \/ Interrupt \/ UNCHANGED vars
  BY <1>3, OperatorLeavesAll
<1> QED
  BY <1>1, <1>2, <1>3 DEF Next

(* The loop comes to its end on its own only where nothing is ready.        *)
LEMMA EndsWhenDry ==
    ASSUME IInv, Dry, LoopStep, loop' = "final", ~stop', ~signal'
    PROVE  Ready' = {}
<1> USE DEF nodeVars, fates, operatorVars
<1>1. CASE NothingToLaunch
  <2>1. Inflight = {} /\ ~signal
    BY <1>1 DEF NothingToLaunch, Park
  <2>2. Cardinality(Inflight) = 0 /\ cap \in Nat \ {0}
    BY <2>1, FS_EmptySet, SchedulerAssumption DEF IInv, TypeOK
  <2>3. Ready = {}
    BY <1>1, <2>1, <2>2 DEF NothingToLaunch
  <2>4. UNCHANGED <<at, closed, failed, blocked, aborted, partial, scope>>
    BY <1>1 DEF NothingToLaunch
  <2> QED
    BY <2>3, <2>4 DEF Ready, Settled, Predecessors
<1>2. CASE AskStop
  BY <1>2 DEF AskStop, Park
<1>3. CASE NoReload \/ Reload \/ Choose \/ Launch
  BY <1>3 DEF NoReload, Reload, Choose, Launch
<1>4. CASE Wake \/ FinalStop \/ LoopThrows \/ ReleaseLock
  BY <1>4 DEF Wake, FinalStop, LoopThrows, ReleaseLock
<1> QED
  BY <1>1, <1>2, <1>3, <1>4 DEF LoopStep

(* No step makes anything ready in a run that has come to its end.          *)
LEMMA DryKept == IInv /\ Orderly /\ Dry /\ [Next]_vars => Dry'
<1> SUFFICES ASSUME IInv, Orderly, Dry, [Next]_vars PROVE Dry'
  OBVIOUS
<1>1. scope' = scope /\ closed \subseteq closed'
  BY ScopeStands
<1>2. ASSUME loop' = "final", ~stop', ~signal' PROVE Ready' = {}
  <2>1. CASE LoopStep
    BY <1>2, <2>1, EndsWhenDry
  <2>2. ASSUME NEW n \in Node, NodeStep(n) PROVE FALSE
    <3>1. loop = "final"
      BY <1>2, <2>2, OnlyRejectionMovesLoop
    <3> QED
      BY <2>2, <3>1, NodeInflight DEF Orderly
  <2>3. CASE RequestStop \/ Interrupt \/ UNCHANGED vars
    <3>1. ~stop /\ ~signal /\ loop = "final"
      BY <1>2, <2>3, OperatorLeavesAll DEF RequestStop, Interrupt, vars, operatorVars
    <3>2. Ready = {}
      BY <3>1 DEF Dry
    <3> QED
      BY <2>3, <3>2, OperatorLeavesAll DEF Ready, Settled, Predecessors
  <2> QED
    BY <2>1, <2>2, <2>3 DEF Next
<1> QED
  BY <1>1, <1>2 DEF Dry

(* The nodes of a set that stand first in plan order.                       *)
LEMMA FirstInPlan ==
    ASSUME NEW S \in SUBSET Node, S # {}
    PROVE  \E n \in S : \A m \in S : ~(Rank[m] < Rank[n])
<1> DEFINE Ranks == {Rank[m] : m \in S}
<1>1. Ranks \subseteq Nat /\ Ranks # {}
  BY SchedulerAssumption
<1>2. PICK r \in Ranks : \A k \in Ranks : <<k, r>> \notin OpToRel(<, Nat)
  BY <1>1, WFMin, NatLessThanWellFounded
<1>3. PICK n \in S : r = Rank[n]
  BY <1>2
<1>4. ASSUME NEW m \in S PROVE ~(Rank[m] < Rank[n])
  <2>1. Rank[m] \in Ranks /\ Rank[m] \in Nat /\ Rank[n] \in Nat
    BY <1>1, SchedulerAssumption
  <2> QED
    BY <1>2, <1>3, <2>1 DEF OpToRel
<1> QED
  BY <1>4

(* Where needs are acyclic and only sinks are pinned, as the code says they *)
(* are, no nodes wait for each other in a circle.                           *)
THEOREM SinksWaitForNoCircle == AcyclicNeeds /\ OnlySinksPinned => NoCircularWait
<1> SUFFICES ASSUME AcyclicNeeds, OnlySinksPinned, NEW S \in SUBSET Node, S # {}
             PROVE  \E n \in S : Needs[n] \cap S = {} /\ Predecessors(n) \cap S = {}
  BY DEF NoCircularWait
<1> DEFINE Unpinned == {n \in S : StackOf[n] = NoStack}
<1>1. CASE Unpinned # {}
  <2>1. PICK n \in Unpinned : Needs[n] \cap Unpinned = {}
    BY <1>1 DEF AcyclicNeeds
  <2>2. Needs[n] \subseteq Node /\ \A d \in Needs[n] : StackOf[d] = NoStack
    BY SchedulerAssumption DEF OnlySinksPinned
  <2>3. Needs[n] \cap S = {}
    BY <2>1, <2>2
  <2>4. Predecessors(n) = {}
    BY DEF Predecessors
  <2> QED
    BY <2>3, <2>4
<1>2. CASE Unpinned = {}
  <2>1. PICK n \in S : \A m \in S : ~(Rank[m] < Rank[n])
    BY FirstInPlan
  <2>2. Predecessors(n) \cap S = {}
    BY <2>1 DEF Predecessors
  <2>3. Needs[n] \cap S = {}
    BY <1>2 DEF OnlySinksPinned
  <2> QED
    BY <2>2, <2>3
<1> QED
  BY <1>1, <1>2

(* Of the nodes a run leaves undone one would be ready, were it clean.      *)
LEMMA DryIsComplete ==
    ASSUME NoCircularWait, WholeGroups, IInv, Orderly, Dry
    PROVE  CleanRunIsComplete
<1> SUFFICES ASSUME loop = "final", ~stop, ~signal, ~Rejected,
                    failed \cup blocked \cup aborted \cup partial = {},
                    scope \ closed # {}
             PROVE  FALSE
  BY DEF CleanRunIsComplete
<1> DEFINE Undone == scope \ closed
<1>1. Undone \in SUBSET Node /\ scope \subseteq Node
  BY DEF IInv, TypeOK
<1>2. PICK n \in Undone : Needs[n] \cap Undone = {} /\ Predecessors(n) \cap Undone = {}
  BY <1>1 DEF NoCircularWait
<1>3. Needs[n] \subseteq closed
  BY <1>2 DEF Dry
<1>4. Predecessors(n) \subseteq closed
  <2>1. Predecessors(n) \subseteq scope
    BY DEF Predecessors, WholeGroups, Dry
  <2> QED
    BY <1>2, <2>1
<1>5. n \in Node /\ n \notin Settled
  BY <1>1 DEF Settled
<1>6. at[n] = "idle"
  <2>1. at[n] \in {"idle", "out"}
    BY <1>5 DEF Orderly, Inflight, Rejected
  <2> QED
    BY <1>5, <2>1 DEF Orderly, Running
<1>7. n \in Ready
  BY <1>3, <1>4, <1>5, <1>6 DEF Ready
<1> QED
  BY <1>7 DEF Dry

(* A run that was neither drained nor interrupted and in which nothing went *)
(* wrong leaves nothing of its scope undone, for every plan without a       *)
(* circular wait and every scope that keeps its rebuild groups whole.       *)
THEOREM CleanRunIsCompleteHolds ==
    ASSUME NoCircularWait, WholeGroups
    PROVE  Spec => []CleanRunIsComplete
<1>1. IInv /\ Orderly /\ Dry => CleanRunIsComplete
  BY DryIsComplete
<1> QED
  BY <1>1, DryInit, DryKept, OrderlyInit, OrderlyKept, Invariant, PTL DEF Spec

-----------------------------------------------------------------------------
(* The refinement                                                          *)

Over == loop \in {"ended", "released"}

(* What DagRun sees of a place: a promise that is running, one past its     *)
(* fate, one that was lost, or none.                                        *)
LEMMA FateShown ==
    ASSUME IInv, Orderly, NEW n \in Node
    PROVE  /\ Running(n) => FateOf(n) = "running"
           /\ at[n] = "idle" => FateOf(n) = IF n \in closed THEN "closed" ELSE "pending"
           /\ at[n] \notin {"idle", "lost"} /\ ~Running(n) => FateOf(n) \in Dag!Settled
           /\ at[n] = "lost" => FateOf(n) \in Dag!Settled \cup {"lost"}
  BY DEF IInv, Fated, Orderly, FateOf, Running, Settled, Dag!Settled

(* A node's step is of a run that goes on or is broken, and ends no run.    *)
LEMMA NodeInRun ==
    ASSUME IInv, Orderly, NEW n \in Node, NodeStep(n)
    PROVE  /\ Over => Broken
           /\ Over' <=> Over
           /\ threw' = threw
<1>1. n \in Inflight
  BY NodeInflight
<1>2. threw' = threw
  BY NodeLeavesLoop DEF IInv
<1> QED
  BY <1>1, <1>2, OnlyRejectionMovesLoop DEF Orderly, Over

(* A rejection is a Lose of DagRun.                                         *)
LEMMA ThrowLoses ==
    ASSUME IInv, Orderly, NEW n \in Node, SettleThrows(n), NodeStep(n)
    PROVE  /\ FateOf(n) # "pending"
           /\ FateOf(n)' = IF FateOf(n) = "running" THEN "lost" ELSE FateOf(n)
           /\ Rejected'
<1>1. at'[n] = "lost" /\ UNCHANGED fates
  BY DEF SettleThrows, Goto, IInv, TypeOK
<1>2. at[n] \notin {"idle", "lost"}
  BY NodeInflight DEF Inflight
<1>3. FateOf(n)' = IF n \in Settled THEN FateOf(n) ELSE "lost"
  BY <1>1 DEF FateOf, fates, Settled
<1>4. n \notin Settled => FateOf(n) = "running"
  BY <1>2 DEF FateOf, Settled
<1>5. n \in Settled => FateOf(n) \notin {"running", "pending"}
  BY DEF FateOf, Settled
<1> QED
  BY <1>1, <1>3, <1>4, <1>5 DEF Rejected

(* Any other step of settle is a Settle, or nothing that DagRun sees.       *)
LEMMA NodeSettles ==
    ASSUME IInv, IInv', Orderly, Orderly', NEW n \in Node, NodeStep(n), ~SettleThrows(n)
    PROVE  /\ \/ FateOf(n)' = FateOf(n)
              \/ FateOf(n) = "running" /\ FateOf(n)' \in Dag!Settled
           /\ Rejected' <=> Rejected
<1>1. Rejected' <=> Rejected
  BY RejectionsStay
<1>2. at[n] \notin {"idle", "lost"} /\ at'[n] \notin {"idle", "lost"}
  BY NodeLeavesLoop, RejectionsStay DEF IInv
<1>3. \/ UNCHANGED fates
      \/ Running(n)
<2> USE DEF Goto, Running
<2>1. CASE RecordVerdict(n) \/ FailRejected(n) \/ Close(n)
  BY <2>1 DEF RecordVerdict, FailRejected, Close
<2>2. CASE Isolate(n) \/ Return(n) \/ Commit(n) \/ EmitNotDone(n) \/ Quarantine(n)
  BY <2>2 DEF Isolate, Return, Commit, EmitNotDone, Quarantine
<2>3. CASE EmitDone(n) \/ Dispose(n) \/ EmitFailed(n) \/ WriteReceipt(n) \/ Leave(n)
  BY <2>3 DEF EmitDone, Dispose, EmitFailed, WriteReceipt, Leave
<2> QED
  BY <2>1, <2>2, <2>3 DEF NodeStep
<1>4. CASE UNCHANGED fates
  BY <1>1, <1>2, <1>4 DEF fates, FateOf
<1>5. CASE Running(n)
  <2>1. FateOf(n) = "running"
    BY <1>5, FateShown
  <2>2. CASE Running(n)'
    <3>1. n \notin Settled'
      BY <2>2 DEF IInv, Fated
    <3>2. FateOf(n)' = "running"
      BY <1>2, <3>1 DEF FateOf, Settled
    <3> QED
      BY <1>1, <2>1, <3>2
  <2>3. CASE ~Running(n)'
    <3>1. n \in Settled'
      BY <1>2, <2>3 DEF Orderly
    <3>2. FateOf(n)' \in Dag!Settled
      BY <3>1 DEF FateOf, Settled, Dag!Settled
    <3> QED
      BY <1>1, <2>1, <3>2
  <2> QED
    BY <2>2, <2>3
<1> QED
  BY <1>3, <1>4, <1>5

(* A step of the loop launches one ready node, ends the run, breaks it off, *)
(* or is nothing that DagRun sees.                                          *)
LEMMA LoopLaunchesOrEnds ==
    ASSUME IInv, Orderly, LoopStep
    PROVE  \/ /\ \A n \in Node : FateOf(n)' = FateOf(n)
              /\ ~Over /\ ~Over' /\ Broken'
           \/ /\ Broken' <=> Broken
              /\ \/ /\ \A n \in Node : FateOf(n)' = FateOf(n)
                    /\ Over' <=> Over
                 \/ /\ \A n \in Node : FateOf(n)' = FateOf(n)
                    /\ Broken \/ \A n \in Node : FateOf(n) # "running"
                    /\ ~Over /\ Over'
                 \/ /\ ~Over /\ ~Over'
                    /\ \E c \in Node :
                          /\ FateOf(c) = "pending" /\ FateOf(c)' = "running"
                          /\ \A d \in Needs[c] : FateOf(d) = "closed"
                          /\ \A n \in Node \ {c} : FateOf(n)' = FateOf(n)
<1> USE DEF Over
<1>1. CASE Launch
  <2>1. PICK c \in Node : c = cand
    BY <1>1 DEF Launch, IInv, Decided
  <2>2. /\ loop = "launching" /\ loop' = "decide" /\ at' = [at EXCEPT ![c] = "isolating"]
        /\ UNCHANGED fates
    BY <1>1, <2>1 DEF Launch
  <2>3. at[c] = "idle" /\ c \notin closed /\ Needs[c] \subseteq closed
    BY <2>1, <2>2 DEF IInv, Decided
  <2>4. FateOf(c) = "pending" /\ c \notin Settled
    BY <2>3, FateShown DEF IInv, Fated, Settled
  <2>5. FateOf(c)' = "running"
    BY <2>2, <2>4 DEF FateOf, fates, Settled, IInv, TypeOK
  <2>6. \A n \in Node \ {c} : FateOf(n)' = FateOf(n)
    BY <2>2 DEF FateOf, fates, IInv, TypeOK
  <2>7. \A d \in Needs[c] : FateOf(d) = "closed"
    BY <2>3 DEF FateOf
  <2>8. Broken' <=> Broken
    BY <1>1, <2>2, <2>3 DEF Launch, Broken, Rejected, IInv, TypeOK
  <2> QED
    BY <2>2, <2>4, <2>5, <2>6, <2>7, <2>8
<1>2. CASE FinalStop \/ ReleaseLock
  <2>1. UNCHANGED <<fates, at, threw>>
    BY <1>2 DEF FinalStop, ReleaseLock, nodeVars
  <2>2. (\A n \in Node : FateOf(n)' = FateOf(n)) /\ (Broken' <=> Broken)
    BY <2>1 DEF FateOf, fates, Rejected, Broken
  <2>3. CASE loop = "final" /\ loop' = "ended"
    <3>1. \A n \in Node : at[n] \in {"idle", "out", "lost"}
      BY <2>3 DEF Orderly, Inflight
    <3>2. \A n \in Node : FateOf(n) # "running"
      BY <3>1 DEF FateOf, Orderly, Running, Settled
    <3> QED
      BY <2>2, <2>3, <3>2
  <2>4. CASE loop \in {"ended", "thrown"} /\ loop' = "released"
    BY <2>2, <2>4 DEF Orderly
  <2> QED
    BY <1>2, <2>3, <2>4 DEF FinalStop, ReleaseLock
<1>3. CASE NoReload \/ Reload \/ Choose \/ Wake \/ NothingToLaunch \/ AskStop
  <2> USE DEF nodeVars
  <2>1. UNCHANGED <<fates, at, threw>>
    BY <1>3 DEF NoReload, Reload, Choose, Wake, NothingToLaunch, AskStop
  <2>2. ~Over /\ ~Over'
    BY <1>3 DEF NoReload, Reload, Choose, Wake, NothingToLaunch, AskStop, Park
  <2>3. (\A n \in Node : FateOf(n)' = FateOf(n)) /\ (Broken' <=> Broken)
    BY <2>1 DEF FateOf, fates, Rejected, Broken
  <2> QED
    BY <2>2, <2>3
<1>4. CASE LoopThrows
  BY <1>4 DEF LoopThrows, nodeVars, FateOf, fates, Broken
<1> QED
  BY <1>1, <1>2, <1>3, <1>4 DEF LoopStep

(* What broke is broken: two formulas with one truth have one value.        *)
LEMMA BrokenBoolean ==
    /\ Broken \in BOOLEAN
    /\ (Broken' <=> Broken) => Broken' = Broken
  BY DEF Broken, Rejected

(* Every step of a run is a step of DagRun, or one it does not see.         *)
LEMMA StepImplements ==
    ASSUME IInv, IInv', Orderly, Orderly', [Next]_vars
    PROVE  [Dag!Next]_<<[n \in Node |-> FateOf(n)], Rejected \/ threw, loop \in {"ended", "released"}>>
<1> DEFINE fate == [n \in Node |-> FateOf(n)]
<1> SUFFICES [Dag!Next]_<<fate, Broken, Over>>
  BY DEF Over, Broken
<1>1. CASE LoopStep
  <2>0. CASE (\A n \in Node : FateOf(n)' = FateOf(n)) /\ ~Over /\ ~Over' /\ Broken'
    <3>1. UNCHANGED fate
      BY <2>0
    <3>2. Dag!Break
      BY <2>0, <3>1 DEF Dag!Break, Over, Broken
    <3> QED
      BY <3>2 DEF Dag!Next
  <2>1. CASE (Broken' <=> Broken) /\ (\A n \in Node : FateOf(n)' = FateOf(n)) /\ (Over' <=> Over)
    <3>1. UNCHANGED <<fate, Broken, Over>>
      BY <2>1, BrokenBoolean DEF Over
    <3> QED
      BY <3>1
  <2>2. CASE /\ Broken' <=> Broken
             /\ \A n \in Node : FateOf(n)' = FateOf(n)
             /\ Broken \/ \A n \in Node : FateOf(n) # "running"
             /\ ~Over /\ Over'
    <3>1. UNCHANGED <<fate, Broken>>
      BY <2>2, BrokenBoolean
    <3>2. Dag!End
      BY <2>2, <3>1 DEF Dag!End, Over, Broken
    <3> QED
      BY <3>2 DEF Dag!Next
  <2>3. ASSUME Broken' <=> Broken, ~Over, ~Over', NEW c \in Node,
               FateOf(c) = "pending", FateOf(c)' = "running",
               \A d \in Needs[c] : FateOf(d) = "closed",
               \A n \in Node \ {c} : FateOf(n)' = FateOf(n)
        PROVE  [Dag!Next]_<<fate, Broken, Over>>
    <3>1. fate' = [fate EXCEPT ![c] = "running"]
      BY <2>3
    <3>2. \A d \in Needs[c] : fate[d] = "closed"
      BY <2>3, SchedulerAssumption
    <3>3. Broken' = Broken
      BY <2>3, BrokenBoolean
    <3>4. Dag!Launch(c)
      BY <2>3, <3>1, <3>2, <3>3 DEF Dag!Launch, Over, Broken
    <3> QED
      BY <2>3, <3>4 DEF Dag!Next
  <2> QED
    BY <1>1, <2>0, <2>1, <2>2, <2>3, LoopLaunchesOrEnds
<1>2. ASSUME NEW n \in Node, NodeStep(n)
      PROVE  [Dag!Next]_<<fate, Broken, Over>>
  <2>1. /\ \A m \in Node \ {n} : FateOf(m)' = FateOf(m)
        /\ Over => Broken
        /\ Over' <=> Over
        /\ threw' = threw
    BY <1>2, NodeLeavesOthers, NodeInRun DEF IInv, OthersStand, FateOf
  <2>2. CASE SettleThrows(n)
    <3>1. /\ FateOf(n) # "pending"
          /\ FateOf(n)' = IF FateOf(n) = "running" THEN "lost" ELSE FateOf(n)
          /\ Rejected'
      BY <1>2, <2>2, ThrowLoses
    <3>2. fate' = [fate EXCEPT ![n] = FateOf(n)']
      BY <2>1
    <3>3. fate' = [fate EXCEPT ![n] = IF @ = "running" THEN "lost" ELSE @]
      BY <3>1, <3>2
    <3>4. Dag!Lose(n)
      BY <2>1, <3>1, <3>3, BrokenBoolean DEF Dag!Lose, Over, Broken
    <3> QED
      BY <3>4 DEF Dag!Next
  <2>3. CASE ~SettleThrows(n) /\ FateOf(n)' = FateOf(n)
    <3>1. Broken' = Broken
      BY <1>2, <2>1, <2>3, NodeSettles, BrokenBoolean DEF Broken
    <3>2. UNCHANGED fate
      BY <2>1, <2>3
    <3> QED
      BY <2>1, <3>1, <3>2 DEF Over
  <2>4. CASE ~SettleThrows(n) /\ FateOf(n) = "running" /\ FateOf(n)' \in Dag!Settled
    <3>1. fate' = [fate EXCEPT ![n] = FateOf(n)']
      BY <2>1
    <3>2. (Rejected \/ threw)' = (Rejected \/ threw)
      BY <1>2, <2>1, <2>4, NodeSettles, BrokenBoolean DEF Broken
    <3>3. fate[n] = "running" /\ \E f \in Dag!Settled : fate' = [fate EXCEPT ![n] = f]
      BY <2>4, <3>1
    <3>4. /\ loop \in {"ended", "released"} => Rejected \/ threw
          /\ (loop \in {"ended", "released"})' = (loop \in {"ended", "released"})
      BY <2>1 DEF Over, Broken
    <3>5. Dag!Settle(n)
      BY <3>2, <3>3, <3>4, Zenon DEF Dag!Settle
    <3> QED
      BY <3>5 DEF Dag!Next
  <2> QED
    BY <1>2, <2>2, <2>3, <2>4, NodeSettles
<1>3. CASE RequestStop \/ Interrupt \/ UNCHANGED vars
  BY <1>3, OperatorLeavesAll DEF FateOf, Rejected, Broken, Over
<1> QED
  BY <1>1, <1>2, <1>3 DEF Next

(* A run starts where DagRun does.                                          *)
LEMMA InitImplements == Init => Dag!Init
<1> SUFFICES ASSUME Init PROVE Dag!Init
  OBVIOUS
<1>1. \A n \in Node : FateOf(n) \in {"pending", "closed"}
  BY DEF Init, FateOf
<1>2. loop \notin {"ended", "released"} /\ (Rejected \/ threw) = FALSE
  BY DEF Init, Rejected
<1> QED
  BY <1>1, <1>2 DEF Dag!Init

(* The scheduler implements the abstract run, whatever rejects: nodes start *)
(* only on closed dependencies, no fate is taken back, and the run ends     *)
(* with nothing running unless a promise was lost or the loop broke off.    *)
THEOREM ImplementsDagRunHolds == Spec => ImplementsDagRun
<1>1. IInv /\ IInv' /\ Orderly /\ Orderly' /\ [Next]_vars =>
        [Dag!Next]_<<[n \in Node |-> FateOf(n)], Rejected \/ threw, loop \in {"ended", "released"}>>
  BY StepImplements
<1>2. Spec => []IInv /\ []Orderly
  BY OrderlyKept, OrderlyInit, Invariant, PTL DEF Spec
<1> QED
  BY <1>1, <1>2, InitImplements, PTL DEF Spec, ImplementsDagRun, Dag!Spec

=============================================================================
