----------------------------- MODULE MCScheduler -----------------------------
(* Scheduler on small plans. Nodes are model values; a plan is a choice of   *)
(* Needs, Rank, Audited, Only and StackOf among those defined here.          *)
EXTENDS Scheduler, TLC

CONSTANTS a, b, c, stack1

AllNodes == {a, b, c}

(* a and b are independent, c is built on a. *)
ForkNeeds == a :> {} @@ b :> {} @@ c :> {a}
NoNeeds == [n \in AllNodes |-> {}]
PlanOrder == a :> 1 @@ b :> 2 @@ c :> 3

NoPins == [n \in AllNodes |-> NoStack]
(* b and c were pinned by one landing: c waits for its need and for b. *)
PinnedPair == a :> NoStack @@ b :> stack1 @@ c :> stack1

(* What CleanRunIsComplete is proved from, true of every plan above.         *)
ASSUME PlanCanBeFinished ==
    /\ AcyclicNeeds /\ OnlySinksPinned
    /\ NoCircularWait /\ WholeGroups
=============================================================================
