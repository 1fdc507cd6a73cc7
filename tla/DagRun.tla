------------------------------- MODULE DagRun -------------------------------
(***************************************************************************)
(* What a run of a plan promises, with no scheduler, worktree, ledger or   *)
(* lock in it: every node has one fate, a node starts only on closed       *)
(* dependencies and while the run is on, a fate is never taken back, and   *)
(* the run ends with nothing running, unless a seam failed under a node's  *)
(* promise or under the run itself.  Scheduler implements this.            *)
(***************************************************************************)
EXTENDS FiniteSets

CONSTANTS
    Node,    \* the plan's nodes
    Needs    \* Needs[n]: the nodes n is built on

Settled == {"closed", "failed", "blocked", "aborted", "partial"}
Fate == {"pending", "running", "lost"} \cup Settled

VARIABLES
    fate,    \* each node's fate so far
    broken,  \* a node's promise was lost, or the run itself broke off
    over     \* the run has ended

TypeOK ==
    /\ fate \in [Node -> Fate]
    /\ broken \in BOOLEAN
    /\ over \in BOOLEAN

(* A run starts from what the ledger reports closed. *)
Init ==
    /\ fate \in [Node -> {"pending", "closed"}]
    /\ broken = FALSE
    /\ over = FALSE

Launch(n) ==
    /\ ~over
    /\ fate[n] = "pending"
    /\ \A d \in Needs[n] : fate[d] = "closed"
    /\ fate' = [fate EXCEPT ![n] = "running"]
    /\ UNCHANGED <<broken, over>>

(* A node settles while the run is on, or behind a run that broke.          *)
Settle(n) ==
    /\ over => broken
    /\ fate[n] = "running"
    /\ fate'[n] \in Settled
    /\ fate' = [fate EXCEPT ![n] = fate'[n]]
    /\ UNCHANGED <<broken, over>>

(* A node's promise is lost: while it runs, and then it has no other fate,  *)
(* or behind the fate it already has.                                       *)
Lose(n) ==
    /\ over => broken
    /\ fate[n] # "pending"
    /\ broken' = TRUE
    /\ fate' = [fate EXCEPT ![n] = IF @ = "running" THEN "lost" ELSE @]
    /\ UNCHANGED over

(* A seam fails under the run itself: it breaks off, over what still runs.  *)
Break ==
    /\ ~over
    /\ broken' = TRUE
    /\ UNCHANGED <<fate, over>>

(* The run may end at any time nothing is running: it was drained, aborted, *)
(* or nothing left can start.  A broken one ends over what still runs.      *)
End ==
    /\ ~over
    /\ broken \/ \A n \in Node : fate[n] # "running"
    /\ over' = TRUE
    /\ UNCHANGED <<fate, broken>>

Next == End \/ Break \/ \E n \in Node : Launch(n) \/ Settle(n) \/ Lose(n)

Spec == Init /\ [][Next]_<<fate, broken, over>>
=============================================================================
