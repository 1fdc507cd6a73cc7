------------------------------ MODULE Scheduler ------------------------------
(***************************************************************************)
(* One `pleach run` under its lock: the scheduler loop of runUnderLock and *)
(* the settling of each node (src/src/loop/run-plan.ts), with the plan     *)
(* reload (src/src/core/reload.ts) and the run's scope                     *)
(* (src/src/core/scope.ts).                                                *)
(*                                                                         *)
(* The program is single-threaded: a step here is the code between two     *)
(* awaits that matter, so the loop and the node promises interleave where  *)
(* the program really yields.  runNode is two steps, Isolate and Return;   *)
(* RunNode models what happens between them.  The startup that computes    *)
(* the closed set and the rebuild groups is an initial state here.         *)
(***************************************************************************)
EXTENDS Integers, FiniteSets

CONSTANTS
    Node,          \* the plan's nodes
    Needs,         \* Needs[n]: the nodes n needs
    Rank,          \* Rank[n]: n's place in plan order
    Phased,        \* nodes whose work is a list of phases: a red one is sealed as it passes
    Audited,       \* nodes that declare accept.audit: the ledger decides their close
    Only,          \* the ids --only names; Node for a run without it
    StackOf,       \* StackOf[n]: the stack n is pinned to be rebuilt on, or NoStack
    NoStack,
    NoNode,
    Caps,          \* the concurrency caps a plan file may carry
    MaxReloads,    \* bound: how many times the plan file is edited while it runs
    LedgerRejects, \* emitVerdict may reject (an external ledger; gitLedger's cannot)
    SeamThrows     \* an await no catch covers may reject, of settle or of the loop itself

ASSUME SchedulerAssumption ==
    /\ IsFiniteSet(Node)
    /\ Needs \in [Node -> SUBSET Node]
    /\ Rank \in [Node -> Nat]
    /\ Phased \subseteq Node
    /\ Audited \subseteq Node
    /\ Only \subseteq Node
    /\ NoNode \notin Node
    /\ Caps \subseteq Nat \ {0}
    /\ MaxReloads \in Nat
    /\ LedgerRejects \in BOOLEAN
    /\ SeamThrows \in BOOLEAN

VARIABLES
    loop,        \* where the scheduler loop is
    cand,        \* the node chosen for the launch decision in progress
    cap,         \* maxConcurrency in force
    watched,     \* nodes whose promise the last Promise.race attached to
    scope,       \* the run's scope
    closed, failed, blocked, aborted, partial,
    kept,        \* what quarantineTree did with each node's tree
    at,          \* where each node's promise is
    outcome,     \* what runNode answered, and what settle made of it
    tree,        \* each node's worktree
    published,   \* nodes whose node/<id> branch this run committed
    toldDone,    \* nodes the ledger was last told are done
    started,     \* ids a reload may no longer change
    content,     \* version of each node in the plan in force
    launched,    \* version of each node its promise runs with; -1 before launch
    edits,       \* edits made to the plan file
    stop,        \* the drain marker exists
    signal,      \* the run's AbortSignal has fired
    late,        \* history: launches since the drain marker was written
    threw        \* history: an await of the loop itself has rejected

fates == <<closed, failed, blocked, aborted, partial>>
planVars == <<cap, started, content, edits>>
nodeVars == <<at, outcome, tree, published, toldDone, kept>>
operatorVars == <<stop, signal>>
vars == <<loop, cand, watched, scope, fates, nodeVars, planVars, launched, operatorVars, late,
          threw>>

Statuses == {"done", "failed", "blocked", "aborted"}
Stages == {"idle", "isolating", "working", "commit", "verdict", "emitBad", "keep", "dispose",
           "receipt", "emit", "rejected", "reemit", "close", "settled", "out", "lost"}
LoopStages == {"reload", "decide", "asking", "launching", "race", "final", "ended",
               "thrown", "crashed", "released"}
(* What a tree holds that its base does not: nothing, changed files, or     *)
(* work committed on the detached HEAD (a red seal, a close whose branch    *)
(* could not be moved) with nothing changed since.                          *)
Work == {"none", "changed", "sealed"}
NoOutcome == [status |-> "none", work |-> "none", decision |-> "none"]
Outcome == [status : Statuses \cup {"none"}, work : Work,
            decision : {"none", "closed", "declined", "rejected"}]

Settled == closed \cup failed \cup blocked \cup aborted \cup partial
Inflight == {n \in Node : at[n] \notin {"idle", "out", "lost"}}

(* A node promise of this run has rejected.                                 *)
Rejected == \E n \in Node : at[n] = "lost"

(* The earlier members, in plan order, of the group n is rebuilt with.      *)
Predecessors(n) ==
    {m \in Node : StackOf[n] # NoStack /\ StackOf[m] = StackOf[n] /\ Rank[m] < Rank[n]}

(* The named ids and, transitively, the needs the ledger does not report    *)
(* closed: the least set closed under that step.                            *)
RunScope(done) ==
    {n \in Node : \A S \in SUBSET Node :
        (Only \subseteq S /\ \A m \in S : Needs[m] \ done \subseteq S) => n \in S}

(* Mutants: a node whose needs were left out is not waiting for them; only  *)
(* this run's closes count; a rebuild ignores the order of its group.       *)
MutReadyOnSettled ==
    {n \in scope \ Settled : at[n] = "idle" /\ Needs[n] \subseteq Settled}

MutReadyThisRun ==
    {n \in scope \ Settled :
        at[n] = "idle" /\ Needs[n] \subseteq published /\ Predecessors(n) \subseteq closed}

MutReadyNoGroup ==
    {n \in scope \ Settled : at[n] = "idle" /\ Needs[n] \subseteq closed}

Ready ==
    {n \in scope \ Settled :
        /\ at[n] = "idle"
        /\ Needs[n] \subseteq closed
        /\ Predecessors(n) \subseteq closed}

FirstReady == {n \in Ready : \A m \in Ready : Rank[n] <= Rank[m]}

(* seedClosure made the closed set closed under needs, and every pinned     *)
(* node was re-dispatched together with what is built on it.                *)
Init ==
    /\ closed \in {S \in SUBSET Node : \A n \in S : Needs[n] \subseteq S /\ StackOf[n] = NoStack}
    /\ scope = RunScope(closed)
    /\ loop = "reload"
    /\ cand = NoNode
    /\ cap \in Caps
    /\ watched = {}
    /\ failed = {} /\ blocked = {} /\ aborted = {} /\ partial = {}
    /\ kept = [n \in Node |-> "none"]
    /\ at = [n \in Node |-> "idle"]
    /\ outcome = [n \in Node |-> NoOutcome]
    /\ tree = [n \in Node |-> "none"]
    /\ published = {} /\ toldDone = {}
    /\ started = closed
    /\ content = [n \in Node |-> 0]
    /\ launched = [n \in Node |-> -1]
    /\ edits = 0
    /\ stop = FALSE /\ signal = FALSE
    /\ late = 0 /\ threw = FALSE

-----------------------------------------------------------------------------
(* The scheduler loop                                                      *)

(* reloadPlanIfChanged: the file is unchanged, unreadable or refused ...    *)
NoReload ==
    /\ loop = "reload"
    /\ loop' = "decide"
    /\ UNCHANGED <<cand, watched, scope, fates, nodeVars, planVars, launched, operatorVars, late, threw>>

(* ... or merged: a node that has not started takes the edited one.         *)
Reload ==
    /\ loop = "reload"
    /\ edits < MaxReloads
    /\ edits' = edits + 1
    /\ content' = [n \in Node |-> IF n \in started THEN content[n] ELSE edits + 1]
    /\ cap' \in Caps
    /\ loop' = "decide"
    /\ UNCHANGED <<cand, watched, scope, fates, nodeVars, started, launched, operatorVars, late, threw>>

(* Mutants: an abort ends the run under its nodes; an empty race waits.     *)
MutParkOnAbort ==
    IF Inflight = {} \/ signal
    THEN loop' = "final" /\ UNCHANGED watched
    ELSE loop' = "race" /\ watched' = Inflight

MutParkAlwaysRaces ==
    loop' = "race" /\ watched' = Inflight

(* Leaving the launch loop: nothing in flight ends the run, else wait.      *)
Park ==
    IF Inflight = {}
    THEN loop' = "final" /\ UNCHANGED watched
    ELSE loop' = "race" /\ watched' = Inflight

(* Mutant: the ready list is taken for a node.                             *)
MutChooseList ==
    /\ loop = "decide"
    /\ Cardinality(Inflight) < cap
    /\ ~signal
    /\ Ready # {}
    /\ cand' = FirstReady
    /\ loop' = "asking"
    /\ UNCHANGED <<watched, scope, fates, nodeVars, planVars, launched, operatorVars, late, threw>>

Choose ==
    /\ loop = "decide"
    /\ Cardinality(Inflight) < cap
    /\ ~signal
    /\ cand' \in FirstReady
    /\ loop' = "asking"
    /\ UNCHANGED <<watched, scope, fates, nodeVars, planVars, launched, operatorVars, late, threw>>

NothingToLaunch ==
    /\ loop = "decide"
    /\ Cardinality(Inflight) >= cap \/ signal \/ Ready = {}
    /\ Park
    /\ UNCHANGED <<cand, scope, fates, nodeVars, planVars, launched, operatorVars, late, threw>>

(* Mutant: the marker is honoured only between waves.                       *)
MutAskStopBetweenWaves ==
    /\ loop = "asking"
    /\ \/ stop /\ Inflight = {} /\ Park /\ cand' = NoNode
       \/ ~(stop /\ Inflight = {}) /\ loop' = "launching" /\ UNCHANGED <<cand, watched>>
    /\ UNCHANGED <<scope, fates, nodeVars, planVars, launched, operatorVars, late, threw>>

(* stopRequested's stat answers; the launch is the continuation after it.   *)
AskStop ==
    /\ loop = "asking"
    /\ \/ stop /\ Park /\ cand' = NoNode
       \/ ~stop /\ loop' = "launching" /\ UNCHANGED <<cand, watched>>
    /\ UNCHANGED <<scope, fates, nodeVars, planVars, launched, operatorVars, late, threw>>

Launch ==
    /\ loop = "launching"
    /\ started' = started \cup {cand}
    /\ at' = [at EXCEPT ![cand] = "isolating"]
    /\ launched' = [launched EXCEPT ![cand] = content[cand]]
    /\ late' = IF stop THEN late + 1 ELSE late
    /\ loop' = "decide"
    /\ cand' = NoNode
    /\ UNCHANGED <<watched, scope, fates, outcome, tree, published, toldDone,
                   kept, cap, content, edits, operatorVars, threw>>

Wake ==
    /\ loop = "race"
    /\ ~(watched \subseteq Inflight)
    /\ watched' = watched \cap Inflight
    /\ loop' = "reload"
    /\ UNCHANGED <<cand, scope, fates, nodeVars, planVars, launched, operatorVars, late, threw>>

(* The authoritative read at the end; a marker present is consumed.         *)
FinalStop ==
    /\ loop = "final"
    /\ stop' = FALSE
    /\ loop' = "ended"
    /\ UNCHANGED <<cand, watched, scope, fates, nodeVars, planVars, launched, signal, late, threw>>

(* An await of the loop itself rejects: a journal append of the reload, the *)
(* marker's stat (any error but ENOENT is rethrown), an append or the       *)
(* marker's removal at the end.  Nodes in flight are left as they are.      *)
LoopThrows ==
    /\ SeamThrows
    /\ loop \in {"reload", "asking", "final"}
    /\ loop' = "thrown" /\ threw' = TRUE
    /\ cand' = NoNode
    /\ stop' \in IF loop = "final" THEN {stop, FALSE} ELSE {stop}
    /\ UNCHANGED <<watched, scope, fates, nodeVars, planVars, launched, signal, late>>

(* runPlan's finally: the lock goes, whether the run returned or threw.     *)
ReleaseLock ==
    /\ loop \in {"ended", "thrown"}
    /\ loop' = "released"
    /\ UNCHANGED <<cand, watched, scope, fates, nodeVars, planVars, launched, operatorVars, late, threw>>

-----------------------------------------------------------------------------
(* A node's promise: runOne, then settle                                   *)

(* A promise's continuation runs only while its process does.               *)
Goto(n, l) ==
    /\ loop # "crashed"
    /\ at' = [at EXCEPT ![n] = l]

loopVars == <<cand, watched, scope, planVars, launched, operatorVars, late, threw>>

Isolate(n) ==
    /\ at[n] = "isolating"
    /\ tree' = [tree EXCEPT ![n] = "live"]
    /\ Goto(n, "working")
    /\ UNCHANGED <<loop, loopVars, fates, outcome, published, toldDone, kept>>

(* runNode answers. Without a tree it cannot be done, nor leave work behind; *)
(* only the run's own signal makes an outcome aborted (RunNode's            *)
(* SchedulersReturn).                                                       *)
Return(n) ==
    /\ at[n] \in {"isolating", "working"}
    /\ \E s \in Statuses, w \in Work :
          /\ at[n] = "isolating" => s # "done" /\ w = "none"
          /\ w = "sealed" => n \in Phased /\ s # "done"
          /\ s = "aborted" => signal
          /\ outcome' = [outcome EXCEPT ![n].status = s, ![n].work = w]
          /\ Goto(n, IF s = "done" THEN "commit" ELSE "verdict")
    /\ UNCHANGED <<loop, loopVars, fates, tree, published, toldDone, kept>>

(* commitVerified: the commit publishes node/<id>, or a gate of its own (a  *)
(* late marker, a hook, an altered tree) turns the outcome failed.  A       *)
(* node/<id> that some worktree has checked out is refused by `branch -f`   *)
(* after the commit was made: what changed is on the detached HEAD then.    *)
Commit(n) ==
    /\ at[n] = "commit"
    /\ \/ published' = published \cup {n} /\ UNCHANGED outcome
       \/ \E w \in {outcome[n].work, IF outcome[n].work = "changed" THEN "sealed" ELSE "none"} :
             outcome' = [outcome EXCEPT ![n].status = "failed", ![n].work = w]
          /\ UNCHANGED published
    /\ Goto(n, "verdict")
    /\ UNCHANGED <<loop, loopVars, fates, tree, toldDone, kept>>

(* The verdict line; a node that is not done takes its fate here.           *)
RecordVerdict(n) ==
    /\ at[n] = "verdict"
    /\ LET s == outcome[n].status IN
       /\ blocked' = IF s = "blocked" THEN blocked \cup {n} ELSE blocked
       /\ aborted' = IF s = "aborted" THEN aborted \cup {n} ELSE aborted
       /\ failed' = IF s = "failed" THEN failed \cup {n} ELSE failed
       /\ Goto(n, IF s = "done" THEN "emit" ELSE "emitBad")
    /\ UNCHANGED <<loop, loopVars, closed, partial, outcome, tree, published, toldDone,
                   kept>>

EmitNotDone(n) ==
    /\ at[n] = "emitBad"
    /\ Goto(n, "keep")
    /\ UNCHANGED <<loop, loopVars, fates, outcome, tree, published, toldDone, kept>>

(* Mutant: only a failed node's tree is kept.                               *)
MutQuarantineFailedOnly(n) ==
    /\ at[n] = "keep"
    /\ IF tree[n] = "live" /\ outcome[n].work = "changed" /\ outcome[n].status = "failed"
       THEN \E k \in {"snapshot", "missed"} : kept' = [kept EXCEPT ![n] = k]
       ELSE UNCHANGED kept
    /\ Goto(n, IF tree[n] = "live" THEN "dispose" ELSE "receipt")
    /\ UNCHANGED <<loop, loopVars, fates, outcome, tree, published, toldDone>>

(* quarantineTree: a tree with changed files is snapshotted, or the miss is *)
(* journaled; one without is not.                                           *)
Quarantine(n) ==
    /\ at[n] = "keep"
    /\ IF tree[n] = "live" /\ outcome[n].work = "changed"
       THEN \E k \in {"snapshot", "missed"} : kept' = [kept EXCEPT ![n] = k]
       ELSE UNCHANGED kept
    /\ Goto(n, IF tree[n] = "live" THEN "dispose" ELSE "receipt")
    /\ UNCHANGED <<loop, loopVars, fates, outcome, tree, published, toldDone>>

(* Mutant: the node closes first and its tree is disposed of some day.      *)
MutEmitDoneNoDispose(n) ==
    /\ at[n] = "emit"
    /\ \E d \in {"closed", "declined"} : outcome' = [outcome EXCEPT ![n].decision = d]
    /\ toldDone' = toldDone \cup {n}
    /\ Goto(n, "receipt")
    /\ UNCHANGED <<loop, loopVars, fates, tree, published, kept>>

(* emitVerdict for a committed node: the decision, or a rejection caught.   *)
EmitDone(n) ==
    /\ at[n] = "emit"
    /\ \E d \in {"closed", "declined"} \cup (IF LedgerRejects THEN {"rejected"} ELSE {}) :
          outcome' = [outcome EXCEPT ![n].decision = d]
    /\ toldDone' = toldDone \cup {n}
    /\ Goto(n, "dispose")
    /\ UNCHANGED <<loop, loopVars, fates, tree, published, kept>>

(* disposeOrJournal: a failed dispose is journaled and the close goes on,   *)
(* so "disposed" says the disposal was attempted.                           *)
Dispose(n) ==
    /\ at[n] = "dispose"
    /\ tree' = [tree EXCEPT ![n] = "disposed"]
    /\ Goto(n, IF outcome[n].decision = "rejected" THEN "rejected" ELSE "receipt")
    /\ UNCHANGED <<loop, loopVars, fates, outcome, published, toldDone, kept>>

(* A close the ledger never took: failed, no receipt, and emitted again.    *)
FailRejected(n) ==
    /\ at[n] = "rejected"
    /\ failed' = failed \cup {n}
    /\ Goto(n, "reemit")
    /\ UNCHANGED <<loop, loopVars, closed, blocked, aborted, partial, outcome, tree, published,
                   toldDone, kept>>

EmitFailed(n) ==
    /\ at[n] = "reemit"
    /\ toldDone' = toldDone \ {n}
    /\ Goto(n, "settled")
    /\ UNCHANGED <<loop, loopVars, fates, outcome, tree, published, kept>>

(* writeReceiptOrJournal *)
WriteReceipt(n) ==
    /\ at[n] = "receipt"
    /\ Goto(n, IF outcome[n].status = "done" THEN "close" ELSE "settled")
    /\ UNCHANGED <<loop, loopVars, fates, outcome, tree, published, toldDone, kept>>

(* A node without an audit is the conductor's to close; an audited one is   *)
(* closed, or left partial, by what the ledger decided.                     *)
Close(n) ==
    /\ at[n] = "close"
    /\ IF n \in Audited /\ outcome[n].decision # "closed"
       THEN partial' = partial \cup {n} /\ UNCHANGED closed
       ELSE closed' = closed \cup {n} /\ UNCHANGED partial
    /\ Goto(n, "settled")
    /\ UNCHANGED <<loop, loopVars, failed, blocked, aborted, outcome, tree, published, 
                   toldDone, kept>>

(* .finally(() => inflight.delete(id)) *)
Leave(n) ==
    /\ at[n] = "settled"
    /\ Goto(n, "out")
    /\ outcome' = [outcome EXCEPT ![n] = NoOutcome]
    /\ UNCHANGED <<loop, loopVars, fates, tree, published, toldDone, kept>>

(* An await of runOne or settle that no catch covers rejects, and the node  *)
(* promise with it: into the race that waits for it, unseen into a race     *)
(* already decided, or unhandled, which ends the process.                   *)
SettleThrows(n) ==
    /\ \/ /\ SeamThrows
          /\ at[n] \in {"isolating", "verdict", "emitBad", "keep", "emit", "dispose", "receipt",
                       "reemit", "settled"}
       \/ LedgerRejects /\ at[n] \in {"emitBad", "reemit"}
    /\ Goto(n, "lost")
    /\ loop' = IF loop \in {"crashed", "released", "ended"} THEN loop
               ELSE IF n \notin watched THEN "crashed"
               ELSE IF loop = "race" THEN "thrown"
               ELSE loop
    /\ outcome' = [outcome EXCEPT ![n] = NoOutcome]
    /\ UNCHANGED <<loopVars, fates, tree, published, toldDone, kept>>

-----------------------------------------------------------------------------
(* The operator                                                            *)

(* `pleach stop`: the marker, for a run that holds its lock. *)
RequestStop ==
    /\ loop \notin {"released", "crashed"}
    /\ ~stop
    /\ stop' = TRUE
    /\ late' = 0
    /\ UNCHANGED <<loop, cand, watched, scope, fates, nodeVars, planVars, launched, signal, threw>>

(* `pleach stop --now`, or the terminal's interrupt. *)
Interrupt ==
    /\ loop \notin {"released", "crashed"}
    /\ ~signal
    /\ signal' = TRUE
    /\ UNCHANGED <<loop, cand, watched, scope, fates, nodeVars, planVars, launched, stop, late, threw>>

-----------------------------------------------------------------------------

LoopStep ==
    \/ NoReload \/ Reload \/ Choose \/ NothingToLaunch \/ AskStop \/ Launch
    \/ Wake \/ FinalStop \/ LoopThrows \/ ReleaseLock

NodeStep(n) ==
    \/ Isolate(n) \/ Return(n) \/ Commit(n) \/ RecordVerdict(n) \/ EmitNotDone(n)
    \/ Quarantine(n) \/ EmitDone(n) \/ Dispose(n) \/ FailRejected(n) \/ EmitFailed(n)
    \/ WriteReceipt(n) \/ Close(n) \/ Leave(n) \/ SettleThrows(n)

Next == LoopStep \/ RequestStop \/ Interrupt \/ \E n \in Node : NodeStep(n)

Spec == Init /\ [][Next]_vars

(* The event loop runs something that is ready while anything is: every     *)
(* await of a node returns (a worker's wait is bounded by its attempt       *)
(* clock, an exec by its timeout).  Nothing is asked of the order, and the  *)
(* operator owes nothing.                                                   *)
FairSpec == Spec /\ WF_vars(LoopStep \/ \E n \in Node : NodeStep(n))

-----------------------------------------------------------------------------
(* Properties                                                              *)

(* The shape of every variable of a run.                                    *)
TypeOK ==
    /\ loop \in LoopStages
    /\ cand \in Node \cup {NoNode}
    /\ cap \in Caps
    /\ watched \subseteq Node /\ scope \subseteq Node
    /\ closed \subseteq Node /\ failed \subseteq Node /\ blocked \subseteq Node
    /\ aborted \subseteq Node /\ partial \subseteq Node
    /\ at \in [Node -> Stages]
    /\ outcome \in [Node -> Outcome]
    /\ tree \in [Node -> {"none", "live", "disposed"}]
    /\ kept \in [Node -> {"none", "snapshot", "missed"}]
    /\ published \subseteq Node /\ toldDone \subseteq Node /\ started \subseteq Node
    /\ content \in [Node -> Nat]
    /\ launched \in [Node -> Int]
    /\ edits \in Nat /\ late \in Nat
    /\ stop \in BOOLEAN /\ signal \in BOOLEAN /\ threw \in BOOLEAN

(* A node has one fate: the summary's closed, failed, blocked, aborted and  *)
(* partial lists never share an id.                                         *)
OneFate ==
    /\ closed \cap (failed \cup blocked \cup aborted \cup partial) = {}
    /\ failed \cap (blocked \cup aborted \cup partial) = {}
    /\ blocked \cap (aborted \cup partial) = {}
    /\ aborted \cap partial = {}

(* run-plan.ts, closed-then-dispose: a node whose promise has begun stands  *)
(* on dependencies that are closed and whose worktrees are no longer live.  *)
DependentsNeverOverlap ==
    \A n \in Node : at[n] # "idle" =>
        \A d \in Needs[n] : d \in closed /\ tree[d] # "live"

(* A rebuild group is rebuilt in plan order: a member begins only when the  *)
(* members before it closed.                                                *)
GroupInPlanOrder ==
    \A n \in Node : at[n] # "idle" => Predecessors(n) \subseteq closed

(* Commit before emit: the ledger is told `done` only of a published branch.*)
CommitBeforeEmit == toldDone \subseteq published

(* The work of a tree that is gone: published, snapshotted, or its miss     *)
(* journaled.                                                               *)
Accounted(n, work) ==
    tree[n] = "disposed" /\ outcome[n].work = work => n \in published \/ kept[n] # "none"

(* "Work is never silently lost": no changed tree is disposed of with its   *)
(* work in no branch and no line of the journal, whichever way it settled.  *)
WorkKept == \A n \in Node : Accounted(n, "changed")

(* docs/guarantees.md:7, "work is never silently lost": nor is a tree whose *)
(* work is committed on its detached HEAD, as a red seal is, and a close    *)
(* whose branch could not be moved.  quarantineTree asks for changed files. *)
SealedWorkKept == \A n \in Node : Accounted(n, "sealed")

(* A reload never changes a node under its own promise: what the receipt is *)
(* built from is what ran.                                                  *)
StartedKeepsPlan == \A n \in Node : launched[n] # -1 => content[n] = launched[n]

(* A drain written at any moment is seen by the next launch decision: at    *)
(* most the launch whose check had already answered still happens.          *)
AtMostOneLateLaunch == late <= 1

(* The lock is held as long as any node's promise is alive, in every run in *)
(* which no node's promise and no await of the loop itself was rejected:    *)
(* either one ends the loop, and runPlan's finally releases the lock over   *)
(* the nodes still in flight.                                               *)
LockCoversNodes == loop = "released" /\ ~Rejected /\ ~threw => Inflight = {}

(* validatePlan: no node needs itself, directly or not.                     *)
AcyclicNeeds ==
    \A S \in SUBSET Node : S # {} => \E n \in S : Needs[n] \cap S = {}

(* "Only sinks are ever pinned": nothing needs a pinned node.               *)
OnlySinksPinned ==
    \A n \in Node : \A d \in Needs[n] : StackOf[d] = NoStack

(* No nodes wait for each other in a circle, by their needs and by the order *)
(* of their groups.                                                         *)
NoCircularWait ==
    \A S \in SUBSET Node : S # {} =>
        \E n \in S : Needs[n] \cap S = {} /\ Predecessors(n) \cap S = {}

(* The run's scope leaves no member of a rebuild group out.                 *)
WholeGroups == \A n \in Node : StackOf[n] # NoStack => n \in Only

(* A run that was neither drained nor interrupted, in which nothing failed, *)
(* was blocked, stayed partial or rejected, leaves nothing of its scope     *)
(* undone.                                                                  *)
CleanRunIsComplete ==
    /\ loop = "final" /\ ~stop /\ ~signal /\ ~Rejected
    /\ failed \cup blocked \cup aborted \cup partial = {}
    => scope \subseteq closed

(* The cap holds at every launch, although it was read before an await.     *)
CapRespected ==
    [][(\E n \in Node : at[n] = "idle" /\ at'[n] # "idle") => Cardinality(Inflight') <= cap]_vars

(* Every run ends, whatever its nodes come to.                              *)
RunEnds == <>(loop \in {"released", "crashed"})

(* The run as DagRun sees it.                                               *)
FateOf(n) ==
    IF n \in closed THEN "closed" ELSE IF n \in failed THEN "failed"
    ELSE IF n \in blocked THEN "blocked" ELSE IF n \in aborted THEN "aborted"
    ELSE IF n \in partial THEN "partial" ELSE IF at[n] = "idle" THEN "pending"
    ELSE IF at[n] = "lost" THEN "lost" ELSE "running"

Dag == INSTANCE DagRun WITH fate <- [n \in Node |-> FateOf(n)],
                            broken <- Rejected \/ threw,
                            over <- loop \in {"ended", "released"}

(* The scheduler implements the abstract run.                               *)
ImplementsDagRun == Dag!Spec
=============================================================================
