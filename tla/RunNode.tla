------------------------------- MODULE RunNode -------------------------------
(***************************************************************************)
(* One node of a plan climbing its ladder: runNode                         *)
(* (src/src/loop/run-node.ts), the work inside it (src/src/loop/           *)
(* run-work.ts), and the settle window (src/src/loop/settle.ts).           *)
(*                                                                         *)
(* A step is the code between two answers of a seam: a worker's wait, a    *)
(* gate's exec, the isolate seam.  What a seam answers is chosen freely    *)
(* among what that seam can answer; what the ladder does with the answer   *)
(* is the code's.  The node and the run's options are chosen once, in the  *)
(* initial state, so one run of the checker covers several of each.        *)
(***************************************************************************)
EXTENDS Integers, Sequences, FiniteSets

CONSTANTS
    Nodes,          \* the nodes a run may be asked to drive
    Options,        \* the options a run may drive them with
    NoProvider,     \* no auditor declared, no fallback configured
    ProviderWaits   \* core/backoff.ts PROVIDER_WAITS, five in the code

Phases == {"red", "impl", "green"}
Runners == {"umbel", "direct"}
REAUDIT_BUDGET == 2

(* A work list is one prompt, one command, or phases; the first provider is *)
(* a provider; a seal an earlier tree carries is a red phase of the list    *)
(* (sealsRed), or 0 for none.                                               *)
ASSUME RunNodeAssumption ==
    /\ \A n \in Nodes :
          /\ n.work \in {<<"prompt">>, <<"command">>} \cup (Seq(Phases) \ {<<>>})
          /\ n.setup \in BOOLEAN /\ n.smoke \in BOOLEAN
          /\ n.provider # NoProvider
          /\ n.maxAttempts \in Int
          /\ n.onDead \in {"resume", "fail"}
    /\ \A o \in Options :
          o.seal \in Nat /\ o.resumed \in BOOLEAN /\ o.settle \in BOOLEAN /\ o.runner \in Runners
    /\ ProviderWaits \in Nat

VARIABLES
    node, opts,   \* what runNode was called with
    at,           \* the lane it is in
    attempts, cast,
    waits,        \* backoffs taken in this attempt, per cause
    iso,          \* the isolation in hand, or handed back with the result
    trees,        \* worktrees made and not yet disposed of
    tree,         \* what the worktree in hand holds
    redSealedAt,  \* the last red phase sealed, 0 for none
    phase,        \* the phase the worker is in
    worker,       \* the live worker session: none, builder or auditor; lost if nobody holds it
    passed,       \* gates this attempt has passed
    reason,       \* how runWork ended
    reaudits,     \* audits whose egress did not parse
    result,       \* the verdict's status
    signal,       \* the run's AbortSignal has fired
    late,         \* history: workers spawned since it fired
    died          \* history: providers whose worker died

given == <<node, opts>>
ladder == <<attempts, cast, waits>>
treeVars == <<iso, trees, tree, redSealedAt>>
workVars == <<phase, worker, passed, reason, reaudits>>
history == <<signal, late, died>>
vars == <<given, at, ladder, treeVars, workVars, result, history>>

Kind == node.work[1]
Phased == Kind \notin {"prompt", "command"}
Reds == {i \in 1..Len(node.work) : node.work[i] = "red"}
Greens == {i \in 1..Len(node.work) : node.work[i] = "green"}

(* auditDiversityRefusal                                                    *)
Refused(provider) == node.auditor # NoProvider /\ node.auditor = provider

NoTree == [sealed |-> {}, work |-> FALSE, gate |-> FALSE, marker |-> FALSE, blocked |-> FALSE]

Trees == [sealed : SUBSET Reds, work : BOOLEAN, gate : BOOLEAN, marker : BOOLEAN, blocked : BOOLEAN]

(* The tree isolate makes: a quarantine it resumes carries that tree's      *)
(* seals and whatever it said, and a merge may leave markers.               *)
FreshTrees ==
    {t \in Trees : /\ t.sealed = {i \in Reds : i <= opts.seal}
                   /\ ~t.work /\ ~t.gate
                   /\ t.blocked => opts.resumed}

Init ==
    /\ node \in Nodes
    /\ opts \in {o \in Options : o.seal > 0 => o.seal \in Reds /\ o.resumed}
    /\ at = "preflight"
    /\ attempts = 0 /\ cast = node.provider /\ waits = [provider |-> 0, spawn |-> 0]
    /\ iso = FALSE /\ trees = 0 /\ tree = NoTree /\ redSealedAt = 0
    /\ phase = 0 /\ worker = "none" /\ passed = {} /\ reason = "none" /\ reaudits = 0
    /\ result = "none" /\ signal = FALSE /\ late = 0 /\ died = {}

-----------------------------------------------------------------------------
(* How a lane ends                                                          *)

Goto(l) == at' = l /\ UNCHANGED result

Return(status) == at' = "returned" /\ result' = status

(* settleRetryable: the same tree again, or failed.                         *)
Retry == IF attempts < node.maxAttempts THEN Goto("attempt") ELSE Return("failed")

(* settleIfBlocked, then the ladder.                                        *)
UnlessBlocked(Otherwise) == IF tree.blocked THEN Return("blocked") ELSE Otherwise

(* Mutant: the dead provider's tree is dropped, not disposed of.            *)
MutRecastLeaks ==
    /\ cast' = opts.fallback
    /\ iso' = FALSE
    /\ UNCHANGED trees
    /\ Goto("attempt")

(* Another provider takes the next attempt, in a fresh tree.                *)
Recast ==
    /\ cast' = opts.fallback
    /\ iso' = FALSE
    /\ trees' = trees - 1
    /\ Goto("attempt")

MayRecast ==
    /\ node.onDead = "resume"
    /\ attempts < node.maxAttempts
    /\ opts.fallback \notin {NoProvider, cast}

WorkerWrites ==
    \E w, m, b \in BOOLEAN : tree' = [tree EXCEPT !.work = w, !.marker = m, !.blocked = b]

GateWrites == \E g \in {tree.gate, TRUE} : tree' = [tree EXCEPT !.gate = g]

Spawned(role) ==
    /\ worker' = role
    /\ late' = IF signal THEN late + 1 ELSE late

(* No change but the work's has been staged: the diff the scans judge.      *)
Collected == tree.work \/ tree.gate

-----------------------------------------------------------------------------
(* The head of an attempt                                                   *)

Preflight ==
    /\ at = "preflight"
    /\ IF Refused(cast) THEN Return("failed") ELSE Goto("attempt")
    /\ UNCHANGED <<given, ladder, treeVars, workVars, history>>

Attempt ==
    /\ at = "attempt"
    /\ attempts' = attempts + 1
    /\ waits' = [provider |-> 0, spawn |-> 0]
    /\ passed' = {} /\ reaudits' = 0
    /\ Goto(IF iso THEN "setup" ELSE "isolate")
    /\ UNCHANGED <<given, cast, treeVars, phase, worker, reason, history>>

(* Mutant: the seal of the tree just dropped is carried into the new one.   *)
MutIsolateKeepsSeal ==
    /\ at = "isolate"
    /\ redSealedAt' = IF attempts = 1 THEN opts.seal ELSE redSealedAt
    /\ iso' = TRUE
    /\ trees' = trees + 1
    /\ tree' \in FreshTrees
    /\ Goto("setup")
    /\ UNCHANGED <<given, ladder, workVars, history>>

(* A new tree: the seal in force is the one this tree carries.              *)
Isolate ==
    /\ at = "isolate"
    /\ redSealedAt' = opts.seal
    /\ iso' = TRUE
    /\ trees' = trees + 1
    /\ tree' \in FreshTrees
    /\ Goto("setup")
    /\ UNCHANGED <<given, ladder, workVars, history>>

IsolateFails ==
    /\ at = "isolate"
    /\ redSealedAt' = opts.seal
    /\ Return("failed")
    /\ UNCHANGED <<given, ladder, iso, trees, tree, workVars, history>>

(* execGateWithRetry: red once is run again; what a red run wrote is undone, *)
(* what a green one wrote stays. A gate that cannot run ends the node.       *)
Gate(name, next) ==
    \/ GateWrites /\ passed' = passed \cup {name} /\ Goto(next)
    \/ GateWrites /\ UNCHANGED passed /\ Return("failed")
    \/ UNCHANGED <<tree, passed>> /\ Retry

Setup ==
    /\ at = "setup"
    /\ IF node.setup THEN Gate("setup", "spawn") ELSE Goto("spawn") /\ UNCHANGED <<tree, passed>>
    /\ UNCHANGED <<given, ladder, iso, trees, redSealedAt, phase, worker, reason, reaudits, history>>

-----------------------------------------------------------------------------
(* Spawning                                                                 *)

NoWorker ==
    /\ at = "spawn" /\ Kind = "command"
    /\ Goto("exec")
    /\ UNCHANGED <<given, ladder, treeVars, workVars, history>>

Spawn ==
    /\ at = "spawn" /\ Kind # "command"
    /\ Spawned("builder")
    /\ Goto("spawned")
    /\ UNCHANGED <<given, ladder, treeVars, phase, passed, reason, reaudits, signal, died>>

(* Exit 126: the provider wants a sign-in. settleSpawnRefusal recasts or    *)
(* blocks; a fallback the audit refuses blocks too.                         *)
SpawnRefused ==
    /\ at = "spawn" /\ Kind # "command"
    /\ IF MayRecast /\ ~Refused(opts.fallback)
       THEN Recast
       ELSE Return("blocked") /\ UNCHANGED <<cast, iso, trees>>
    /\ UNCHANGED <<given, attempts, waits, tree, redSealedAt, workVars, history>>

SpawnFails ==
    /\ at = "spawn" /\ Kind # "command"
    /\ IF waits.spawn < ProviderWaits
       THEN waits' = [waits EXCEPT !.spawn = @ + 1] /\ Goto("backoff")
       ELSE Return("failed") /\ UNCHANGED waits
    /\ UNCHANGED <<given, attempts, cast, treeVars, workVars, history>>

(* sleepInterrupted: an abort ends the wait and the node with it.           *)
Backoff ==
    /\ at = "backoff"
    /\ IF signal THEN Return("aborted") ELSE Goto("spawn")
    /\ UNCHANGED <<given, ladder, treeVars, workVars, history>>

(* The session is journaled and the first prompt sent: a phased list is     *)
(* entered after the last seal, and a list with nothing left is a surprise. *)
Begin ==
    /\ at = "spawned"
    /\ IF redSealedAt < Len(node.work)
       THEN phase' = redSealedAt + 1 /\ Goto("wait") /\ UNCHANGED worker
       ELSE worker' = "none" /\ Return("failed") /\ UNCHANGED phase
    /\ UNCHANGED <<given, ladder, treeVars, passed, reason, reaudits, history>>

(* The append that names the session is refused, outside the block that     *)
(* kills it: nobody holds the session any more.                             *)
SpawnUnnamed ==
    /\ at \in {"spawned", "auditing"}
    /\ worker' = "lost"
    /\ Return("failed")
    /\ UNCHANGED <<given, ladder, treeVars, phase, passed, reason, reaudits, history>>

-----------------------------------------------------------------------------
(* The work                                                                 *)

(* Mutant: the wait is not given the signal.                                *)
MutWaitReasonsDeaf == {"stop", "provider-error", "timeout", "dead", "idle", "other"}

(* The reasons a wait may end with. umbel's adapter answers aborted whenever *)
(* the signal has fired; the direct CLI is killed by it and reads as dead.   *)
WaitReasons ==
    IF opts.runner = "umbel"
    THEN IF signal THEN {"aborted"}
         ELSE {"stop", "provider-error", "timeout", "dead", "idle", "other"}
    ELSE {"stop", "timeout", "dead"}

(* Mutant: the worker is not killed when its work has ended.                *)
MutEndWorkNoKill(r) ==
    /\ reason' = r
    /\ Goto("ended")
    /\ UNCHANGED <<phase, worker>>

(* runWork returns, and runNode kills the worker.                           *)
EndWork(r) ==
    /\ reason' = r
    /\ worker' = "none"
    /\ Goto("ended")
    /\ UNCHANGED phase

(* The next prompt goes to the same worker; the direct CLI takes only one.  *)
NextPhase ==
    IF phase = Len(node.work)
    THEN EndWork("stop")
    ELSE /\ IF opts.runner = "umbel"
            THEN phase' = phase + 1 /\ Goto("wait") /\ UNCHANGED worker
            ELSE worker' = "none" /\ Return("failed") /\ UNCHANGED phase
         /\ UNCHANGED reason

(* A gate inside the work is red: the worker is killed, and the tree is     *)
(* handed back if it says it is blocked, else kept for the next attempt.    *)
GateFails ==
    /\ worker' = "none"
    /\ UnlessBlocked(Retry)
    /\ UNCHANGED <<phase, reason>>

CannotRun ==
    /\ GateWrites
    /\ worker' = "none"
    /\ Return("failed")
    /\ UNCHANGED <<phase, reason>>

Command ==
    /\ at = "exec"
    /\ WorkerWrites
    /\ \/ EndWork("stop")
       \/ signal /\ EndWork("aborted")
       \/ ~signal /\ worker' = worker /\ Return("failed") /\ UNCHANGED <<phase, reason>>
       \/ /\ ~signal
          /\ IF tree'.blocked THEN Return("blocked") ELSE Retry
          /\ UNCHANGED <<phase, worker, reason>>
    /\ UNCHANGED <<given, ladder, iso, trees, redSealedAt, passed, reaudits, history>>

(* Mutant: only a green phase meets its gate.                               *)
MutTurnRedUngated ==
    /\ at = "wait"
    /\ WorkerWrites
    /\ passed' = passed \ {"green"}
    /\ \E r \in WaitReasons :
          IF r = "stop" /\ Phased /\ ~tree'.blocked
          THEN IF node.work[phase] # "green"
               THEN NextPhase
               ELSE Goto("settlePhase") /\ UNCHANGED <<phase, worker, reason>>
          ELSE EndWork(r)
    /\ UNCHANGED <<given, ladder, iso, trees, redSealedAt, reaudits, history>>

(* A turn: a phase that stopped, and wrote no BLOCKED.md, meets its gate.   *)
Turn ==
    /\ at = "wait"
    /\ WorkerWrites
    /\ passed' = passed \ {"green"}
    /\ \E r \in WaitReasons :
          IF r = "stop" /\ Phased /\ ~tree'.blocked
          THEN IF node.work[phase] = "impl"
               THEN NextPhase
               ELSE Goto("settlePhase") /\ UNCHANGED <<phase, worker, reason>>
          ELSE EndWork(r)
    /\ UNCHANGED <<given, ladder, iso, trees, redSealedAt, reaudits, history>>

(* settleWorkingTree: the tree stands still, or it never does, or the abort *)
(* cuts the window; a window of zero asks nothing.                          *)
SettlePhase ==
    /\ at = "settlePhase"
    /\ \/ (~opts.settle \/ ~signal) /\ Goto("gate") /\ UNCHANGED <<phase, worker, reason>>
       \/ opts.settle /\ ~signal /\ GateFails
       \/ opts.settle /\ signal /\ EndWork("aborted")
    /\ UNCHANGED <<given, ladder, treeVars, passed, reaudits, history>>

(* The test command over a red phase: it must fail. What it wrote stays     *)
(* when it does, and is undone when it does not.                            *)
RedGate ==
    /\ at = "gate" /\ node.work[phase] = "red"
    /\ \/ GateWrites /\ Goto("seal") /\ UNCHANGED <<phase, worker, reason>>
       \/ CannotRun
       \/ GateFails /\ UNCHANGED tree
    /\ UNCHANGED <<given, ladder, iso, trees, redSealedAt, passed, reaudits, history>>

GreenGate ==
    /\ at = "gate" /\ node.work[phase] = "green"
    /\ \/ GateWrites /\ passed' = passed \cup {"green"} /\ NextPhase
       \/ CannotRun /\ UNCHANGED passed
       \/ GateFails /\ UNCHANGED <<tree, passed>>
    /\ UNCHANGED <<given, ladder, iso, trees, redSealedAt, reaudits, history>>

(* sealRedPhase: an empty seal, a marker and a scan's refusal are gate      *)
(* failures; else everything collected is committed on the detached HEAD.   *)
SealCommit ==
    /\ Collected /\ ~tree.marker
    /\ tree' = [tree EXCEPT !.sealed = @ \cup {phase}, !.work = FALSE, !.gate = FALSE]

(* Mutant: the seal is recorded one phase too far.                          *)
MutSealOffByOne ==
    /\ at = "seal"
    /\ \/ SealCommit /\ redSealedAt' = phase + 1 /\ NextPhase
       \/ GateFails /\ UNCHANGED <<tree, redSealedAt>>
    /\ UNCHANGED <<given, ladder, iso, trees, passed, reaudits, history>>

Seal ==
    /\ at = "seal"
    /\ \/ SealCommit /\ redSealedAt' = phase /\ NextPhase
       \/ GateFails /\ UNCHANGED <<tree, redSealedAt>>
    /\ UNCHANGED <<given, ladder, iso, trees, passed, reaudits, history>>

(* The commit is made and its journal line is refused.                      *)
SealUnnamed ==
    /\ at = "seal"
    /\ SealCommit
    /\ worker' = "none"
    /\ Return("failed")
    /\ UNCHANGED <<given, ladder, iso, trees, redSealedAt, phase, passed, reason, reaudits, history>>

-----------------------------------------------------------------------------
(* How the work ended                                                       *)

(* Mutant: the re-runs are not counted.                                     *)
MutRerunForever ==
    /\ at = "ended" /\ reason = "provider-error"
    /\ Goto("backoff")
    /\ UNCHANGED <<given, ladder, treeVars, workVars, history>>

(* A provider error re-runs the work in the same attempt and the same tree. *)
Rerun ==
    /\ at = "ended" /\ reason = "provider-error" /\ waits.provider < ProviderWaits
    /\ waits' = [waits EXCEPT !.provider = @ + 1]
    /\ Goto("backoff")
    /\ UNCHANGED <<given, attempts, cast, treeVars, workVars, history>>

Stopped ==
    /\ at = "ended" /\ reason = "stop"
    /\ UnlessBlocked(Goto(IF Kind = "prompt" THEN "settle" ELSE "marker"))
    /\ UNCHANGED <<given, ladder, treeVars, workVars, history>>

WorkerDied ==
    /\ at = "ended" /\ reason = "dead"
    /\ died' = died \cup {cast}
    /\ IF MayRecast /\ ~Refused(opts.fallback)
       THEN Recast
       ELSE /\ Return(IF MayRecast THEN "failed" ELSE "dead")
            /\ UNCHANGED <<cast, iso, trees>>
    /\ UNCHANGED <<given, attempts, waits, tree, redSealedAt, workVars, signal, late>>

Cut ==
    /\ at = "ended" /\ reason = "aborted"
    /\ Return("aborted")
    /\ UNCHANGED <<given, ladder, treeVars, workVars, history>>

EndedOtherwise ==
    /\ at = "ended"
    /\ \/ reason = "provider-error" /\ waits.provider >= ProviderWaits /\ UnlessBlocked(Retry)
       \/ reason = "timeout" /\ UnlessBlocked(Retry)
       \/ reason = "idle" /\ Return("blocked")
       \/ reason = "other" /\ UnlessBlocked(Return("failed"))
    /\ UNCHANGED <<given, ladder, treeVars, workVars, history>>

-----------------------------------------------------------------------------
(* The gates after the work                                                 *)

Settle ==
    /\ at = "settle"
    /\ \/ (~opts.settle \/ ~signal) /\ Goto("marker")
       \/ opts.settle /\ ~signal /\ Retry
       \/ opts.settle /\ signal /\ Return("aborted")
    /\ UNCHANGED <<given, ladder, treeVars, workVars, history>>

Marker ==
    /\ at = "marker"
    /\ IF tree.marker THEN Retry /\ UNCHANGED passed
       ELSE Goto("hygiene") /\ passed' = passed \cup {"marker"}
    /\ UNCHANGED <<given, ladder, treeVars, phase, worker, reason, reaudits, history>>

(* Staged first. An agent's empty diff is refused, a command's is not.      *)
Hygiene ==
    /\ at = "hygiene"
    /\ \/ /\ Collected \/ Kind = "command"
          /\ Goto("smoke")
          /\ passed' = passed \cup {"hygiene"}
       \/ Retry /\ UNCHANGED passed
    /\ UNCHANGED <<given, ladder, treeVars, phase, worker, reason, reaudits, history>>

Smoke ==
    /\ at = "smoke"
    /\ IF node.smoke THEN Gate("smoke", "audit") ELSE Goto("audit") /\ UNCHANGED <<tree, passed>>
    /\ UNCHANGED <<given, ladder, iso, trees, redSealedAt, phase, worker, reason, reaudits, history>>

NoAudit ==
    /\ at = "audit" /\ node.auditor = NoProvider
    /\ Return("done")
    /\ UNCHANGED <<given, ladder, treeVars, workVars, history>>

(* The builder changed the gate's own files.                                *)
Tampered ==
    /\ at = "audit" /\ node.auditor # NoProvider /\ reaudits = 0
    /\ Retry
    /\ UNCHANGED <<given, ladder, treeVars, workVars, history>>

SpawnAuditor ==
    /\ at = "audit" /\ node.auditor # NoProvider
    /\ Spawned("auditor")
    /\ Goto("auditing")
    /\ UNCHANGED <<given, ladder, treeVars, phase, passed, reason, reaudits, signal, died>>

(* runAudit: a verdict, an egress that does not parse (asked once more), or *)
(* an auditor that did not finish.                                          *)
Auditing ==
    /\ at = "auditing"
    /\ worker' = "none"
    /\ \E r \in WaitReasons :
          \/ r = "stop" /\ Return("done") /\ passed' = passed \cup {"audit"} /\ UNCHANGED reaudits
          \/ r = "stop" /\ Retry /\ UNCHANGED <<passed, reaudits>>
          \/ /\ r = "stop"
             /\ reaudits' = reaudits + 1
             /\ IF reaudits' < REAUDIT_BUDGET THEN Goto("audit") ELSE Return("failed")
             /\ UNCHANGED passed
          \/ /\ r # "stop"
             /\ Return(IF r = "aborted" THEN "aborted" ELSE "failed")
             /\ UNCHANGED <<passed, reaudits>>
    /\ UNCHANGED <<given, ladder, treeVars, phase, reason, history>>

-----------------------------------------------------------------------------
(* Any seam may throw: the lane is recorded, the worker killed, the tree    *)
(* handed back with a failed verdict.                                       *)
Surprise ==
    /\ at \notin {"preflight", "isolate", "returned"}
    /\ worker' = "none"
    /\ Return("failed")
    /\ UNCHANGED <<given, ladder, treeVars, phase, passed, reason, reaudits, history>>

(* `pleach stop --now`, or the terminal's interrupt.                        *)
Interrupt ==
    /\ ~signal /\ result = "none"
    /\ signal' = TRUE
    /\ UNCHANGED <<given, at, ladder, treeVars, workVars, result, late, died>>

Step ==
    \/ Preflight \/ Attempt \/ Isolate \/ IsolateFails \/ Setup
    \/ NoWorker \/ Spawn \/ SpawnRefused \/ SpawnFails \/ Backoff \/ Begin \/ SpawnUnnamed
    \/ Command \/ Turn \/ SettlePhase \/ RedGate \/ GreenGate \/ Seal \/ SealUnnamed
    \/ Rerun \/ Stopped \/ WorkerDied \/ Cut \/ EndedOtherwise
    \/ Settle \/ Marker \/ Hygiene \/ Smoke
    \/ NoAudit \/ Tampered \/ SpawnAuditor \/ Auditing \/ Surprise

Next == Step \/ Interrupt

Spec == Init /\ [][Next]_vars

(* Every seam answers: a worker's wait is bounded by the attempt clock, an  *)
(* exec by its timeout, a backoff by its sleep.                             *)
FairSpec == Spec /\ WF_vars(Step)

-----------------------------------------------------------------------------
(* Properties                                                               *)

(* The shape of every variable; the seal names a red phase of the list.     *)
TypeOK ==
    /\ node \in Nodes /\ opts \in Options
    /\ at \in {"preflight", "attempt", "isolate", "setup", "spawn", "backoff", "spawned", "exec",
               "wait", "settlePhase", "gate", "seal", "ended", "settle", "marker", "hygiene",
               "smoke", "audit", "auditing", "returned"}
    /\ attempts \in Nat
    /\ cast \in {node.provider, opts.fallback}
    /\ waits \in [{"provider", "spawn"} -> 0..ProviderWaits]
    /\ iso \in BOOLEAN /\ trees \in Int
    /\ tree \in Trees
    /\ redSealedAt \in {0} \cup Reds
    /\ phase \in 0..Len(node.work)
    /\ worker \in {"none", "builder", "auditor", "lost"}
    /\ passed \subseteq {"setup", "green", "marker", "hygiene", "smoke", "audit"}
    /\ reason \in {"none", "stop", "provider-error", "timeout", "dead", "idle", "other", "aborted"}
    /\ reaudits \in 0..REAUDIT_BUDGET
    /\ result \in {"none", "done", "failed", "dead", "blocked", "aborted"}
    /\ signal \in BOOLEAN /\ late \in Nat
    /\ died \subseteq {node.provider, opts.fallback}

(* The gates a node's plan entry declares.                                  *)
Declared ==
    {"marker", "hygiene"}
        \cup (IF node.setup THEN {"setup"} ELSE {})
        \cup (IF node.work[Len(node.work)] = "green" THEN {"green"} ELSE {})
        \cup (IF node.smoke THEN {"smoke"} ELSE {})
        \cup (IF node.auditor # NoProvider THEN {"audit"} ELSE {})

(* A node is done only when its last attempt passed every gate it declares, *)
(* the green one after the worker's last turn, over a tree in hand that     *)
(* holds a seal for each red phase: no retry, resume or recast skips a      *)
(* rung.  Only the run's own signal makes an outcome aborted.               *)
OutcomesAreEarned ==
    /\ result = "done" => iso /\ Declared \subseteq passed /\ Reds \subseteq tree.sealed
    /\ result = "aborted" => signal

(* What redSealedAt says is what the tree in hand holds, across retries in  *)
(* the same tree and recasts into a new one: a phase is never skipped over  *)
(* a tree that has not sealed it, nor sealed twice.                         *)
SealsBelongToTree == iso /\ result = "none" => \A i \in Reds : i \in tree.sealed <=> i <= redSealedAt

(* No worktree is made while another is held, and none is forgotten: what   *)
(* is on disk is what is handed back.                                       *)
TreeAccounted == trees = IF iso THEN 1 ELSE 0

(* Retries, recasts and refused seals together never spend more attempts    *)
(* than the policy grants (the first is always made).                       *)
AttemptsBounded == attempts <= IF node.maxAttempts > 1 THEN node.maxAttempts ELSE 1

(* Whoever builds is never the provider that audits, nor one whose worker   *)
(* already died on this node, after any number of recasts.                  *)
CastIsEligible == worker = "builder" => ~Refused(cast) /\ cast \notin died

(* An abort under umbel: a node spawns at most the one worker it was about  *)
(* to, builder or auditor, and that one is cut.                             *)
AtMostOneSpawnAfterAbort == opts.runner = "umbel" => late <= 1

(* A node that has settled has left no worker running, but for a session    *)
(* whose own journal line was refused; and no lane begins a worker while an *)
(* earlier one of this node lives.                                          *)
NoWorkerOutlivesNode ==
    /\ result # "none" => worker \in {"none", "lost"}
    /\ at \in {"spawn", "audit"} => worker = "none"

(* Every node settles: retries, backoffs, reaudits and recasts run out.     *)
NodeSettles == <>(at = "returned")

(* docs/guarantees.md, "An interrupted node settles `aborted` ... never     *)
(* counted as a failure": a wait cut by the signal does not read as a death. *)
InterruptIsNotDeath == [][at = "wait" /\ signal => reason' # "dead" \/ reason = "dead"]_vars
=============================================================================
