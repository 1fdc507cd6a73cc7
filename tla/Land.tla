-------------------------------- MODULE Land --------------------------------
(***************************************************************************)
(* One landing: landPlan (src/src/loop/land.ts) over the stack that        *)
(* landStack (src/src/seams/isolate.ts) builds and publishes.              *)
(*                                                                         *)
(* A commit is the set of changes it contains, so an ancestor is a subset: *)
(* a node is the change its branch adds, Edit a commit of the operator's.  *)
(* A gate's answer is a fact about the tree it runs on (truth), but for    *)
(* the flakes; setups, hooks and the disposal of a worktree fail freely.   *)
(* The landing holds a lock of its own (RunLock), not the run's: while it  *)
(* works the operator may commit or check out another branch, and a run    *)
(* may move a node's branch.                                               *)
(***************************************************************************)
EXTENDS Naturals, Sequences, FiniteSets, SequencesExt

CONSTANTS
    Order,        \* the plan's nodes, in plan order
    Needs,        \* the nodes each needs
    Branch,       \* the branches of the operator's repository
    Edit,         \* the commit an operator adds
    None,         \* no command, no branch, no tree
    Unrunnable,   \* commands the no-shell guard refuses
    Landings,     \* what a landing may be asked, and over what
    Flakes, Moves \* bounds: wrong answers of a gate, moves of other actors

Node == ToSet(Order)

(* A landing's gate command is red on a tree that has all of some r.has and *)
(* nothing of its r.lacks; two changes of a clash do not merge; sha says    *)
(* whether the ledger records commits.                                      *)
ASSUME LandAssumption ==
    /\ Order \in Seq(Node) /\ Needs \in [Node -> SUBSET Node]
    /\ Edit \notin Node /\ \A tree \in SUBSET (Node \cup {Edit}) : tree # None
    /\ \A l \in Landings :
          /\ l.named \in Seq(Node) \/ l.named = None
          /\ l.head \in Branch \cup {"detached"}
          /\ l.closed \subseteq Node /\ l.base \subseteq Node /\ l.sha \in BOOLEAN
          /\ l.gates \in Seq(DOMAIN l.truth) /\ l.smoke \in [Node -> DOMAIN l.truth \cup {None}]
          /\ \A c \in DOMAIN l.truth : \A r \in l.truth[c] : r.has \cup r.lacks \subseteq Node \cup {Edit}
          /\ \A p \in l.clash : p \subseteq Node \cup {Edit} /\ Cardinality(p) = 2
    /\ Flakes \in Nat /\ Moves \in Nat

VARIABLES
    landing,                       \* what this landing was asked, and over what
    head, tip,                     \* the checkout: its branch, and every branch's commit
    ref,                           \* node/<id>
    bySha,                         \* sinks resolved to the commit the ledger recorded
    at, purpose,                   \* the step of landPlan, and what its stack is for
    stack,                         \* the landing's stack and the probe's
    retried,                       \* the command the retry is for
    goals, knownGood, culprits,    \* the bisect: its work list, its context, its answer
    raised,                        \* how the landing ends, on its way through the finallys
    pins,                          \* refs/pleach/rebuild/<id>
    moves, flakes,                 \* history
    worktrees,                     \* history: worktrees made and not removed
    published                      \* history: the stack that was published

repo == <<head, tip, ref, moves>>
bisection == <<goals, knownGood, culprits>>
trees == <<stack, worktrees>>
vars == <<landing, repo, bySha, at, purpose, trees, retried, bisection, raised, pins, flakes, published>>

Detached == "detached"
NoStack == [worktree |-> "none"]
NotRaised == [kind |-> "none"]

-----------------------------------------------------------------------------
(* The plan's questions                                                     *)

(* Everything a set of nodes stands on, itself included.                    *)
Ancestors(S) ==
    LET up[i \in 0..Len(Order)] == IF i = 0 THEN S ELSE up[i - 1] \cup UNION {Needs[n] : n \in up[i - 1]}
    IN up[Len(Order)]

(* Filters of a list, as functions over its prefixes: what SelectSeq and    *)
(* FoldLeft compute cannot be proved.                                       *)
Without(s, dropped) ==
    LET kept[i \in 0..Len(s)] ==
            IF i = 0 THEN <<>> ELSE IF s[i] \in dropped THEN kept[i - 1] ELSE Append(kept[i - 1], s[i])
    IN kept[Len(s)]

(* First occurrences only: a JavaScript Set, or a Map of commands.          *)
Dedupe(s) ==
    LET kept[i \in 0..Len(s)] ==
            IF i = 0 THEN <<>> ELSE IF s[i] \in ToSet(kept[i - 1]) THEN kept[i - 1] ELSE Append(kept[i - 1], s[i])
    IN kept[Len(s)]

SinkIds == Without(Order, UNION {Needs[m] : m \in Node})

Sinks == IF landing.named = None THEN SinkIds ELSE Dedupe(landing.named)
(* Mutant: a subset lands what is verified of it instead of refusing.       *)
MutScope == IF landing.named = None THEN Node ELSE {}

Scope == IF landing.named = None THEN Node ELSE ToSet(Sinks)


(* seedClosure: a closed node's commit contains what it stands on.          *)
SeedClosure(C) == Ancestors(C)

Commands(field, ids) == Dedupe(Without([i \in 1..Len(ids) |-> landing[field][ids[i]]], {None}))
Gate == Commands("smoke", Sinks)
SetupsFor(ids) == Commands("setup", ids)

Init ==
    /\ landing \in Landings
    /\ head = landing.head
    /\ tip = [b \in Branch \cup {Detached} |-> landing.base]
    /\ ref = [n \in Node |-> Ancestors({n})]
    /\ bySha = {} /\ at = "start" /\ purpose = "land" /\ stack = [k \in {"land", "probe"} |-> NoStack]
    /\ retried = None /\ goals = <<>> /\ knownGood = <<>> /\ culprits = {}
    /\ raised = NotRaised /\ pins = [n \in Node |-> None]
    /\ moves = 0 /\ flakes = 0 /\ worktrees = 0 /\ published = NoStack

-----------------------------------------------------------------------------
(* Everyone else                                                            *)

Elsewhere ==
    /\ at # "ended" /\ moves < Moves /\ moves' = moves + 1
    /\ UNCHANGED <<landing, bySha, at, purpose, trees, retried, bisection, raised, pins, flakes, published>>

OperatorCommits ==
    /\ Elsewhere
    /\ tip' = [tip EXCEPT ![head] = @ \cup {Edit}]
    /\ UNCHANGED <<head, ref>>

OperatorChecksOut(b) ==
    /\ Elsewhere
    /\ b # head /\ head' = b
    /\ tip' = IF b = Detached THEN [tip EXCEPT ![b] = tip[head]] ELSE tip
    /\ UNCHANGED ref

(* A run that rebuilds a node moves its branch; the operator may delete it. *)
NodeBranchMoves(n) ==
    /\ Elsewhere /\ ref[n] # None
    /\ ref' \in {[ref EXCEPT ![n] = None], [ref EXCEPT ![n] = @ \cup {Edit}]}
    /\ ref' # ref
    /\ UNCHANGED <<head, tip>>

-----------------------------------------------------------------------------
(* Ways on and out                                                          *)

Goto(step) == at' = step /\ UNCHANGED raised

(* A throw runs every finally it crosses.                                   *)
Throw(e) == at' = "unwind" /\ raised' = e
Raise(kind) == Throw([kind |-> kind])

Inside == UNCHANGED <<landing, repo, pins>>

-----------------------------------------------------------------------------
(* Before anything is built                                                 *)

RefuseUnrunnableGates ==
    /\ at = "start"
    /\ \E i \in DOMAIN landing.gates : landing.gates[i] \in Unrunnable
    /\ Raise("blocked")
    /\ Inside /\ UNCHANGED <<bySha, purpose, trees, retried, bisection, flakes, published>>

ReadClosed ==
    /\ at = "start"
    /\ \A i \in DOMAIN landing.gates : landing.gates[i] \notin Unrunnable
    /\ IF Scope \subseteq SeedClosure(landing.closed) THEN Goto("resolve") ELSE Raise("blocked")
    /\ Inside /\ UNCHANGED <<bySha, purpose, trees, retried, bisection, flakes, published>>

(* resolveBaseRef: the branch when it is what the ledger recorded, and when *)
(* it is gone the recorded commit, if git still has it.                     *)
Recorded(n) == n \in landing.closed /\ landing.sha
BranchServes(n) == ref[n] # None /\ (Recorded(n) => ref[n] = Ancestors({n}))

ResolveRefs ==
    /\ at = "resolve"
    /\ \E kept \in SUBSET {n \in ToSet(Sinks) : ref[n] = None /\ Recorded(n)} :
          IF \A n \in ToSet(Sinks) : n \in kept \/ BranchServes(n)
          THEN bySha' = kept /\ Goto("build")
          ELSE UNCHANGED bySha /\ Raise("rebuild")
    /\ Inside /\ UNCHANGED <<purpose, trees, retried, bisection, flakes, published>>

-----------------------------------------------------------------------------
(* A stack: built, provisioned, gated.  Every stack of a landing goes       *)
(* through these steps, the probes of the bisect included.                  *)

(* Mutant: the middle one too far right.                                    *)
MutHalf(cands) == (Len(cands) + 2) \div 2

Half(cands) == (Len(cands) + 1) \div 2
Left(cands) == SubSeq(cands, 1, Half(cands))
Right(cands) == SubSeq(cands, Half(cands) + 1, Len(cands))

Good == Without(Sinks, culprits)

Stacked ==
    CASE purpose = "land" -> Sinks
      [] purpose = "left" -> knownGood \o Left(Head(goals).cands)
      [] purpose = "right" -> knownGood \o Head(goals).cands
      [] purpose = "recheck" -> Good

Kind == IF purpose = "land" THEN "land" ELSE "probe"
Here == stack[Kind]
HereBecomes(r) == stack' = [stack EXCEPT ![Kind] = r]

(* Mutant: a red stack's worktree is forgotten.                             *)
MutDispose(k) ==
    /\ stack' = [stack EXCEPT ![k] = NoStack]
    /\ worktrees' = IF stack[k].red THEN worktrees ELSE worktrees - 1

(* A stack's dispose: its worktree removed, or not to be removed.           *)
Dispose(k) == stack' = [stack EXCEPT ![k] = NoStack] /\ worktrees' = worktrees - 1
LoseStack(k) == stack' = [stack EXCEPT ![k].worktree = "lost"] /\ UNCHANGED worktrees

(* landStack, up to the worktree at the branch's tip.                       *)
OpenStack ==
    /\ at = "build"
    /\ \/ head = Detached /\ Raise("blocked") /\ UNCHANGED stack
       \/ head # Detached /\ Raise("catastrophic") /\ UNCHANGED stack
       \/ /\ head # Detached /\ Goto("merge")
          /\ HereBecomes([worktree |-> "live", tree |-> tip[head], todo |-> Stacked, conflicts |-> {},
                          setups |-> IF purpose = "land" /\ Gate = <<>> /\ landing.gates = <<>> THEN <<>>
                                     ELSE SetupsFor(Stacked),
                          gate |-> Gate, asks |-> landing.gates, green |-> {}, red |-> FALSE])
    /\ worktrees' = IF at' = "merge" THEN worktrees + 1 ELSE worktrees
    /\ Inside /\ UNCHANGED <<bySha, purpose, retried, goals, knownGood, culprits, flakes, published>>

OnStack == Inside /\ UNCHANGED <<bySha, purpose, bisection, published, worktrees>>

CommitOf(n) == IF n \in bySha THEN Ancestors({n}) ELSE ref[n]

Conflicts(c, tree) == \E p \in landing.clash : p \cap (c \ tree) # {} /\ p \cap (tree \ c) # {}

(* A conflicting merge is aborted and the next ref is merged; a hook may    *)
(* refuse a merge that makes a commit.                                      *)
MergeNext ==
    /\ at = "merge" /\ Here.todo # <<>>
    /\ LET n == Head(Here.todo)
           commit == CommitOf(n)
           rest == Tail(Here.todo)
       IN \/ commit = None /\ Raise("catastrophic") /\ UNCHANGED stack
          \/ /\ commit # None /\ Conflicts(commit, Here.tree) /\ Goto("merge")
             /\ HereBecomes([Here EXCEPT !.todo = rest, !.conflicts = @ \cup {n}])
          \/ /\ commit # None /\ ~Conflicts(commit, Here.tree) /\ Goto("merge")
             /\ HereBecomes([Here EXCEPT !.todo = rest, !.tree = @ \cup commit])
          \/ /\ commit # None /\ ~Conflicts(commit, Here.tree)
             /\ ~(commit \subseteq Here.tree) /\ ~(Here.tree \subseteq commit)
             /\ Raise("refused") /\ UNCHANGED stack
    /\ OnStack /\ UNCHANGED <<retried, flakes>>

(* Mutant: the first conflict ends the stack.                               *)
MutMergesDone ==
    /\ at = "merge" /\ (Here.todo = <<>> \/ Here.conflicts # {})
    /\ IF Here.conflicts = {} THEN Goto("provision")
       ELSE Throw([kind |-> "conflict", stack |-> Here.tree, sinks |-> Here.conflicts])
    /\ OnStack /\ UNCHANGED <<trees, retried, flakes>>

MergesDone ==
    /\ at = "merge" /\ Here.todo = <<>>
    /\ IF Here.conflicts = {} THEN Goto("provision")
       ELSE Throw([kind |-> "conflict", stack |-> Here.tree, sinks |-> Here.conflicts])
    /\ OnStack /\ UNCHANGED <<trees, retried, flakes>>

(* provisionOrRefuse: a red setup is the environment's, never a culprit's.  *)
Provision ==
    /\ at = "provision"
    /\ \/ Here.setups = <<>> /\ Goto("gate") /\ UNCHANGED stack
       \/ /\ Here.setups # <<>> /\ Goto("provision")
          /\ HereBecomes([Here EXCEPT !.setups = Tail(@)])
       \/ Here.setups # <<>> /\ Raise("blocked") /\ UNCHANGED stack
    /\ OnStack /\ UNCHANGED <<retried, flakes>>

Red(c, tree) == \E r \in landing.truth[c] : r.has \subseteq tree /\ r.lacks \cap tree = {}

(* What running a gate command answers; a flake is a wrong answer.          *)
Answers(c, red) ==
    \/ red = Red(c, Here.tree) /\ UNCHANGED flakes
    \/ red # Red(c, Here.tree) /\ flakes < Flakes /\ flakes' = flakes + 1

RunGate ==
    /\ at = "gate" /\ Here.gate # <<>>
    /\ LET cmd == Head(Here.gate)
       IN \/ /\ Answers(cmd, FALSE) /\ Goto("gate") /\ UNCHANGED retried
             /\ HereBecomes([Here EXCEPT !.gate = Tail(@), !.green = @ \cup {cmd}])
          \/ /\ Answers(cmd, TRUE) /\ purpose = "land"
             /\ retried' = cmd /\ Goto("retry") /\ UNCHANGED stack
          \/ /\ Answers(cmd, TRUE) /\ purpose # "land" /\ Goto("probed")
             /\ HereBecomes([Here EXCEPT !.red = TRUE]) /\ UNCHANGED retried
    /\ OnStack

GateGreen ==
    /\ at = "gate" /\ Here.gate = <<>>
    /\ Goto(IF purpose = "land" THEN "asks" ELSE "probed")
    /\ OnStack /\ UNCHANGED <<trees, retried, flakes>>

-----------------------------------------------------------------------------
(* The landing's own gates, and its publication                             *)

(* One retry, of the failing command alone.                                 *)
RetryGreen ==
    /\ at = "retry" /\ Answers(retried, FALSE)
    /\ HereBecomes([Here EXCEPT !.green = @ \cup {retried}])
    /\ Goto("asks")
    /\ OnStack /\ UNCHANGED retried

RetryRed ==
    /\ at = "retry" /\ Answers(retried, TRUE)
    /\ IF Len(Sinks) = 1
       THEN culprits' = ToSet(Sinks) /\ UNCHANGED goals /\ Raise("culprits")
       ELSE /\ goals' = <<[job |-> "halve", cands |-> Sinks]>>
            /\ UNCHANGED culprits /\ Goto("bisect")
    /\ Inside /\ UNCHANGED <<bySha, purpose, trees, retried, knownGood, published>>

(* Mutant: an operator's gate is retried like a smoke.                      *)
MutRunLandGate ==
    /\ at = "asks" /\ Here.asks # <<>>
    /\ HereBecomes([Here EXCEPT !.asks = Tail(@)])
    /\ Goto("asks")
    /\ OnStack /\ UNCHANGED <<retried, flakes>>

(* runLandGates: red is the answer.                                         *)
RunLandGate ==
    /\ at = "asks" /\ Here.asks # <<>>
    /\ LET cmd == Head(Here.asks)
       IN \/ /\ Answers(cmd, FALSE) /\ Goto("asks")
             /\ HereBecomes([Here EXCEPT !.asks = Tail(@), !.green = @ \cup {cmd}])
          \/ Answers(cmd, TRUE) /\ Raise("blocked") /\ UNCHANGED stack
    /\ OnStack /\ UNCHANGED retried

(* Mutant: a merge where only a fast-forward may publish.                   *)
MutPublishMerges ==
    /\ at = "asks" /\ Here.asks = <<>>
    /\ tip' = [tip EXCEPT ![head] = @ \cup Here.tree]
    /\ published' = Here /\ Raise("landed")
    /\ UNCHANGED <<landing, head, ref, moves, bySha, purpose, trees, retried, bisection, pins, flakes>>

(* publish: merge --ff-only in the checkout, onto whatever it has checked   *)
(* out by now.  Uncommitted changes in the way refuse it too.               *)
Publish ==
    /\ at = "asks" /\ Here.asks = <<>>
    /\ \/ /\ tip[head] \subseteq Here.tree \/ Here.tree \subseteq tip[head]
          /\ tip' = [tip EXCEPT ![head] = @ \cup Here.tree]
          /\ published' = Here /\ Raise("landed")
       \/ Raise("blocked") /\ UNCHANGED <<tip, published>>
    /\ UNCHANGED <<landing, head, ref, moves, bySha, purpose, trees, retried, bisection, pins, flakes>>

-----------------------------------------------------------------------------
(* refuseWithDiagnosis: the bisect, its recursion as a work list            *)

Blame ==
    /\ at = "bisect" /\ goals # <<>>
    /\ Head(goals).job = "halve" /\ Len(Head(goals).cands) = 1
    /\ culprits' = culprits \cup ToSet(Head(goals).cands)
    /\ goals' = Tail(goals)
    /\ Goto("bisect")
    /\ Inside /\ UNCHANGED <<bySha, purpose, trees, retried, knownGood, flakes, published>>

Probe ==
    /\ at = "bisect" /\ goals # <<>>
    /\ Head(goals).job = "rest" \/ Len(Head(goals).cands) > 1
    /\ purpose' = IF Head(goals).job = "halve" THEN "left" ELSE "right"
    /\ Goto("build")
    /\ Inside /\ UNCHANGED <<bySha, trees, retried, bisection, flakes, published>>

(* The culprit-free subset must pass; an empty one passes untried.          *)
Recheck ==
    /\ at = "bisect" /\ goals = <<>>
    /\ IF Good = <<>> THEN Raise("culprits") /\ UNCHANGED purpose
       ELSE Goto("build") /\ purpose' = "recheck"
    /\ Inside /\ UNCHANGED <<bySha, trees, retried, bisection, flakes, published>>

(* Mutants: a red left half condemns the right one untried; a red right     *)
(* half is tried again whole.                                               *)
MutLearn(red) ==
    LET cands == Head(goals).cands
        halve(s) == [job |-> "halve", cands |-> s]
    IN \/ /\ ~red /\ knownGood' = knownGood \o (IF purpose = "left" THEN Left(cands) ELSE cands)
          /\ goals' = (IF purpose = "left" THEN <<halve(Right(cands))>> ELSE <<>>) \o Tail(goals)
       \/ /\ red /\ goals' = <<halve(Left(cands)), halve(Right(cands))>> \o Tail(goals)
          /\ UNCHANGED knownGood

MutLearnAgain(red) ==
    LET cands == Head(goals).cands
        halve(s) == [job |-> "halve", cands |-> s]
        rest(s) == [job |-> "rest", cands |-> s]
    IN \/ /\ ~red /\ knownGood' = knownGood \o (IF purpose = "left" THEN Left(cands) ELSE cands)
          /\ goals' = (IF purpose = "left" THEN <<halve(Right(cands))>> ELSE <<>>) \o Tail(goals)
       \/ /\ red /\ UNCHANGED knownGood
          /\ goals' = (IF purpose = "left" THEN <<halve(Left(cands)), rest(Right(cands))>>
                       ELSE <<rest(cands)>>) \o Tail(goals)

(* What a probe's answer makes of the work list.                            *)
Learn(red) ==
    LET cands == Head(goals).cands
        halve(s) == [job |-> "halve", cands |-> s]
        rest(s) == [job |-> "rest", cands |-> s]
    IN \/ /\ purpose = "left" /\ ~red
          /\ knownGood' = knownGood \o Left(cands)
          /\ goals' = <<halve(Right(cands))>> \o Tail(goals)
       \/ /\ purpose = "left" /\ red
          /\ goals' = <<halve(Left(cands)), rest(Right(cands))>> \o Tail(goals)
          /\ UNCHANGED knownGood
       \/ /\ purpose = "right" /\ ~red
          /\ knownGood' = knownGood \o cands
          /\ goals' = Tail(goals)
       \/ /\ purpose = "right" /\ red
          /\ goals' = <<halve(cands)>> \o Tail(goals)
          /\ UNCHANGED knownGood

(* probe's finally, and what follows it.                                    *)
ProbeDone ==
    /\ at = "probed"
    /\ \/ /\ Dispose("probe")
          /\ \/ purpose # "recheck" /\ Learn(Here.red) /\ Goto("bisect")
             \/ /\ purpose = "recheck" /\ UNCHANGED <<goals, knownGood>>
                /\ Raise(IF Here.red THEN "incoherent" ELSE "culprits")
          /\ purpose' = "land"
       \/ /\ LoseStack("probe")
          /\ Raise("catastrophic") /\ UNCHANGED <<purpose, goals, knownGood>>
    /\ Inside /\ UNCHANGED <<bySha, retried, culprits, flakes, published>>

-----------------------------------------------------------------------------
(* The way out                                                              *)

(* A worktree that cannot be removed replaces what was being thrown.        *)
DisposeStack(k) ==
    /\ at = "unwind" /\ stack[k].worktree = "live"
    /\ k = "land" => stack.probe.worktree # "live"
    /\ \/ Dispose(k) /\ Goto("unwind")
       \/ LoseStack(k) /\ Raise("catastrophic")
    /\ Inside /\ UNCHANGED <<bySha, purpose, retried, bisection, flakes, published>>

Disposed == \A k \in DOMAIN stack : stack[k].worktree # "live"

(* landPlan's catch: every conflicting sink is pinned at the one stack.     *)
Pin(n) ==
    /\ at = "unwind" /\ Disposed /\ raised.kind = "conflict" /\ n \in raised.sinks
    /\ \/ /\ pins' = [pins EXCEPT ![n] = raised.stack]
          /\ Throw([raised EXCEPT !.sinks = @ \ {n}])
       \/ UNCHANGED pins /\ Raise("catastrophic")
    /\ UNCHANGED <<landing, repo, bySha, purpose, trees, retried, bisection, flakes, published>>

End ==
    /\ at = "unwind" /\ Disposed /\ (raised.kind = "conflict" => raised.sinks = {})
    /\ Goto("ended")
    /\ Inside /\ UNCHANGED <<bySha, purpose, trees, retried, bisection, flakes, published>>

Step ==
    \/ RefuseUnrunnableGates \/ ReadClosed \/ ResolveRefs
    \/ OpenStack \/ MergeNext \/ MergesDone \/ Provision \/ RunGate \/ GateGreen
    \/ RetryGreen \/ RetryRed \/ RunLandGate \/ Publish
    \/ Blame \/ Probe \/ Recheck \/ ProbeDone
    \/ (\E k \in DOMAIN stack : DisposeStack(k)) \/ (\E n \in Node : Pin(n)) \/ End

Next ==
    \/ Step
    \/ OperatorCommits \/ (\E b \in Branch \cup {Detached} : OperatorChecksOut(b))
    \/ (\E n \in Node : NodeBranchMoves(n))

Spec == Init /\ [][Next]_vars
(* Every await of a landing ends: git answers, a command has its time limit. *)
FairSpec == Spec /\ WF_vars(Step)
-----------------------------------------------------------------------------
(* Properties                                                               *)

Trees == SUBSET (Node \cup {Edit})

(* The shape of every variable.                                             *)
TypeOK ==
    /\ landing \in Landings
    /\ head \in Branch \cup {Detached} /\ tip \in [Branch \cup {Detached} -> Trees]
    /\ ref \in [Node -> Trees \cup {None}] /\ bySha \subseteq Node
    /\ at \in {"start", "resolve", "build", "merge", "provision", "gate", "retry", "asks", "bisect",
               "probed", "unwind", "ended"}
    /\ purpose \in {"land", "left", "right", "recheck"}
    /\ \A k \in DOMAIN stack : stack[k].worktree \in {"none", "live", "lost"}
    /\ knownGood \in Seq(Node) /\ culprits \subseteq ToSet(Sinks)
    /\ \A i \in DOMAIN goals : goals[i].job \in {"halve", "rest"} /\ goals[i].cands # <<>>
    /\ raised.kind \in {"none", "landed", "blocked", "culprits", "incoherent", "conflict", "refused",
                        "rebuild", "catastrophic"}
    /\ pins \in [Node -> Trees \cup {None}]
    /\ moves \in 0..Moves /\ flakes \in 0..Flakes

(* Nobody moved anything, no gate answered wrong, and no sink mends what    *)
(* another breaks.                                                          *)
Steady ==
    /\ moves = 0 /\ flakes = 0
    /\ \A i \in DOMAIN Gate : \A r \in landing.truth[Gate[i]] : r.lacks = {}

GateRed(ids) ==
    \E i \in DOMAIN Gate : Red(Gate[i], landing.base \cup UNION {CommitOf(n) : n \in ids})

(* The bisect's answer is right when gates are: the culprit-free stack is   *)
(* green, and each culprit alone makes it red.  Nobody innocent is named,   *)
(* and nobody guilty let off, whatever the halves were; and a steady gate   *)
(* never ends in "the diagnosis is incoherent".                             *)
CulpritsAreGuilty ==
    /\ raised.kind = "incoherent" => ~Steady
    /\ raised.kind = "culprits" /\ Steady =>
          LET good == ToSet(Sinks) \ culprits
          IN /\ good = {} \/ ~GateRed(good)
             /\ \A n \in culprits : GateRed(good \cup {n})

(* Without a retry, the stack that is published was green under every       *)
(* smoke of its sinks, and with one still under every gate of the operator. *)
PublishedPassedTheGates ==
    raised.kind = "landed" =>
        /\ ToSet(landing.gates) \subseteq published.green
        /\ retried = None => ToSet(Gate) \subseteq published.green

(* Only what was verified lands: every node whose work a landing adds to the *)
(* branch is closed, or stands under a closed one.                          *)
OnlyVerifiedLands ==
    raised.kind = "landed" =>
        published.tree \cap Node \subseteq landing.base \cup SeedClosure(landing.closed)

(* The checkout moves, by the landing's hand, only to the tree the gates    *)
(* saw; a branch that moved meanwhile is never merged with it.              *)
OnlyGatedTreesArePublished ==
    [][moves' = moves => \A b \in DOMAIN tip : tip'[b] # tip[b] => tip'[b] = stack.land.tree]_tip

(* All the conflicts of a landing are pinned at one stack, which holds      *)
(* every other sink of it: the rebuilt group and that stack make the whole  *)
(* landing.                                                                 *)
PinsCompleteTheStack ==
    at = "ended" /\ raised.kind = "conflict" /\ moves = 0 =>
        LET pinned == {n \in Node : pins[n] # None}
        IN \A n \in pinned :
              /\ n \in ToSet(Sinks) /\ ~(ref[n] \subseteq pins[n])
              /\ \A m \in ToSet(Sinks) \ pinned : CommitOf(m) \subseteq pins[n]

(* Changes that clash are on one node's branch only if the target has them. *)
ClashesApart ==
    \A l \in Landings : \A p \in l.clash : \A n \in Node :
        p \subseteq Ancestors({n}) => p \subseteq l.base

(* No worktree of a landing outlives it, but one git would not remove.      *)
NothingLeftBehind ==
    at = "ended" =>
        LET lost == {k \in DOMAIN stack : stack[k].worktree = "lost"}
        IN worktrees = Cardinality(lost) /\ (lost # {} => raised.kind = "catastrophic")

(* A landing ends, whatever its gates and probes answer.                    *)
LandingEnds == <>(at = "ended")

(* land.ts, "the combination must satisfy each constituent's acceptance".   *)
PublishedPassedEveryGate == raised.kind = "landed" => ToSet(Gate) \subseteq published.green
=============================================================================
