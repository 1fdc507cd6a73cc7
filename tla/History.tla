------------------------------- MODULE History ------------------------------
(***************************************************************************)
(* One repository across many runs: what a run finds at its start          *)
(* (runUnderLock, applyAcceptanceEvolution, resumeFrom: run-plan.ts), what *)
(* its settles leave, and what `pleach audit` (audit-node.ts) makes of it. *)
(*                                                                         *)
(* A commit is the set of commits it descends from, its own included, so   *)
(* an ancestor is a subset, and log says what each of them is.  A node is  *)
(* run one at a time and a conductor works alone: interleaving and the     *)
(* lock are Scheduler's and RunLock's.  What ends a conductor between two  *)
(* of its steps, a kill, a drain or a rejecting seam, is Stop.  Every node *)
(* is worked by a worker; the plan file is edited between runs.            *)
(***************************************************************************)
EXTENDS Naturals, Sequences, FiniteSets, SequencesExt

CONSTANTS
    Order,        \* every plan's nodes, in plan order
    Sources,      \* the plans of this repository, by their source
    Worlds,       \* the repositories a history may begin in
    None,         \* no commit, no receipt, nothing recorded
    Implied,      \* closed by a closed dependent, at no commit of its own
    ByName        \* a base resolved to node/<id>, not to a commit

Node == ToSet(Order)
Idle == [verb |-> "idle"]
NoLane == [step |-> "pick"]

Receipts ==
    [src : Sources, status : {"publishable", "quarantined"}, gate : {"none", "green"}, records : BOOLEAN,
     smoke : 0..2, audit : 0..2, base : BOOLEAN, diffRef : (SUBSET Nat) \cup {None},
     kept : (SUBSET Nat) \cup {None}, at : {"base", "busy"}]

(* A world is its ledger, the plan's nodes, who needs whom, which of them   *)
(* are audited, the smoke its plans first declare and those they may come   *)
(* to (0 for none: accept.smoke is optional), whose plans are run, and its  *)
(* bounds: the commits made, the trees kept, the landings that pin, the     *)
(* edits of a plan, and what is done to the refs behind a conductor's back. *)
ASSUME HistoryAssumption ==
    /\ \A w \in Worlds :
          /\ w.ledger \in {"git", "tend"}
          /\ w.needs \in [Node -> SUBSET Node] /\ w.audited \subseteq w.nodes
          /\ w.smoke \in w.smokes /\ w.smokes \subseteq 0..2
          /\ w.nodes \subseteq Node /\ w.sources \subseteq Sources
          /\ {w.commits, w.keeps, w.pins, w.edits, w.moves} \subseteq Nat
          /\ \A commit \in SUBSET (1..w.commits) : commit \notin {None, Implied, ByName}
    /\ Order \in Seq(Node) /\ None \notin Receipts

VARIABLES
    world,
    accept,        \* each plan's acceptance of each node: which smoke, which audit
    branch,        \* node/<id>
    quarantine,    \* quarantine/<id>, and the name used when that one is busy
    pin,           \* refs/pleach/rebuild/<id>
    receipts,      \* each node's latest receipt, whoever's plan it is
    verified,      \* tend's own record of each plan
    conductor,     \* the run or re-audit under way
    lane,          \* and the node it has in hand
    log,           \* every commit made: whose it is, and what was green on it
    edits, moves,  \* history: the bounds
    unrecorded     \* history: nodes with a close that wrote no receipt

refs == <<branch, quarantine, pin>>
operator == <<accept, edits, moves>>
vars == <<world, operator, refs, receipts, verified, conductor, lane, log, unrecorded>>

Needs(n) == world.needs[n]
Audited(n) == n \in world.audited
Before(n) == {m \in Node : \E i, j \in DOMAIN Order : i < j /\ Order[i] = m /\ Order[j] = n}

Init ==
    /\ world \in Worlds
    /\ accept = [s \in Sources |-> [n \in Node |->
          [smoke |-> world.smoke, audit |-> IF n \in world.audited THEN 1 ELSE 0]]]
    /\ branch = [n \in Node |-> None] /\ pin = [n \in Node |-> None]
    /\ quarantine = [n \in Node |-> [base |-> None, busy |-> None]]
    /\ receipts = [n \in Node |-> None]
    /\ verified = [s \in Sources |-> [n \in Node |-> None]]
    /\ conductor = Idle /\ lane = NoLane /\ log = <<>> /\ edits = 0 /\ moves = 0 /\ unrecorded = {}

-----------------------------------------------------------------------------
(* Commits                                                                  *)

Top(commit) == CHOOSE i \in commit : \A j \in commit : j <= i

isAncestor(ancestor, descendant) == ancestor \subseteq descendant

(* The commit made on top of a tree.                                        *)
On(tree) == tree \cup {Len(log) + 1}

Make(fact, tree) == Len(log) < world.commits /\ log' = Append(log, [fact EXCEPT !.ids = On(tree)])

Made(kind) == Cardinality({i \in DOMAIN log : log[i].kind = kind})

Fact(kind, src, n) ==
    [kind |-> kind, src |-> src, of |-> n, smoke |-> 0, audit |-> 0, needs |-> {}, onto |-> None,
     after |-> {}, taken |-> FALSE, bare |-> FALSE, ids |-> {}]

(* The git ledger has a close as soon as its branch is there.               *)
TakenByGit == world.ledger = "git"

-----------------------------------------------------------------------------
(* What a conductor finds                                                   *)

(* readClosed.  The git ledger reads node/<id> and believes a tip whose     *)
(* message names the plan; tend keeps the commits it was told of.           *)
Ledger(src) ==
    [n \in Node |->
        IF world.ledger = "tend" THEN verified[src][n]
        ELSE IF branch[n] # None /\ log[Top(branch[n])].src = src THEN branch[n] ELSE None]

Closed(closed) == {n \in Node : closed[n] # None}

(* Mutant: a changed audit is enough to tell.                               *)
MutAcceptanceChanged(src, closed) ==
    {n \in Closed(closed) :
        receipts[n] # None /\ receipts[n].src = src /\ receipts[n].audit # accept[src][n].audit}

(* Closes whose latest receipt, when it is this plan's, records another     *)
(* acceptance.                                                              *)
AcceptanceChanged(src, closed) ==
    {n \in Closed(closed) :
        /\ receipts[n] # None /\ receipts[n].src = src
        /\ \/ receipts[n].smoke # accept[src][n].smoke
           \/ receipts[n].audit # accept[src][n].audit}

(* The nodes a land conflict pinned, and the earlier ones pinned with them. *)
Pinned(src, closed) ==
    {n \in Closed(closed) \ AcceptanceChanged(src, closed) : pin[n] # None}
GroupBefore(n, pinned) == {m \in Before(n) \cap pinned : pin[m] = pin[n]}

(* Along needs, but only through nodes that are closed themselves.          *)
Cascade(invalid, closed) ==
    LET up[i \in 0..Len(Order)] ==
            IF i = 0 THEN invalid
            ELSE LET known == up[i - 1] IN known \cup {n \in closed : Needs(n) \cap known # {}}
    IN up[Len(Order)]

(* What a closed node stands on is closed with it, at no commit of its own. *)
SeedClosure(found, trusted) ==
    LET down[i \in 0..Len(Order)] ==
            IF i = 0 THEN trusted
            ELSE LET known == down[i - 1] IN known \cup UNION {Needs(n) : n \in known}
        contained == down[Len(Order)]
    IN [n \in Node |-> IF n \in trusted THEN found[n] ELSE IF n \in contained THEN Implied ELSE None]

(* resolveBaseRef: the branch's name, the recorded commit when the branch   *)
(* is gone, or nothing to build on; a moved branch is refused.              *)
BaseRef(n, recorded) ==
    IF branch[n] # None THEN IF recorded \in {None, Implied, branch[n]} THEN ByName ELSE None
    ELSE IF recorded \in {None, Implied} THEN None ELSE recorded

Resolves(d, base) == IF base = ByName THEN branch[d] ELSE base

-----------------------------------------------------------------------------
(* A run's start                                                            *)

Run(src, fresh) ==
    LET found == Ledger(src)
        pinned == Pinned(src, found)
        invalid == Cascade(AcceptanceChanged(src, found) \cup pinned, Closed(found))
        trusted == Closed(found) \ invalid
        closed == SeedClosure(found, trusted)
        wanted == (UNION {Needs(n) : n \in world.nodes \ Closed(closed)}) \cap Closed(closed)
        bases == [d \in wanted |-> BaseRef(d, closed[d])]
    IN /\ conductor = Idle /\ src \in world.sources
       /\ \A d \in wanted : bases[d] # None
       /\ conductor' =
             [verb |-> "run", src |-> src, fresh |-> fresh, accept |-> accept[src],
              closed |-> closed, trusted |-> trusted, settled |-> {},
              base |-> [d \in Node |-> IF d \in wanted THEN bases[d] ELSE ByName],
              onto |-> [n \in Node |-> IF n \in pinned THEN pin[n] ELSE None],
              after |-> [n \in Node |-> IF n \in pinned THEN GroupBefore(n, pinned) ELSE {}]]
       /\ UNCHANGED <<world, operator, refs, receipts, verified, lane, log, unrecorded>>

(* Mutant: a node the start trusts may be launched all the same.            *)
MutReady(n) ==
    /\ n \in world.nodes \ conductor.settled
    /\ Needs(n) \cup conductor.after[n] \subseteq Closed(conductor.closed)

Ready(n) ==
    /\ n \in world.nodes \ conductor.settled /\ conductor.closed[n] = None
    /\ Needs(n) \cup conductor.after[n] \subseteq Closed(conductor.closed)

-----------------------------------------------------------------------------
(* What a node stands on                                                    *)

(* Mutant: a close that published refuses nothing.                          *)
MutVouched(n) ==
    /\ quarantine[n].base # None
    /\ receipts[n] # None /\ receipts[n].kept # None => isAncestor(receipts[n].kept, quarantine[n].base)

(* The latest receipt must name the quarantined tree, or one it descends    *)
(* from; without a receipt the quarantine is the only account there is.     *)
Vouched(n) ==
    /\ quarantine[n].base # None
    /\ receipts[n] # None => /\ receipts[n].kept # None
                             /\ isAncestor(receipts[n].kept, quarantine[n].base)

(* resumeFrom.  A tree sealed after a phase the plan no longer calls red is *)
(* refused too: whether it is, is left open.                                *)
Seeds(n) ==
    IF conductor.onto[n] # None \/ conductor.fresh \/ ~Vouched(n) THEN {None}
    ELSE {quarantine[n].base} \cup (IF receipts[n] # None THEN {None} ELSE {})

(* Mutant: the group's earlier members are not merged.                      *)
MutBases(n, seed) ==
    {Resolves(d, conductor.base[d]) : d \in Needs(n)}
        \cup IF seed # None THEN {seed}
             ELSE IF conductor.onto[n] = None THEN {}
             ELSE {conductor.onto[n]} \cup (IF conductor.fresh THEN {} ELSE {branch[n]})

(* baseRefsFor: the needs, onto a quarantine, or onto the stack with the    *)
(* group's earlier members and the node's own branch, or onto HEAD.         *)
Bases(n, seed) ==
    {Resolves(d, conductor.base[d]) : d \in Needs(n)}
        \cup IF seed # None THEN {seed}
             ELSE IF conductor.onto[n] = None THEN {}
             ELSE {conductor.onto[n]} \cup {branch[m] : m \in conductor.after[n]}
                    \cup (IF conductor.fresh THEN {} ELSE {branch[n]})

(* A base that names nothing is a worktree that cannot be made.             *)
Tree(bases) == IF None \in bases THEN None ELSE UNION bases

Launch(n) ==
    /\ conductor.verb = "run" /\ lane = NoLane /\ Ready(n)
    /\ \E seed \in Seeds(n) :
          lane' = [step |-> "work", node |-> n, seed |-> seed, tree |-> Tree(Bases(n, seed))]
    /\ UNCHANGED <<world, operator, refs, receipts, verified, conductor, log, unrecorded>>

-----------------------------------------------------------------------------
(* A close: published, or its tree kept, and its receipt minted             *)

Receipt(status, gate, records) ==
    [src |-> conductor.src, status |-> status, gate |-> gate, records |-> records,
     smoke |-> conductor.accept[lane.node].smoke, audit |-> conductor.accept[lane.node].audit,
     base |-> lane.seed # None \/ conductor.onto[lane.node] # None, diffRef |-> None, kept |-> None, at |-> "base"]

(* node/<id> is on the commit before the ledger hears of it.                *)
Publish(fact, receipt) ==
    /\ Make([fact EXCEPT !.taken = TakenByGit], lane.tree)
    /\ branch' = [branch EXCEPT ![lane.node] = On(lane.tree)]
    /\ lane' = [step |-> "emit", node |-> lane.node, commit |-> On(lane.tree),
                receipt |-> [receipt EXCEPT !.diffRef = On(lane.tree)]]
    /\ UNCHANGED <<world, accept, edits, moves, quarantine, pin, receipts, verified, conductor, unrecorded>>

(* quarantineTree: on quarantine/<id>, on the next name when its owner has  *)
(* that one checked out, or nowhere.                                        *)
Keep(fact, receipt, changed) ==
    /\ \/ \E at \in {"base", "busy"} :
             /\ changed /\ Make(fact, lane.tree)
             /\ Made("kept") < world.keeps
             /\ quarantine' = [quarantine EXCEPT ![lane.node][at] = On(lane.tree)]
             /\ lane' = [step |-> "record", node |-> lane.node, commit |-> None,
                         receipt |-> [receipt EXCEPT !.kept = On(lane.tree), !.at = at]]
             /\ IF at = "base" THEN UNCHANGED moves ELSE moves < world.moves /\ moves' = moves + 1
       \/ /\ UNCHANGED <<quarantine, log, moves>>
          /\ lane' = [step |-> "record", node |-> lane.node, commit |-> None, receipt |-> receipt]
    /\ UNCHANGED <<world, accept, edits, branch, pin, receipts, verified, conductor, unrecorded>>

(* What the receipt of a close past its smoke says of it: a node without    *)
(* one records none.                                                        *)
SmokeRecord(n) == IF conductor.accept[n].smoke = 0 THEN "none" ELSE "green"

(* A run's done: every gate green, and the commit not refused.              *)
Verify ==
    /\ conductor.verb = "run" /\ lane.step = "work" /\ lane.tree # None
    /\ LET n == lane.node
       IN Publish([Fact("verified", conductor.src, n) EXCEPT
                      !.smoke = conductor.accept[n].smoke, !.audit = conductor.accept[n].audit,
                      !.needs = {d \in Needs(n) : conductor.closed[d] # Implied},
                      !.onto = conductor.onto[n],
                      !.after = {m \in conductor.after[n] : conductor.closed[m] # Implied}],
                  Receipt("publishable", SmokeRecord(n), Audited(n)))

(* Everything else a run may settle: before the smoke, at it, or after it;  *)
(* with no tree at all when its bases would not resolve.  The audit comes   *)
(* behind the smoke, and for a node without one behind the work.  Of a      *)
(* close that kept no tree nobody asks which gates were green.              *)
Fail(gate, records, changed) ==
    /\ conductor.verb = "run" /\ lane.step = "work"
    /\ gate \in {"none", SmokeRecord(lane.node)}
    /\ records => gate = SmokeRecord(lane.node) /\ Audited(lane.node)
    /\ (lane.tree = None \/ ~changed) => gate = "none" /\ ~records /\ ~changed
    /\ LET n == lane.node
       IN Keep([Fact("kept", conductor.src, n) EXCEPT
                   !.smoke = IF gate = "green" THEN conductor.accept[n].smoke ELSE 0,
                   !.bare = records /\ gate = "none"],
               Receipt("quarantined", gate, records), changed)

-----------------------------------------------------------------------------
(* A re-audit                                                               *)

(* Mutant: a re-audit asks only whether there is a tree.                    *)
MutAuditable(src, n) ==
    LET r == receipts[n]
    IN /\ r # None /\ r.status = "quarantined"
       /\ r.gate = "green" \/ (r.base /\ r.audit # accept[src][n].audit)
       /\ r.kept # None /\ quarantine[n][r.at] = r.kept

(* seedFrom: the latest close kept a tree that is still where it was put,   *)
(* its smoke was green, or it stood on a base (a re-audit's, a resumed      *)
(* quarantine's) and is asked something new, and an auditor was admitted to *)
(* it.                                                                      *)
Auditable(src, n) ==
    LET r == receipts[n]
    IN /\ r # None /\ r.status = "quarantined"
       /\ r.gate = "green" \/ (r.base /\ r.audit # accept[src][n].audit)
       /\ r.records
       /\ r.kept # None /\ quarantine[n][r.at] = r.kept

(* auditBaseRefs: the kept tree, and the needs as a run would resolve them. *)
AuditBases(src, n) ==
    LET found == SeedClosure(Ledger(src), Closed(Ledger(src)))
        base == [d \in Needs(n) |-> BaseRef(d, found[d])]
    IN {receipts[n].kept} \cup {IF base[d] = None THEN None ELSE Resolves(d, base[d]) : d \in Needs(n)}

Audit(src, n) ==
    LET tree == Tree(AuditBases(src, n))
    IN /\ conductor = Idle /\ src \in world.sources /\ Audited(n) /\ Auditable(src, n)
       /\ tree # None
       /\ conductor' = [verb |-> "audit", src |-> src, accept |-> accept[src],
                        onto |-> [m \in Node |-> None]]
       /\ lane' = [step |-> "work", node |-> n, seed |-> receipts[n].kept, tree |-> tree]
       /\ UNCHANGED <<world, operator, refs, receipts, verified, log, unrecorded>>

AuditPasses ==
    /\ conductor.verb = "audit" /\ lane.step = "work"
    /\ Publish([Fact("reaudited", conductor.src, lane.node) EXCEPT
                   !.audit = conductor.accept[lane.node].audit],
               Receipt("publishable", "none", TRUE))

(* A red setup, or an auditor that failed it or never answered: an empty    *)
(* change is kept too.                                                      *)
AuditRefuses(records) ==
    /\ conductor.verb = "audit" /\ lane.step = "work"
    /\ Keep(Fact("kept", conductor.src, lane.node), Receipt("quarantined", "none", records), TRUE)

-----------------------------------------------------------------------------
(* What follows a close                                                     *)

Settled == conductor' = IF conductor.verb = "audit" THEN Idle
                        ELSE [conductor EXCEPT !.settled = @ \cup {lane.node}]

Take == log' = [log EXCEPT ![Top(lane.commit)].taken = TRUE]

Answered(closes) ==
    lane' = [step |-> "record", node |-> lane.node, commit |-> lane.commit, receipt |-> lane.receipt,
             closes |-> closes]

(* The ledger's answer; the git ledger's is always yes.                     *)
EmitDone ==
    /\ lane.step = "emit"
    /\ \/ /\ Answered(TRUE)
          /\ verified' = [verified EXCEPT ![conductor.src][lane.node] = lane.commit]
          /\ Take /\ UNCHANGED <<conductor, unrecorded>>
       \/ /\ world.ledger = "tend"
          /\ Answered(~Audited(lane.node))
          /\ UNCHANGED <<verified, conductor, log, unrecorded>>
       \/ /\ world.ledger = "tend" /\ Settled
          /\ lane' = NoLane /\ unrecorded' = unrecorded \cup {lane.node}
          /\ UNCHANGED <<verified, log>>
    /\ UNCHANGED <<world, operator, refs, receipts>>

(* writeReceiptOrJournal: the write may fail, and the close stands.         *)
Record ==
    /\ lane.step = "record"
    /\ \/ /\ receipts' = [receipts EXCEPT ![lane.node] = lane.receipt]
          /\ unrecorded' = unrecorded \ {lane.node}
       \/ UNCHANGED receipts /\ unrecorded' = unrecorded \cup {lane.node}
    /\ lane' = [lane EXCEPT !.step = "close"]
    /\ UNCHANGED <<world, operator, refs, verified, conductor, log>>

(* Mutant: a close the ledger declined is a close all the same.             *)
MutClose ==
    /\ lane.step = "close" /\ lane' = NoLane
    /\ IF conductor.verb = "run" /\ lane.commit # None
       THEN /\ conductor' = [conductor EXCEPT !.closed[lane.node] = lane.commit,
                                              !.base[lane.node] = lane.commit]
            /\ IF lane.closes THEN Take ELSE UNCHANGED log
            /\ pin' = IF conductor.onto[lane.node] = None THEN pin
                      ELSE [pin EXCEPT ![lane.node] = None]
       ELSE Settled /\ UNCHANGED <<pin, log>>
    /\ UNCHANGED <<world, operator, branch, quarantine, receipts, verified, unrecorded>>

(* closed, and the rebuild pin consumed; or one of the other fates.         *)
Close ==
    /\ lane.step = "close" /\ lane' = NoLane
    /\ IF conductor.verb = "run" /\ lane.commit # None /\ lane.closes
       THEN /\ conductor' = [conductor EXCEPT !.closed[lane.node] = lane.commit,
                                              !.base[lane.node] = lane.commit]
            /\ Take
            /\ pin' = IF conductor.onto[lane.node] = None THEN pin
                      ELSE [pin EXCEPT ![lane.node] = None]
       ELSE Settled /\ UNCHANGED <<pin, log>>
    /\ UNCHANGED <<world, operator, branch, quarantine, receipts, verified, unrecorded>>

(* Killed, drained, or rejected by a seam; or nothing is left to do.        *)
Stop ==
    /\ conductor # Idle /\ conductor' = Idle /\ lane' = NoLane
    /\ unrecorded' = IF lane.step \in {"emit", "record"} THEN unrecorded \cup {lane.node} ELSE unrecorded
    /\ UNCHANGED <<world, operator, refs, receipts, verified, log>>

-----------------------------------------------------------------------------
(* The operator, and a landing                                              *)

Outside == UNCHANGED <<world, receipts, verified, conductor, lane, unrecorded>>

EditPlan(src, n, field) ==
    /\ edits < world.edits /\ edits' = edits + 1
    /\ src \in world.sources /\ n \in world.nodes /\ (field = "audit" => Audited(n))
    /\ \E value \in (IF field = "audit" THEN 1..2 ELSE world.smokes) \ {accept[src][n][field]} :
          accept' = [accept EXCEPT ![src][n][field] = value]
    /\ Outside /\ UNCHANGED <<moves, refs, log>>

Moving == moves < world.moves /\ moves' = moves + 1 /\ Outside /\ UNCHANGED <<accept, edits>>

(* A node's branch deleted, or moved by something that is no conductor.     *)
BranchMoves(n) ==
    /\ Moving /\ branch[n] # None
    /\ \/ branch' = [branch EXCEPT ![n] = None] /\ UNCHANGED log
       \/ /\ Make(Fact("edit", None, n), branch[n])
          /\ branch' = [branch EXCEPT ![n] = On(@)]
    /\ UNCHANGED <<quarantine, pin>>

(* The operator fixes a quarantined tree by hand, or drops it.              *)
QuarantineMoves(n) ==
    /\ Moving /\ quarantine[n].base # None
    /\ \/ quarantine' = [quarantine EXCEPT ![n].base = None] /\ UNCHANGED log
       \/ /\ Make(Fact("edit", None, n), quarantine[n].base)
          /\ quarantine' = [quarantine EXCEPT ![n].base = On(@)]
    /\ UNCHANGED <<branch, pin>>

(* A landing, of the plan's sinks or of any nodes it is asked for, whose    *)
(* refs resolve as a run's do: those that conflict are pinned at the stack  *)
(* of the others.  Which of them do is left open.                           *)
LandPins(src) ==
    LET found == Ledger(src)
        closed == SeedClosure(found, Closed(found))
        base == [n \in Node |-> BaseRef(n, closed[n])]
        landable == {n \in world.nodes \cap Closed(closed) : base[n] # None}
    IN /\ Made("stack") < world.pins /\ Outside /\ src \in world.sources
       /\ \E conflicts \in (SUBSET landable) \ {{}} : \E merged \in SUBSET (landable \ conflicts) :
             LET stack == UNION {Resolves(n, base[n]) : n \in merged}
             IN /\ Make(Fact("stack", None, None), stack)
                /\ pin' = [n \in Node |-> IF n \in conflicts THEN On(stack) ELSE pin[n]]
       /\ UNCHANGED <<operator, branch, quarantine>>

Next ==
    \/ \E src \in Sources, fresh \in BOOLEAN : Run(src, fresh)
    \/ \E n \in Node : Launch(n)
    \/ Verify
    \/ \E gate \in {"none", "green"}, records, changed \in BOOLEAN : Fail(gate, records, changed)
    \/ \E src \in Sources, n \in Node : Audit(src, n)
    \/ AuditPasses \/ (\E records \in BOOLEAN : AuditRefuses(records))
    \/ EmitDone \/ Record \/ Close \/ Stop
    \/ \E src \in Sources, n \in Node, field \in {"smoke", "audit"} : EditPlan(src, n, field)
    \/ \E n \in Node : BranchMoves(n) \/ QuarantineMoves(n)
    \/ \E src \in Sources : LandPins(src)

Spec == Init /\ [][Next]_vars

-----------------------------------------------------------------------------
(* Properties                                                               *)

Commit == (SUBSET (1..world.commits)) \ {{}}

(* The shape of every variable; every ref names a commit that was made.     *)
TypeOK ==
    /\ world \in Worlds
    /\ accept \in [Sources -> [Node -> [smoke : 0..2, audit : 0..2]]]
    /\ Len(log) <= world.commits
    /\ LET named == {branch[n] : n \in Node} \cup {pin[n] : n \in Node}
                      \cup {quarantine[n][at] : n \in Node, at \in {"base", "busy"}}
                      \cup UNION {{verified[s][n] : n \in Node} : s \in Sources}
       IN \A c \in named \ {None} : c \in Commit /\ Top(c) <= Len(log) /\ log[Top(c)].ids = c
    /\ lane # NoLane => conductor # Idle /\ lane.step \in {"work", "emit", "record", "close"}
    /\ conductor.verb = "run" =>
          /\ conductor.trusted \cap conductor.settled = {}
          /\ conductor.closed \in [Node -> Commit \cup {None, Implied}]
    /\ receipts \in [Node -> Receipts \cup {None}]
    /\ unrecorded \subseteq Node

(* The commit of the newest close that vouches for n, and of its tree kept. *)
ClosedAt(n, src) ==
    {i \in DOMAIN log : log[i].of = n /\ log[i].src = src /\ log[i].taken}
KeptIn(tree, n) == {i \in tree : log[i].of = n /\ log[i].kind = "kept"}

(* A node that resumes never stands on a tree a later close of it replaced, *)
(* unless that close left no receipt: failures, re-audits, moved and busy   *)
(* quarantines in any order.                                                *)
SeedIsNotSuperseded ==
    conductor.verb = "run" /\ lane.step = "work" =>
        \/ lane.seed = None \/ lane.node \in unrecorded
        \/ \A i \in ClosedAt(lane.node, conductor.src), k \in {Top(KeptIn(lane.seed, lane.node))} : i < k

(* What the run trusts without running it again.                            *)
Trusts(n) == conductor.verb = "run" /\ n \in conductor.trusted
TrustedAt(n) == log[Top(conductor.closed[n])]

(* A node a run trusts was verified under the acceptance the plan has now,  *)
(* when the latest receipt is of the close it is trusted for, and that      *)
(* close was a run's.                                                       *)
TrustedCloseWasVerified ==
    lane = NoLane => \A n \in Node :
        Trusts(n) /\ n \notin unrecorded /\ receipts[n] # None /\ receipts[n].diffRef = conductor.closed[n]
                  /\ TrustedAt(n).kind = "verified" =>
            /\ TrustedAt(n).smoke = conductor.accept[n].smoke
            /\ TrustedAt(n).audit = conductor.accept[n].audit

(* audit-node.ts, "it never excuses a red gate": a re-audit publishes only  *)
(* what stands on a tree some run's smoke saw green, or, of a run whose     *)
(* node declared no smoke, one whose auditor was admitted to it.            *)
ReauditedBuildWasGreen ==
    \A j \in DOMAIN log : log[j].kind = "reaudited" =>
        \E i \in log[j].ids : /\ log[i].of = log[j].of /\ log[i].kind = "kept"
                              /\ log[i].smoke # 0 \/ log[i].bare

(* What a run verifies stands on a close of everything its node needs that  *)
(* the ledger or the run took, as long as no branch is moved by hand; and a *)
(* rebuild stands on its stack and on the rebuilds of its group before it.  *)
(* Both but for what is closed by a closed dependent alone: that is a       *)
(* branch's name, whoever published it, and is not rebuilt.                 *)
VerifiedStandsOnVerified ==
    \A j \in DOMAIN log : log[j].kind = "verified" =>
        /\ moves = 0 => \A d \in log[j].needs : ClosedAt(d, log[j].src) \cap log[j].ids # {}
        /\ log[j].onto # None =>
              /\ log[j].onto \subseteq log[j].ids
              /\ \A m \in log[j].after : \E i \in log[j].ids :
                    log[i].of = m /\ log[i].kind = "verified" /\ log[j].onto \subseteq log[i].ids

(* core/receipt.ts, the acceptance of a receipt: "a later run whose plan    *)
(* carries different strings must not skip-trust this close".               *)
NoSkipTrustOfAnotherSmoke ==
    lane = NoLane => \A n \in Node :
        Trusts(n) /\ n \notin unrecorded /\ TrustedAt(n).kind = "verified" =>
            TrustedAt(n).smoke = conductor.accept[n].smoke
=============================================================================
