---------------------------- MODULE HistoryProofs ---------------------------
(***************************************************************************)
(* Theorems about one repository across many runs, for every set of plans, *)
(* nodes and worlds, every bound and any number of runs, re-audits, edits, *)
(* landings and moved refs.  TypeOK and the four safety invariants of      *)
(* History follow from the inductive invariant IInv.  Its argument:        *)
(*   - every receipt is accurate: what it says of the commits it names is  *)
(*     so of the log (Receipted), which gives the two about receipts: what *)
(*     is re-audited was green, what is trusted was verified as asked;     *)
(*   - a close is followed by its receipt or leaves its node unrecorded,   *)
(*     so a receipt that names a kept tree names one younger than any      *)
(*     close (Accounted), and a node resumes from no older one (Resumed);  *)
(*   - what the ledgers call closed is a close (Ledgers), and what a run   *)
(*     holds closed stays what its builds stand on (Grounded);             *)
(*   - a pinned node is open when a run starts, or closed for a dependent  *)
(*     alone, so what closes it at a commit is its rebuild (Rebuilding).   *)
(* The log only grows (Grown), so what was so of a tree stays so.  Before  *)
(* the parts come a lemma for each action, which says once what the action *)
(* does, and StepIs, which splits a step into these.                       *)
(***************************************************************************)
EXTENDS History, SequenceTheorems, FiniteSetTheorems, WellFoundedInduction, TLAPS

(* The invariant                                                           *)

Accepts == [Node -> [smoke : 0..2, audit : 0..2]]
Facts ==
    [kind : {"verified", "kept", "reaudited", "edit", "stack"}, src : Sources \cup {None},
     of : Node \cup {None}, smoke : 0..2, audit : 0..2, needs : SUBSET Node,
     onto : (SUBSET Nat) \cup {None}, after : SUBSET Node, taken : BOOLEAN,
     bare : BOOLEAN, ids : SUBSET Nat]

(* Of a log l: its commits are numbered, and what it says of a tree.        *)
Numbered(l) == \A i \in DOMAIN l : i \in l[i].ids /\ l[i].ids \subseteq 1..i
CommitsOf(l) == {l[i].ids : i \in DOMAIN l}
TreesOf(l) == SUBSET DOMAIN l
Closes(l, i, n, src) == l[i].of = n /\ l[i].src = src /\ l[i].taken
GreenIn(l, tree, n) ==
    \E i \in tree : l[i].of = n /\ l[i].kind = "kept" /\ (l[i].smoke # 0 \/ l[i].bare)
ClosedIn(l, tree, n, src) == \E i \in tree : Closes(l, i, n, src)
RebuiltIn(l, tree, n, stack) ==
    \E i \in tree : l[i].of = n /\ l[i].kind = "verified" /\ stack \subseteq l[i].ids
ClosedBefore(l, n, k) == \A i \in DOMAIN l : l[i].of = n /\ l[i].taken => i < k
NeverClosed(l, n) == \A i \in DOMAIN l : ~(l[i].of = n /\ l[i].taken)

(* What any step does to the log: it forgets nothing of it.                 *)
Grown(l, m) ==
    /\ m \in Seq(Facts) /\ Numbered(m) /\ DOMAIN l \subseteq DOMAIN m
    /\ \A i \in DOMAIN l :
          /\ m[i].kind = l[i].kind /\ m[i].src = l[i].src /\ m[i].of = l[i].of /\ m[i].ids = l[i].ids
          /\ m[i].smoke = l[i].smoke /\ m[i].audit = l[i].audit /\ m[i].needs = l[i].needs
          /\ m[i].onto = l[i].onto /\ m[i].after = l[i].after /\ m[i].bare = l[i].bare
          /\ l[i].taken => m[i].taken

(* A receipt r of n says what is so of the commits it names.                *)
Accurate(l, r, n) ==
    /\ {r.diffRef, r.kept} \subseteq CommitsOf(l) \cup {None}
    /\ r.diffRef # None =>
          /\ l[Top(r.diffRef)].src = r.src
          /\ l[Top(r.diffRef)].kind = "verified" =>
                l[Top(r.diffRef)].smoke = r.smoke /\ l[Top(r.diffRef)].audit = r.audit
    /\ r.kept # None =>
          /\ l[Top(r.kept)].kind = "kept" /\ l[Top(r.kept)].of = n
          /\ r.status = "quarantined" /\ (r.gate = "green" \/ r.records) => GreenIn(l, r.kept, n)

(* TypeOK, with the log, the conductor and the lane spelled out.            *)
LogShape == log \in Seq(Facts) /\ Len(log) <= world.commits /\ Numbered(log)
Commits == CommitsOf(log)
Maybe == Commits \cup {None}
OperatorShape ==
    /\ world \in Worlds /\ accept \in [Sources -> Accepts]
    /\ \A s \in Sources, n \in world.audited : accept[s][n].audit # 0
    /\ edits \in Nat /\ moves \in Nat
RefShape ==
    /\ branch \in [Node -> Maybe] /\ pin \in [Node -> Maybe]
    /\ quarantine \in [Node -> [base : Maybe, busy : Maybe]]
    /\ verified \in [Sources -> [Node -> Maybe]]
    /\ receipts \in [Node -> Receipts \cup {None}] /\ unrecorded \subseteq Node

Runs ==
    [verb : {"run"}, src : Sources, fresh : BOOLEAN, accept : Accepts,
     closed : [Node -> Commits \cup {None, Implied}], trusted : SUBSET Node, settled : SUBSET Node,
     base : [Node -> Commits \cup {ByName}], onto : [Node -> Maybe], after : [Node -> SUBSET Node]]
Audits == [verb : {"audit"}, src : Sources, accept : Accepts, onto : [Node -> {None}]]
ConductorShape == conductor \in {Idle} \cup Runs \cup Audits

Working == [step : {"work"}, node : Node, seed : Maybe, tree : TreesOf(log) \cup {None}]
Emitting == [step : {"emit"}, node : Node, commit : Commits, receipt : Receipts]
Recording ==
    [step : {"record", "close"}, node : Node, commit : {None}, receipt : Receipts]
       \cup [step : {"record", "close"}, node : Node, commit : Commits, receipt : Receipts,
             closes : BOOLEAN]
LaneShape == lane \in {NoLane} \cup Working \cup Emitting \cup Recording

(* A lane has a conductor, and no lane is of a node the run holds closed.   *)
Running == conductor.verb = "run"
InHand == lane.step # "pick"
Settling == lane.step \in {"emit", "record", "close"}
Conducted ==
    /\ InHand => conductor # Idle
    /\ conductor.verb = "audit" => InHand /\ (lane.step = "work" => lane.tree # None)
    /\ Running /\ InHand => conductor.closed[lane.node] = None
    /\ Running =>
          /\ conductor.trusted \cap conductor.settled = {}
          /\ \A n \in conductor.trusted : conductor.closed[n] \in Commits /\ conductor.closed[n] # None

Shape == LogShape /\ OperatorShape /\ RefShape /\ ConductorShape /\ LaneShape /\ Conducted

(* Every receipt is accurate, the one about to be written too.              *)
Receipted ==
    /\ \A n \in Node : receipts[n] # None => Accurate(log, receipts[n], n)
    /\ Settling => Accurate(log, lane.receipt, lane.node)

(* What a re-audit publishes was seen green, and so is what it judges.      *)
Reaudited ==
    /\ ReauditedBuildWasGreen
    /\ conductor.verb = "audit" /\ lane.step = "work" =>
          GreenIn(log, lane.tree, lane.node)

(* A close that left a receipt is followed by it: the latest receipt, when  *)
(* it names a kept tree, names one that is younger than any close.          *)
Pending(n) == lane.step \in {"emit", "record"} /\ lane.node = n
Accounted ==
    /\ \A n \in Node : n \notin unrecorded /\ ~Pending(n) =>
          \/ NeverClosed(log, n)
          \/ receipts[n] # None /\ (receipts[n].kept # None
                => ClosedBefore(log, n, Top(receipts[n].kept)))
    /\ Settling /\ lane.commit # None =>
          /\ lane.receipt.kept = None
          /\ log[Top(lane.commit)].of = lane.node /\ log[Top(lane.commit)].src = conductor.src
    /\ lane.step = "record" /\ lane.receipt.kept # None =>
          ClosedBefore(log, lane.node, Top(lane.receipt.kept))
    /\ lane.step = "close" /\ lane.node \notin unrecorded => receipts[lane.node] = lane.receipt

(* So the tree a node resumes from is younger than any close of it.         *)
Resumed ==
    Running /\ lane.step = "work" /\ lane.seed # None /\ lane.node \notin unrecorded =>
        \/ NeverClosed(log, lane.node)
        \/ \E k \in lane.seed :
              log[k].of = lane.node /\ log[k].kind = "kept" /\ ClosedBefore(log, lane.node, k)

(* What the ledgers say is so.                                              *)
Ledgers ==
    /\ \A s \in Sources, n \in Node :
          verified[s][n] # None => Closes(log, Top(verified[s][n]), n, s)
    /\ moves = 0 => \A n \in Node : branch[n] # None =>
          log[Top(branch[n])].of = n /\ (world.ledger = "git" => log[Top(branch[n])].taken)

(* TrustedCloseWasVerified, of every step of the run.                       *)
Trusted ==
    Running => \A n \in conductor.trusted :
        receipts[n] # None /\ receipts[n].diffRef = conductor.closed[n]
              /\ TrustedAt(n).kind = "verified" =>
            TrustedAt(n).smoke = conductor.accept[n].smoke
                  /\ TrustedAt(n).audit = conductor.accept[n].audit

(* What a run holds closed at a commit is a close of that node, and what it *)
(* would build on it is that commit.                                        *)
Known(d) == conductor.closed[d] \notin {None, Implied}
Grounded ==
    Running /\ moves = 0 =>
        /\ \A d \in Node : Known(d) => Closes(log, Top(conductor.closed[d]), d, conductor.src)
        /\ \A n \in world.nodes, d \in Node :
              d \in Needs(n) /\ conductor.closed[n] = None /\ Known(d) =>
                  \/ conductor.base[d] = conductor.closed[d]
                  \/ conductor.base[d] = ByName /\ branch[d] = conductor.closed[d]
        /\ lane.step = "work" /\ lane.tree # None =>
              \A d \in Needs(lane.node) :
                  conductor.closed[d] # Implied => ClosedIn(log, lane.tree, d, conductor.src)

(* What closes a pinned node at a commit in a run is its rebuild: on its    *)
(* stack, and on the rebuilds before it.                                    *)
Rebuilt(m) == Known(m) \/ (Settling /\ lane.node = m /\ lane.commit # None)
Rebuilding ==
    Running =>
        /\ \A n \in Node : conductor.onto[n] # None =>
              \A m \in conductor.after[n] : conductor.onto[m] = conductor.onto[n]
        /\ \A m \in Node : conductor.onto[m] # None /\ branch[m] # None /\ Rebuilt(m) =>
              RebuiltIn(log, branch[m], m, conductor.onto[m])
        /\ lane.step = "work" /\ lane.tree # None /\ conductor.onto[lane.node] # None =>
              /\ conductor.onto[lane.node] \subseteq lane.tree
              /\ \A m \in conductor.after[lane.node] : conductor.closed[m] # Implied =>
                    RebuiltIn(log, lane.tree, m, conductor.onto[lane.node])

IInv ==
    /\ Shape /\ Receipted /\ Reaudited /\ Accounted /\ Resumed /\ Ledgers /\ Trusted /\ Grounded
    /\ Rebuilding /\ VerifiedStandsOnVerified

(* What the steps do.  A commit is added to the log on top of a tree, ...   *)
New == log'[Len(log) + 1]
Adds(tree) ==
    /\ tree \in TreesOf(log) /\ Grown(log, log') /\ Len(log') <= world.commits
    /\ Len(log) + 1 \notin DOMAIN log /\ DOMAIN log' = DOMAIN log \cup {Len(log) + 1}
    /\ \A i \in DOMAIN log : log'[i] = log[i] /\ i < Len(log) + 1
    /\ On(tree) \in CommitsOf(log') /\ Top(On(tree)) = Len(log) + 1 /\ New.ids = On(tree)
    /\ tree \subseteq On(tree) /\ Len(log) + 1 \in On(tree)

(* ... or one of it is taken.                                               *)
Takes ==
    /\ lane.commit \in Commits /\ Grown(log, log') /\ Len(log') = Len(log) /\ DOMAIN log' = DOMAIN log
    /\ Top(lane.commit) \in DOMAIN log /\ log'[Top(lane.commit)].taken
    /\ \A i \in DOMAIN log : i # Top(lane.commit) => log'[i] = log[i]

Asked == conductor.accept[lane.node]

(* A conductor publishes what it has in hand, ...                           *)
Publishes ==
    /\ lane \in Working /\ Adds(lane.tree) /\ lane.tree # None
    /\ New.src = conductor.src /\ New.of = lane.node /\ New.taken = TakenByGit
    /\ \/ /\ Running /\ New.kind = "verified" /\ New.smoke = Asked.smoke /\ New.audit = Asked.audit
          /\ New.needs = {d \in Needs(lane.node) : conductor.closed[d] # Implied}
          /\ New.onto = conductor.onto[lane.node]
          /\ New.after = {m \in conductor.after[lane.node] : conductor.closed[m] # Implied}
       \/ conductor.verb = "audit" /\ New.kind = "reaudited"
    /\ branch' = [branch EXCEPT ![lane.node] = On(lane.tree)]
    /\ lane'.step = "emit" /\ lane'.node = lane.node /\ lane'.commit = On(lane.tree)
    /\ lane' = [step |-> "emit", node |-> lane.node, commit |-> On(lane.tree), receipt |-> lane'.receipt]
    /\ lane'.receipt \in Receipts /\ lane'.receipt.src = conductor.src
    /\ lane'.receipt.smoke = Asked.smoke /\ lane'.receipt.audit = Asked.audit
    /\ lane'.receipt.status = "publishable"
    /\ lane'.receipt.diffRef = On(lane.tree) /\ lane'.receipt.kept = None
    /\ UNCHANGED <<world, accept, edits, moves, quarantine, pin, receipts, verified, conductor,
          unrecorded>>

(* ... or settles it otherwise, ...                                         *)
Settles ==
    /\ lane \in Working
    /\ lane'.step = "record" /\ lane'.node = lane.node /\ lane'.commit = None
    /\ lane' = [step |-> "record", node |-> lane.node, commit |-> None, receipt |-> lane'.receipt]
    /\ lane'.receipt \in Receipts /\ lane'.receipt.diffRef = None
    /\ UNCHANGED <<world, accept, edits, branch, pin, receipts, verified, conductor, unrecorded>>

(* ... its tree kept or not.                                                *)
Keeps ==
    /\ Settles /\ Adds(lane.tree) /\ New.kind = "kept" /\ New.of = lane.node /\ ~New.taken
    /\ Running /\ (lane'.receipt.gate = "green" \/ lane'.receipt.records) => New.smoke # 0 \/ New.bare
    /\ quarantine' \in {[quarantine EXCEPT ![lane.node][at] = On(lane.tree)] : at \in {"base", "busy"}}
    /\ moves' \in {moves, moves + 1} /\ lane'.receipt.kept = On(lane.tree)
Drops == Settles /\ log' = log /\ quarantine' = quarantine /\ moves' = moves /\ lane'.receipt.kept = None

(* What is done behind its back adds commits nobody closed.                 *)
Unclosed(tree) == Adds(tree) /\ New.kind \in {"edit", "stack"} /\ ~New.taken
Logged == log' = log \/ Takes \/ \E tree : Adds(tree)

(* The ledger answers, or throws.                                           *)
Answers ==
    /\ lane \in Emitting
    /\ lane'.step = "record" /\ lane'.node = lane.node /\ lane'.commit = lane.commit
    /\ lane'.receipt = lane.receipt /\ lane'.closes \in BOOLEAN
    /\ lane' = [step |-> "record", node |-> lane.node, commit |-> lane.commit, receipt |-> lane.receipt,
                closes |-> lane'.closes]
    /\ \/ Takes /\ verified' = [verified EXCEPT ![conductor.src][lane.node] = lane.commit]
       \/ UNCHANGED <<verified, log>>
    /\ UNCHANGED <<world, accept, edits, moves, branch, quarantine, pin, receipts, conductor, unrecorded>>

(* A run goes on: it has closed or settled a node, or neither.              *)
GoesOn ==
    /\ Running /\ conductor' \in Runs' /\ conductor'.src = conductor.src
    /\ conductor'.accept = conductor.accept /\ conductor'.trusted = conductor.trusted
    /\ conductor'.onto = conductor.onto /\ conductor'.after = conductor.after
Leaves ==
    /\ lane' = NoLane
    /\ \/ conductor' = Idle
       \/ /\ GoesOn /\ InHand /\ conductor'.settled = conductor.settled \cup {lane.node}
          /\ conductor'.closed = conductor.closed /\ conductor'.base = conductor.base
Closing ==
    /\ lane \in Recording /\ lane.step = "close" /\ lane.commit # None
    /\ Takes /\ GoesOn /\ lane' = NoLane /\ conductor'.settled = conductor.settled
    /\ conductor'.closed = [conductor.closed EXCEPT ![lane.node] = lane.commit]
    /\ conductor'.base = [conductor.base EXCEPT ![lane.node] = lane.commit]
    /\ pin' \in {pin, [pin EXCEPT ![lane.node] = None]}
    /\ UNCHANGED <<world, operator, branch, quarantine, receipts, verified, unrecorded>>

(* A run starts: what it trusts is what its ledger has and no receipt       *)
(* contradicts, what it is to rebuild is open, and what it would build on   *)
(* names what it found closed.                                              *)
Starts(src) ==
    /\ conductor = Idle /\ lane = NoLane /\ src \in Sources /\ conductor' \in Runs
    /\ conductor'.src = src /\ conductor'.accept = accept[src] /\ conductor'.settled = {}
    /\ \A n \in conductor'.trusted :
          /\ conductor'.closed[n] = Ledger(src)[n] /\ Ledger(src)[n] \in Commits /\ Ledger(src)[n] # None
          /\ n \notin AcceptanceChanged(src, Ledger(src))
    /\ \A n \in Node : conductor'.closed[n] \notin {None, Implied} => n \in conductor'.trusted
    /\ \A n \in Node : conductor'.onto[n] # None =>
          /\ conductor'.closed[n] \in {None, Implied}
          /\ \A m \in conductor'.after[n] : conductor'.onto[m] = conductor'.onto[n]
    /\ \A n \in world.nodes, d \in Node :
          d \in Needs(n) /\ conductor'.closed[n] = None /\ conductor'.closed[d] \notin {None, Implied} =>
              \/ conductor'.base[d] = conductor'.closed[d]
              \/ conductor'.base[d] = ByName /\ branch[d] = conductor'.closed[d]
    /\ UNCHANGED <<world, operator, refs, receipts, verified, lane, log, unrecorded>>

(* A node is launched on its bases, or judged again on its kept tree.       *)
Launches(n) ==
    /\ Running /\ lane = NoLane /\ n \in Node /\ Ready(n)
    /\ lane' \in Working /\ lane'.step = "work" /\ lane'.node = n /\ lane'.seed \in Seeds(n)
    /\ lane'.tree = Tree(Bases(n, lane'.seed))
    /\ UNCHANGED <<world, operator, refs, receipts, verified, conductor, log, unrecorded>>
Rejudges(n) ==
    /\ conductor = Idle /\ lane = NoLane /\ n \in Node
    /\ conductor' \in Audits /\ conductor'.verb = "audit"
    /\ lane' \in Working /\ lane'.step = "work" /\ lane'.node = n /\ lane'.tree # None
    /\ receipts[n] # None /\ receipts[n].kept # None /\ receipts[n].status = "quarantined"
    /\ receipts[n].records /\ receipts[n].kept \subseteq lane'.tree
    /\ UNCHANGED <<world, operator, refs, receipts, verified, log, unrecorded>>

(* The receipt is written, or is not.                                       *)
Records ==
    /\ lane \in Recording /\ lane.step = "record" /\ lane' \in Recording
    /\ lane'.step = "close" /\ lane'.node = lane.node /\ lane'.commit = lane.commit
    /\ lane'.receipt = lane.receipt
    /\ \/ /\ receipts' = [receipts EXCEPT ![lane.node] = lane.receipt]
          /\ unrecorded' = unrecorded \ {lane.node}
       \/ UNCHANGED receipts /\ unrecorded' = unrecorded \cup {lane.node}
    /\ UNCHANGED <<world, operator, refs, verified, conductor, log>>
Stops ==
    /\ Leaves /\ log' = log
    /\ unrecorded' = unrecorded \cup (IF lane.step \in {"emit", "record"} THEN {lane.node} ELSE {})
    /\ UNCHANGED <<world, operator, refs, receipts, verified>>
Edits ==
    /\ OperatorShape' /\ UNCHANGED <<world, moves, refs, receipts, verified, conductor, lane, log,
          unrecorded>>
MovesBranch(n) ==
    /\ n \in Node /\ moves' = moves + 1 /\ branch[n] # None
    /\ \/ branch' = [branch EXCEPT ![n] = None] /\ UNCHANGED log
       \/ branch' = [branch EXCEPT ![n] = On(branch[n])] /\ Unclosed(branch[n])
    /\ UNCHANGED <<world, accept, edits, quarantine, pin, receipts, verified, conductor, lane,
          unrecorded>>
MovesQuarantine(n) ==
    /\ n \in Node /\ moves' = moves + 1
    /\ \/ quarantine' = [quarantine EXCEPT ![n].base = None] /\ UNCHANGED log
       \/ /\ quarantine' = [quarantine EXCEPT ![n].base = On(quarantine[n].base)]
          /\ Unclosed(quarantine[n].base)
    /\ UNCHANGED <<world, accept, edits, branch, pin, receipts, verified, conductor, lane, unrecorded>>
Pins(stack, conflicts) ==
    /\ Unclosed(stack)
    /\ pin' = [n \in Node |-> IF n \in conflicts THEN On(stack) ELSE pin[n]]
    /\ UNCHANGED <<world, operator, branch, quarantine, receipts, verified, conductor, lane, unrecorded>>

-----------------------------------------------------------------------------
(* Logs                                                                    *)

(* A commit of a log is named by the last of what it descends from.         *)
LEMMA TopOfCommit ==
    ASSUME NEW l \in Seq(Facts), Numbered(l), NEW c \in CommitsOf(l)
    PROVE  /\ Top(c) \in DOMAIN l /\ Top(c) \in c /\ l[Top(c)].ids = c
           /\ c \subseteq 1..Top(c) /\ c \in TreesOf(l)
<1>1. PICK i \in DOMAIN l : c = l[i].ids
  BY DEF CommitsOf
<1>2. i \in c /\ c \subseteq 1..i /\ i \in Nat /\ DOMAIN l = 1..Len(l) /\ Len(l) \in Nat
  BY <1>1 DEF Numbered
<1>3. \A j \in c : j <= i
  BY <1>2
<1>4. Top(c) \in c /\ \A j \in c : j <= Top(c)
  BY <1>2, <1>3 DEF Top
<1>5. Top(c) = i
  BY <1>2, <1>3, <1>4
<1> QED
  BY <1>1, <1>2, <1>5 DEF TreesOf

(* What was so of a tree stays so as the log grows, and of larger trees.    *)
LEMMA StaysSo ==
    ASSUME NEW l, NEW m, Grown(l, m), NEW tree \in TreesOf(l), NEW more, tree \subseteq more,
           NEW n, NEW src, NEW stack
    PROVE  /\ GreenIn(l, tree, n) => GreenIn(m, more, n)
           /\ ClosedIn(l, tree, n, src) => ClosedIn(m, more, n, src)
           /\ RebuiltIn(l, tree, n, stack) => RebuiltIn(m, more, n, stack)
<1>1. \A i \in tree : i \in DOMAIN l /\ i \in more
  BY DEF TreesOf
<1> QED
  BY <1>1 DEF Grown, GreenIn, ClosedIn, RebuiltIn, Closes

(* So do commits, and what a receipt says of them.                          *)
LEMMA CommitsStay ==
    ASSUME NEW l \in Seq(Facts), Numbered(l), NEW m, Grown(l, m)
    PROVE  CommitsOf(l) \subseteq CommitsOf(m)
BY DEF CommitsOf, Grown

(* What a receipt says stays so.                                            *)
LEMMA StaysAccurate ==
    ASSUME NEW l \in Seq(Facts), Numbered(l), NEW m, Grown(l, m), NEW r, NEW n, Accurate(l, r, n)
    PROVE  Accurate(m, r, n)
<1>1. CommitsOf(l) \subseteq CommitsOf(m)
  BY CommitsStay
<1>2. {r.diffRef, r.kept} \subseteq CommitsOf(l) \cup {None}
  BY DEF Accurate
<1>3. r.diffRef # None => Top(r.diffRef) \in DOMAIN l
  BY <1>2, TopOfCommit
<1>4. r.kept # None => Top(r.kept) \in DOMAIN l /\ r.kept \in TreesOf(l)
  BY <1>2, TopOfCommit
<1>5. r.kept # None => (GreenIn(l, r.kept, n) => GreenIn(m, r.kept, n))
  BY <1>4, StaysSo
<1>6. ASSUME r.diffRef # None
      PROVE  /\ m[Top(r.diffRef)].src = r.src
             /\ m[Top(r.diffRef)].kind = "verified" =>
                   m[Top(r.diffRef)].smoke = r.smoke /\ m[Top(r.diffRef)].audit = r.audit
  BY <1>3, <1>6 DEF Accurate, Grown
<1>7. ASSUME r.kept # None PROVE m[Top(r.kept)].kind = "kept" /\ m[Top(r.kept)].of = n
  BY <1>4, <1>7 DEF Accurate, Grown
<1>8. r.kept # None /\ r.status = "quarantined" /\ (r.gate = "green" \/ r.records)
      => GreenIn(m, r.kept, n)
  BY <1>5 DEF Accurate
<1> QED
  BY <1>1, <1>2, <1>6, <1>7, <1>8 DEF Accurate

(* The world is one of the worlds.                                          *)
LEMMA WorldIsOne ==
    ASSUME OperatorShape
    PROVE  /\ world.commits \in Nat /\ world.nodes \subseteq Node /\ world.sources \subseteq Sources
           /\ world.needs \in [Node -> SUBSET Node] /\ world.audited \subseteq world.nodes
           /\ world.ledger \in {"git", "tend"}
           /\ world.smoke \in 0..2 /\ world.smokes \subseteq 0..2
BY HistoryAssumption DEF OperatorShape

(* A commit is made on top of a tree.                                       *)
LEMMA MakeDoes ==
    ASSUME LogShape, OperatorShape, NEW fact \in Facts, NEW tree \in TreesOf(log), Make(fact, tree)
    PROVE  /\ Adds(tree) /\ New.kind = fact.kind /\ New.src = fact.src /\ New.of = fact.of
           /\ New.smoke = fact.smoke /\ New.audit = fact.audit /\ New.needs = fact.needs
           /\ New.onto = fact.onto /\ New.after = fact.after /\ New.taken = fact.taken
           /\ New.bare = fact.bare
<1> DEFINE new == [fact EXCEPT !.ids = On(tree)]
<1>1. Len(log) \in Nat /\ DOMAIN log = 1..Len(log) /\ tree \subseteq 1..Len(log)
  BY DEF LogShape, TreesOf
<1>2. On(tree) \in SUBSET Nat /\ On(tree) \subseteq 1..(Len(log) + 1) /\ Len(log) + 1 \in On(tree)
  <2>1. Len(log) + 1 \in On(tree)
    BY DEF On
  <2>2. ASSUME NEW i \in On(tree) PROVE i \in Nat /\ i \in 1..(Len(log) + 1)
    <3>1. i = Len(log) + 1 \/ i \in 1..Len(log)
      BY <1>1, <2>2 DEF On
    <3> QED
      BY <1>1, <3>1
  <2> QED
    BY <2>1, <2>2
<1>3. new \in Facts /\ new.ids = On(tree)
  <2>1. new.ids = On(tree)
    BY DEF Facts
  <2> QED
    BY <1>2, <2>1 DEF Facts
<1>4. log' = Append(log, new) /\ Len(log) < world.commits
  BY DEF Make
<1> HIDE DEF new
<1>5. /\ log' \in Seq(Facts) /\ Len(log') = Len(log) + 1 /\ DOMAIN log' = 1..(Len(log) + 1)
      /\ \A i \in DOMAIN log : log'[i] = log[i]
      /\ log'[Len(log) + 1] = new
  BY <1>1, <1>3, <1>4, AppendProperties DEF LogShape
<1>6. Len(log) + 1 \notin DOMAIN log /\ DOMAIN log' = DOMAIN log \cup {Len(log) + 1}
  BY <1>1, <1>5
<1>7. Numbered(log')
  <2>1. ASSUME NEW i \in DOMAIN log PROVE i \in log'[i].ids /\ log'[i].ids \subseteq 1..i
    BY <1>5 DEF LogShape, Numbered
  <2>2. Len(log) + 1 \in log'[Len(log) + 1].ids /\ log'[Len(log) + 1].ids \subseteq 1..(Len(log) + 1)
    BY <1>2, <1>3, <1>5
  <2> QED
    BY <1>6, <2>1, <2>2 DEF Numbered
<1>8. Grown(log, log')
  BY <1>5, <1>6, <1>7 DEF Grown
<1>9. On(tree) \in CommitsOf(log')
  BY <1>3, <1>5, <1>6 DEF CommitsOf
<1>10. Top(On(tree)) = Len(log) + 1
  <2>1. \A j \in On(tree) : j <= Len(log) + 1
    BY <1>1, <1>2
  <2>2. Top(On(tree)) \in On(tree) /\ \A j \in On(tree) : j <= Top(On(tree))
    BY <1>2, <2>1 DEF Top
  <2> QED
    BY <1>1, <1>2, <2>1, <2>2
<1>11. Len(log') <= world.commits
  <2>1. world.commits \in Nat
    BY WorldIsOne
  <2> QED
    BY <1>1, <1>4, <1>5, <2>1
<1>12. Adds(tree)
  <2>1. \A i \in DOMAIN log : log'[i] = log[i] /\ i < Len(log) + 1
    BY <1>1, <1>5
  <2>2. New.ids = On(tree) /\ tree \subseteq On(tree)
    BY <1>3, <1>5 DEF New, On
  <2> QED
    BY <1>2, <1>6, <1>8, <1>9, <1>10, <1>11, <2>1, <2>2 DEF Adds
<1>13. New = [fact EXCEPT !.ids = On(tree)]
  BY <1>5 DEF New, new
<1> QED
  BY <1>12, <1>13 DEF Facts

(* The ledger takes a commit.                                               *)
LEMMA TakeDoes ==
    ASSUME LogShape, lane.commit \in Commits, Take
    PROVE  Takes
<1> DEFINE t == Top(lane.commit)
<1>1. t \in DOMAIN log
  BY TopOfCommit DEF LogShape, Commits
<1> HIDE DEF t
<1>2. log' = [log EXCEPT ![t].taken = TRUE]
  BY DEF Take, t
<1>3. log[t] \in Facts /\ [log[t] EXCEPT !.taken = TRUE] \in Facts
  <2>1. log[t] \in Facts
    BY <1>1 DEF LogShape
  <2> QED
    BY <2>1 DEF Facts
<1>4. /\ log' = [log EXCEPT ![t] = [log[t] EXCEPT !.taken = TRUE]]
      /\ log'[t] = [log[t] EXCEPT !.taken = TRUE]
      /\ \A i \in DOMAIN log : i # t => log'[i] = log[i]
      /\ DOMAIN log' = DOMAIN log
  BY <1>1, <1>2 DEF LogShape
<1>5. log' \in Seq(Facts) /\ Len(log') = Len(log)
  BY <1>1, <1>3, <1>4 DEF LogShape
<1>6. /\ log'[t].kind = log[t].kind /\ log'[t].src = log[t].src /\ log'[t].of = log[t].of
      /\ log'[t].ids = log[t].ids /\ log'[t].smoke = log[t].smoke /\ log'[t].audit = log[t].audit
      /\ log'[t].needs = log[t].needs /\ log'[t].onto = log[t].onto /\ log'[t].after = log[t].after
      /\ log'[t].taken /\ log'[t].bare = log[t].bare
  BY <1>3, <1>4 DEF Facts
<1>7. Numbered(log')
  <2>1. \A i \in DOMAIN log : log'[i].ids = log[i].ids
    BY <1>4, <1>6
  <2> QED
    BY <1>4, <2>1 DEF LogShape, Numbered
<1>8. Grown(log, log')
  <2>1. ASSUME NEW i \in DOMAIN log
        PROVE  /\ log'[i].kind = log[i].kind /\ log'[i].src = log[i].src /\ log'[i].of = log[i].of
               /\ log'[i].ids = log[i].ids /\ log'[i].smoke = log[i].smoke
               /\ log'[i].audit = log[i].audit /\ log'[i].needs = log[i].needs
               /\ log'[i].onto = log[i].onto /\ log'[i].after = log[i].after
               /\ log'[i].bare = log[i].bare
               /\ log[i].taken => log'[i].taken
    <3>1. CASE i = t
      BY <1>6, <3>1
    <3>2. CASE i # t
      BY <1>4, <3>2
    <3> QED
      BY <3>1, <3>2
  <2> QED
    BY <1>4, <1>5, <1>7, <2>1 DEF Grown
<1> QED
  BY <1>1, <1>4, <1>5, <1>6, <1>7, <1>8 DEF t, Takes

(* And most steps leave the log alone.                                      *)
LEMMA SameLog ==
    ASSUME LogShape, log' = log
    PROVE  Grown(log, log')
BY DEF LogShape, Grown

-----------------------------------------------------------------------------
(* What a conductor finds                                                   *)

(* A set of naturals has a least member: what the inductions below rest on. *)
LEMMA LeastNat ==
    ASSUME NEW T, T \subseteq Nat, T # {}
    PROVE  \E x \in T : \A y \in T : ~(y < x)
<1>1. \E x \in T : \A y \in T : ~(<<y, x>> \in OpToRel(<, Nat))
  BY WFMin, NatLessThanWellFounded
<1> QED
  BY <1>1 DEF OpToRel

(* Induction, over a set of naturals where the library has an operator.     *)
LEMMA UpTo ==
    ASSUME NEW n \in Nat, NEW T, 0 \in T, \A m \in 0..n : m \in T /\ m < n => m + 1 \in T
    PROVE  0..n \subseteq T
<1> DEFINE bad == (0..n) \ T
<1> SUFFICES ASSUME bad # {} PROVE FALSE
  OBVIOUS
<1>0. bad \subseteq Nat
  OBVIOUS
<1>1. PICK m \in bad : \A y \in bad : ~(y < m)
  <2> HIDE DEF bad
  <2> QED
    BY <1>0, LeastNat
<1>2. m # 0 /\ m - 1 \in 0..n /\ m - 1 < m /\ m - 1 < n
  BY <1>1
<1>3. m - 1 \in T
  BY <1>1, <1>2
<1>4. (m - 1) + 1 \in T /\ (m - 1) + 1 = m
  BY <1>2, <1>3
<1> QED
  BY <1>1, <1>4

(* And a set of naturals up to some number has a greatest.                  *)
LEMMA GreatestNat ==
    ASSUME NEW n \in Nat, NEW T, T \subseteq 1..n, T # {}
    PROVE  \E t \in T : \A j \in T : j <= t
<1> DEFINE above == {m \in Nat : \A j \in T : j <= m}
<1>1. n \in above
  OBVIOUS
<1>2. PICK t \in above : \A y \in above : ~(y < t)
  <2>1. above \subseteq Nat /\ above # {}
    BY <1>1
  <2> HIDE DEF above
  <2> QED
    BY <2>1, LeastNat
<1>3. t \in Nat /\ \A j \in T : j <= t
  BY <1>2
<1>4. t \in T
  <2> SUFFICES ASSUME t \notin T PROVE FALSE
    OBVIOUS
  <2>1. \A j \in T : j \in Nat /\ j # 0 /\ j <= t - 1
    BY <1>3
  <2>2. t - 1 \in Nat
    <3>1. PICK j : j \in T
      OBVIOUS
    <3>2. j \in Nat /\ j # 0 /\ j <= t - 1
      BY <2>1, <3>1
    <3> QED
      BY <1>3, <3>2
  <2>3. t - 1 \in above /\ t - 1 < t
    BY <2>1, <2>2
  <2> QED
    BY <1>2, <2>3
<1> QED
  BY <1>3, <1>4

(* The plan is a finite list.                                               *)
LEMMA OrderIsFinite == Len(Order) \in Nat
BY HistoryAssumption

(* The cascade gives nobody his close back.                                 *)
LEMMA CascadeKeeps ==
    ASSUME NEW invalid, NEW closed
    PROVE  invalid \subseteq Cascade(invalid, closed)
<1> DEFINE next(q) == q \cup {n \in closed : Needs(n) \cap q # {}}
           up(f, m) == f = [i \in 0..m |-> IF i = 0 THEN invalid ELSE next(f[i - 1])]
<1>1. Len(Order) \in Nat /\ \A q : q \subseteq next(q)
  BY OrderIsFinite
<1> HIDE DEF next
<1>2. \E f : up(f, Len(Order))
  <2> DEFINE T == {m \in Nat : \E f : up(f, m)}
  <2>1. up([i \in 0..0 |-> invalid], 0)
    OBVIOUS
  <2>2. ASSUME NEW m \in 0..Len(Order), m \in T PROVE m + 1 \in T
    <3>1. m \in Nat
      BY <1>1
    <3>2. PICK f : up(f, m)
      BY <2>2
    <3> DEFINE g == [i \in 0..(m + 1) |-> IF i = m + 1 THEN next(f[m]) ELSE f[i]]
    <3>3. up(g, m + 1)
      <4>1. \A i \in 0..(m + 1) : g[i] = IF i = 0 THEN invalid ELSE next(g[i - 1])
        BY <3>1, <3>2
      <4> QED
        BY <4>1
    <3> HIDE DEF up, g
    <3> QED
      BY <3>1, <3>3
  <2> HIDE DEF up
  <2>3. 0..Len(Order) \subseteq T
    BY <1>1, <2>1, <2>2, UpTo
  <2> QED
    BY <1>1, <2>3
<1>3. PICK f : up(f, Len(Order)) /\ Cascade(invalid, closed) = f[Len(Order)]
  <2> DEFINE g == CHOOSE f : up(f, Len(Order))
  <2>1. up(g, Len(Order))
    BY <1>1, <1>2
  <2>2. Cascade(invalid, closed) = g[Len(Order)]
    BY DEF Cascade, next
  <2> QED
    BY <2>1, <2>2
<1> DEFINE T == {m \in 0..Len(Order) : invalid \subseteq f[m]}
<1>4. 0 \in T /\ \A m \in 0..Len(Order) : m \in T /\ m < Len(Order) => m + 1 \in T
  <2>1. f[0] = invalid
    BY <1>1, <1>3
  <2>2. \A m \in 0..Len(Order) : m < Len(Order) => f[m + 1] = next(f[m])
    BY <1>1, <1>3
  <2> QED
    BY <1>1, <2>1, <2>2
<1>5. 0..Len(Order) \subseteq T
  <2> HIDE DEF T
  <2> QED
    BY <1>1, <1>4, UpTo
<1>6. invalid \subseteq f[Len(Order)]
  <2>1. Len(Order) \in 0..Len(Order)
    BY <1>1
  <2> QED
    BY <1>5, <2>1
<1> QED
  BY <1>3, <1>6

(* Who is trusted is closed at what was found, the others by a dependent or *)
(* not at all.                                                              *)
LEMMA SeedClosureCloses ==
    ASSUME NEW found, NEW trusted, NEW n \in Node
    PROVE  LET closed == SeedClosure(found, trusted)
           IN /\ n \in trusted => closed[n] = found[n]
              /\ n \notin trusted => closed[n] \in {Implied, None}
BY DEF SeedClosure

-----------------------------------------------------------------------------
(* What the steps do                                                       *)

(* Who has what in hand.                                                    *)
LEMMA LaneIs ==
    ASSUME Shape
    PROVE  /\ lane.step \in {"pick", "work", "emit", "record", "close"}
           /\ lane.step = "work" => lane \in Working
           /\ lane.step = "emit" => lane \in Emitting
           /\ lane.step \in {"record", "close"} => lane \in Recording
           /\ lane.step = "pick" <=> lane = NoLane
           /\ InHand => lane.node \in Node
BY DEF Shape, LaneShape, NoLane, Working, Emitting, Recording, InHand

(* Who is at work.                                                          *)
LEMMA ConductorIs ==
    ASSUME Shape
    PROVE  /\ conductor.verb \in {"idle", "run", "audit"}
           /\ conductor.verb = "idle" <=> conductor = Idle
           /\ Running => conductor \in Runs
           /\ conductor.verb = "audit" => conductor \in Audits
           /\ conductor.verb # "idle" =>
                 /\ conductor.src \in Sources /\ conductor.accept \in Accepts
                 /\ conductor.onto \in [Node -> Maybe]
BY DEF Shape, ConductorShape, Idle, Runs, Audits, Running, Maybe

(* The receipt of a close is a receipt.                                     *)
LEMMA ReceiptIs ==
    ASSUME Shape, lane \in Working, conductor.verb # "idle",
           NEW status \in {"publishable", "quarantined"}, NEW gate \in {"none", "green"},
                 NEW records \in BOOLEAN
    PROVE  LET r == Receipt(status, gate, records)
           IN /\ r \in Receipts /\ r.src = conductor.src /\ r.status = status /\ r.gate = gate
              /\ r.records = records /\ r.smoke = Asked.smoke /\ r.audit = Asked.audit
              /\ r.diffRef = None /\ r.kept = None
<1>1. lane.node \in Node /\ conductor.src \in Sources /\ conductor.accept \in Accepts
  BY ConductorIs DEF Working
<1>2. Asked \in [smoke : 0..2, audit : 0..2]
  BY <1>1 DEF Asked, Accepts
<1>3. Asked.smoke \in 0..2 /\ Asked.audit \in 0..2
  BY <1>2
<1> DEFINE base == lane.seed # None \/ conductor.onto[lane.node] # None
           r == [src |-> conductor.src, status |-> status, gate |-> gate, records |-> records,
                 smoke |-> Asked.smoke, audit |-> Asked.audit,
                 base |-> base, diffRef |-> None, kept |-> None, at |-> "base"]
<1>4. base \in BOOLEAN
  OBVIOUS
<1>5. Receipt(status, gate, records) = r
  BY DEF Receipt, Asked
<1> HIDE DEF base
<1>6. r \in Receipts
  BY <1>1, <1>3, <1>4 DEF Receipts
<1> QED
  BY <1>5, <1>6

(* A verified or re-audited tree is published.                              *)
LEMMA PublishDoes ==
    ASSUME Shape, lane \in Working, lane.tree \in TreesOf(log), NEW fact \in Facts, NEW r \in Receipts,
           r.diffRef = None, Publish(fact, r)
    PROVE  /\ Adds(lane.tree) /\ New.kind = fact.kind /\ New.src = fact.src /\ New.of = fact.of
           /\ New.smoke = fact.smoke /\ New.audit = fact.audit /\ New.needs = fact.needs
           /\ New.onto = fact.onto /\ New.after = fact.after /\ New.taken = TakenByGit
           /\ branch' = [branch EXCEPT ![lane.node] = On(lane.tree)]
           /\ lane' = [step |-> "emit", node |-> lane.node, commit |-> On(lane.tree),
                 receipt |-> lane'.receipt]
           /\ lane'.receipt \in Receipts
           /\ lane'.receipt.src = r.src /\ lane'.receipt.status = r.status /\ lane'.receipt.kept = r.kept
           /\ lane'.receipt.smoke = r.smoke /\ lane'.receipt.audit = r.audit
           /\ lane'.receipt.diffRef = On(lane.tree)
           /\ UNCHANGED <<world, accept, edits, moves, quarantine, pin, receipts, verified, conductor,
                          unrecorded>>
<1> DEFINE f == [fact EXCEPT !.taken = TakenByGit]
           s == [r EXCEPT !.diffRef = On(lane.tree)]
<1>1. f \in Facts /\ f.kind = fact.kind /\ f.src = fact.src /\ f.of = fact.of /\ f.smoke = fact.smoke
      /\ f.audit = fact.audit /\ f.needs = fact.needs /\ f.onto = fact.onto /\ f.after = fact.after
      /\ f.taken = TakenByGit
  BY DEF Facts, TakenByGit
<1>2. Make(f, lane.tree)
  BY DEF Publish
<1> HIDE DEF f
<1>3. Adds(lane.tree) /\ New.kind = f.kind /\ New.src = f.src /\ New.of = f.of /\ New.smoke = f.smoke
      /\ New.audit = f.audit /\ New.needs = f.needs /\ New.onto = f.onto /\ New.after = f.after
      /\ New.taken = f.taken
  BY <1>1, <1>2, MakeDoes DEF Shape
<1>4. On(lane.tree) \in SUBSET Nat
  <2>1. lane.tree \subseteq Nat /\ Len(log) + 1 \in Nat
    BY DEF TreesOf, Shape, LogShape
  <2> QED
    BY <2>1 DEF On
<1>5. s \in Receipts /\ s.src = r.src /\ s.status = r.status /\ s.kept = r.kept /\ s.smoke = r.smoke
      /\ s.audit = r.audit /\ s.diffRef = On(lane.tree)
  BY <1>4 DEF Receipts
<1>6. lane' = [step |-> "emit", node |-> lane.node, commit |-> On(lane.tree), receipt |-> s]
  BY DEF Publish
<1> HIDE DEF s
<1>7. lane'.receipt = s
  BY <1>6
<1> QED
  BY <1>1, <1>3, <1>5, <1>6, <1>7 DEF Publish

(* A run publishes what it verified, ...                                    *)
LEMMA VerifyDoes == Shape /\ Verify => Publishes
<1> SUFFICES ASSUME Shape, Verify PROVE Publishes
  OBVIOUS
<1> DEFINE n == lane.node
           fact == [Fact("verified", conductor.src, n) EXCEPT
                      !.smoke = conductor.accept[n].smoke, !.audit = conductor.accept[n].audit,
                      !.needs = {d \in Needs(n) : conductor.closed[d] # Implied},
                      !.onto = conductor.onto[n],
                      !.after = {m \in conductor.after[n] : conductor.closed[m] # Implied}]
           r == Receipt("publishable", SmokeRecord(n), Audited(n))
<1>1. Running /\ lane.step = "work" /\ lane.tree # None /\ Publish(fact, r)
  BY DEF Verify, Running
<1>2. lane \in Working /\ n \in Node /\ lane.tree \in TreesOf(log)
  BY <1>1, LaneIs DEF Working
<1>3. conductor \in Runs /\ conductor.verb # "idle"
  BY <1>1, ConductorIs DEF Running
<1>4. r \in Receipts /\ r.src = conductor.src /\ r.status = "publishable" /\ r.smoke = Asked.smoke
      /\ r.audit = Asked.audit /\ r.diffRef = None /\ r.kept = None
  <2>1. Audited(n) \in BOOLEAN /\ SmokeRecord(n) \in {"none", "green"}
    BY DEF Audited, SmokeRecord
  <2> QED
    BY <1>2, <1>3, <2>1, ReceiptIs
<1>5. fact \in Facts /\ fact.kind = "verified" /\ fact.src = conductor.src /\ fact.of = n
      /\ fact.smoke = Asked.smoke /\ fact.audit = Asked.audit
      /\ fact.needs = {d \in Needs(n) : conductor.closed[d] # Implied}
      /\ fact.onto = conductor.onto[n]
      /\ fact.after = {m \in conductor.after[n] : conductor.closed[m] # Implied}
  <2>1. Asked \in [smoke : 0..2, audit : 0..2] /\ conductor.src \in Sources
    BY <1>2, <1>3 DEF Asked, Accepts, Runs
  <2>2. Asked.smoke \in 0..2 /\ Asked.audit \in 0..2
    BY <2>1
  <2>3. /\ conductor.onto[n] \in (SUBSET Nat) \cup {None}
        /\ {m \in conductor.after[n] : conductor.closed[m] # Implied} \in SUBSET Node
    <3>1. conductor.onto[n] \in Maybe /\ conductor.after[n] \in SUBSET Node
      BY <1>2, <1>3 DEF Runs
    <3>2. ASSUME NEW c \in Commits PROVE c \in SUBSET Nat
      BY <3>2, TopOfCommit DEF Commits, Shape, LogShape
    <3>3. CASE conductor.onto[n] \in Commits
      BY <3>1, <3>2, <3>3
    <3>4. CASE conductor.onto[n] = None
      BY <3>1, <3>4
    <3> QED
      BY <3>1, <3>3, <3>4 DEF Maybe
  <2>4. {d \in Needs(n) : conductor.closed[d] # Implied} \in SUBSET Node
    BY <1>2, WorldIsOne DEF Shape, Needs
  <2> QED
    BY <1>2, <2>1, <2>2, <2>3, <2>4 DEF Fact, Facts, Asked
<1> HIDE DEF fact, r
<1>6. /\ Adds(lane.tree) /\ New.kind = fact.kind /\ New.src = fact.src /\ New.of = fact.of
      /\ New.smoke = fact.smoke /\ New.audit = fact.audit /\ New.needs = fact.needs
      /\ New.onto = fact.onto /\ New.after = fact.after /\ New.taken = TakenByGit
      /\ branch' = [branch EXCEPT ![lane.node] = On(lane.tree)]
      /\ lane' = [step |-> "emit", node |-> lane.node, commit |-> On(lane.tree),
            receipt |-> lane'.receipt]
      /\ lane'.receipt \in Receipts
      /\ lane'.receipt.src = r.src /\ lane'.receipt.status = r.status /\ lane'.receipt.kept = r.kept
      /\ lane'.receipt.smoke = r.smoke /\ lane'.receipt.audit = r.audit
      /\ lane'.receipt.diffRef = On(lane.tree)
      /\ UNCHANGED <<world, accept, edits, moves, quarantine, pin, receipts, verified, conductor,
                     unrecorded>>
  BY <1>1, <1>2, <1>4, <1>5, PublishDoes
<1>7. lane'.step = "emit" /\ lane'.node = lane.node /\ lane'.commit = On(lane.tree)
  BY <1>6
<1> QED
  BY <1>1, <1>2, <1>4, <1>5, <1>6, <1>7 DEF Publishes

(* ... a re-audit what it passed.                                           *)
LEMMA AuditPassesDoes == Shape /\ AuditPasses /\ lane.tree # None => Publishes
<1> SUFFICES ASSUME Shape, AuditPasses, lane.tree # None PROVE Publishes
  OBVIOUS
<1> DEFINE n == lane.node
           fact == [Fact("reaudited", conductor.src, n) EXCEPT !.audit = conductor.accept[n].audit]
           r == Receipt("publishable", "none", TRUE)
<1>1. conductor.verb = "audit" /\ lane.step = "work" /\ Publish(fact, r)
  BY DEF AuditPasses
<1>2. lane \in Working /\ n \in Node /\ lane.tree \in TreesOf(log)
  BY <1>1, LaneIs DEF Working
<1>3. conductor \in Audits /\ conductor.verb # "idle"
  BY <1>1, ConductorIs
<1>4. r \in Receipts /\ r.src = conductor.src /\ r.status = "publishable" /\ r.smoke = Asked.smoke
      /\ r.audit = Asked.audit /\ r.diffRef = None /\ r.kept = None
  BY <1>2, <1>3, ReceiptIs
<1>5. fact \in Facts /\ fact.kind = "reaudited" /\ fact.src = conductor.src /\ fact.of = n
  <2>1. Asked \in [smoke : 0..2, audit : 0..2] /\ conductor.src \in Sources
    BY <1>2, <1>3 DEF Asked, Accepts, Audits
  <2>2. Asked.audit \in 0..2
    BY <2>1
  <2> DEFINE f == Fact("reaudited", conductor.src, n)
  <2>3. f \in Facts /\ f.kind = "reaudited" /\ f.src = conductor.src /\ f.of = n
    <3>1. n \in Node \cup {None} /\ conductor.src \in Sources \cup {None}
      BY <1>2, <2>1
    <3> QED
      BY <3>1 DEF Fact, Facts
  <2> HIDE DEF f
  <2>4. fact = [f EXCEPT !.audit = Asked.audit]
    BY DEF f, Asked
  <2> QED
    BY <2>2, <2>3, <2>4 DEF Facts
<1> HIDE DEF fact, r
<1>6. /\ Adds(lane.tree) /\ New.kind = fact.kind /\ New.src = fact.src /\ New.of = fact.of
      /\ New.taken = TakenByGit
      /\ branch' = [branch EXCEPT ![lane.node] = On(lane.tree)]
      /\ lane' = [step |-> "emit", node |-> lane.node, commit |-> On(lane.tree),
            receipt |-> lane'.receipt]
      /\ lane'.receipt \in Receipts
      /\ lane'.receipt.src = r.src /\ lane'.receipt.status = r.status /\ lane'.receipt.kept = r.kept
      /\ lane'.receipt.smoke = r.smoke /\ lane'.receipt.audit = r.audit
      /\ lane'.receipt.diffRef = On(lane.tree)
      /\ UNCHANGED <<world, accept, edits, moves, quarantine, pin, receipts, verified, conductor,
                     unrecorded>>
  BY <1>1, <1>2, <1>4, <1>5, PublishDoes
<1>7. lane'.step = "emit" /\ lane'.node = lane.node /\ lane'.commit = On(lane.tree)
  BY <1>6
<1> QED
  BY <1>1, <1>2, <1>4, <1>5, <1>6, <1>7 DEF Publishes

(* A tree is kept, or not.                                                  *)
LEMMA KeepDoes ==
    ASSUME Shape, lane \in Working, conductor.verb # "idle", NEW fact \in Facts, NEW r \in Receipts,
           r.diffRef = None, r.kept = None, NEW changed \in BOOLEAN, changed
                 => lane.tree \in TreesOf(log),
           fact.kind = "kept", fact.of = lane.node, ~fact.taken,
           Running /\ (r.gate = "green" \/ r.records) /\ changed => fact.smoke # 0 \/ fact.bare,
           Keep(fact, r, changed)
    PROVE  Keeps \/ Drops
<1>1. CASE UNCHANGED <<quarantine, log, moves>> /\
           lane' = [step |-> "record", node |-> lane.node, commit |-> None, receipt |-> r]
  <2>1. lane'.step = "record" /\ lane'.node = lane.node /\ lane'.commit = None /\ lane'.receipt = r
    BY <1>1
  <2>2. UNCHANGED <<world, accept, edits, branch, pin, receipts, verified, conductor, unrecorded>>
    BY DEF Keep
  <2>3. Drops
    BY <1>1, <2>1, <2>2 DEF Drops, Settles
  <2> QED
    BY <2>3
<1>2. ASSUME NEW at \in {"base", "busy"}, changed, Make(fact, lane.tree),
             quarantine' = [quarantine EXCEPT ![lane.node][at] = On(lane.tree)],
             lane' = [step |-> "record", node |-> lane.node, commit |-> None,
                      receipt |-> [r EXCEPT !.kept = On(lane.tree), !.at = at]],
             IF at = "base" THEN UNCHANGED moves ELSE moves < world.moves /\ moves' = moves + 1
      PROVE  Keeps
  <2> DEFINE s == [r EXCEPT !.kept = On(lane.tree), !.at = at]
  <2>1. On(lane.tree) \in SUBSET Nat
    <3>1. lane.tree \subseteq Nat /\ Len(log) + 1 \in Nat
      BY <1>2 DEF TreesOf, Shape, LogShape
    <3> QED
      BY <3>1 DEF On
  <2>2. s \in Receipts /\ s.diffRef = None /\ s.kept = On(lane.tree) /\ s.gate = r.gate
        /\ s.records = r.records
    BY <1>2, <2>1 DEF Receipts
  <2>3. Adds(lane.tree) /\ New.kind = "kept" /\ New.of = lane.node /\ ~New.taken /\ New.smoke = fact.smoke
        /\ New.bare = fact.bare
    <3>1. LogShape /\ OperatorShape /\ lane.tree \in TreesOf(log) /\ Make(fact, lane.tree)
      BY <1>2 DEF Shape
    <3> QED
      BY <3>1, MakeDoes
  <2>4. lane' = [step |-> "record", node |-> lane.node, commit |-> None, receipt |-> s]
    BY <1>2
  <2> HIDE DEF s
  <2>5. lane'.step = "record" /\ lane'.node = lane.node /\ lane'.commit = None /\ lane'.receipt = s
    BY <2>4
  <2>6. UNCHANGED <<world, accept, edits, branch, pin, receipts, verified, conductor, unrecorded>>
    BY DEF Keep
  <2>7. Settles
    BY <2>2, <2>4, <2>5, <2>6 DEF Settles
  <2>8. moves' \in {moves, moves + 1}
    BY <1>2
  <2>9. quarantine' \in {[quarantine EXCEPT ![lane.node][k] = On(lane.tree)] : k \in {"base", "busy"}}
    BY <1>2
  <2>10. Running /\ (lane'.receipt.gate = "green" \/ lane'.receipt.records)
         => New.smoke # 0 \/ New.bare
    BY <1>2, <2>2, <2>3, <2>5
  <2> QED
    BY <2>2, <2>3, <2>5, <2>7, <2>8, <2>9, <2>10 DEF Keeps
<1> QED
  BY <1>1, <1>2 DEF Keep

(* Whatever else a run settles keeps its tree or drops it, ...              *)
LEMMA FailDoes ==
    ASSUME Shape, NEW gate \in {"none", "green"}, NEW records \in BOOLEAN, NEW changed \in BOOLEAN,
           Fail(gate, records, changed)
    PROVE  Keeps \/ Drops
<1> DEFINE n == lane.node
           smoke == IF gate = "green" THEN conductor.accept[n].smoke ELSE 0
           f == Fact("kept", conductor.src, n)
           bare == records /\ gate = "none"
           fact == [f EXCEPT !.smoke = smoke, !.bare = bare]
           r == Receipt("quarantined", gate, records)
<1>1. Running /\ lane.step = "work" /\ Keep(fact, r, changed)
      /\ gate \in {"none", SmokeRecord(n)} /\ (lane.tree = None => ~changed)
  BY DEF Fail, Running
<1>2. lane \in Working /\ n \in Node /\ (changed => lane.tree \in TreesOf(log))
  BY <1>1, LaneIs DEF Working
<1>3. conductor \in Runs /\ conductor.verb # "idle" /\ conductor.src \in Sources
      /\ conductor.accept \in Accepts
  BY <1>1, ConductorIs DEF Running
<1>4. r \in Receipts /\ r.gate = gate /\ r.records = records /\ r.diffRef = None /\ r.kept = None
  BY <1>2, <1>3, ReceiptIs
<1>5. conductor.accept[n] \in [smoke : 0..2, audit : 0..2]
  BY <1>2, <1>3 DEF Accepts
<1>6. smoke \in 0..2 /\ bare \in BOOLEAN /\ (gate = "green" => smoke # 0)
      /\ (records /\ gate # "green" => bare)
  BY <1>1, <1>5 DEF SmokeRecord
<1>7. f \in Facts /\ f.kind = "kept" /\ f.of = n /\ ~f.taken
  <2>1. n \in Node \cup {None} /\ conductor.src \in Sources \cup {None}
    BY <1>2, <1>3
  <2> QED
    BY <2>1 DEF Fact, Facts
<1> HIDE DEF f, r, smoke, bare
<1>8. fact \in Facts /\ fact.kind = "kept" /\ fact.of = n /\ ~fact.taken /\ fact.smoke = smoke
      /\ fact.bare = bare
  BY <1>6, <1>7 DEF Facts
<1>9. Running /\ (r.gate = "green" \/ r.records) /\ changed => fact.smoke # 0 \/ fact.bare
  BY <1>1, <1>4, <1>6, <1>8
<1> HIDE DEF fact
<1> QED
  BY <1>1, <1>2, <1>3, <1>4, <1>8, <1>9, KeepDoes

(* ... and so does what a re-audit refuses.                                 *)
LEMMA AuditRefusesDoes ==
    ASSUME Shape, NEW records \in BOOLEAN, AuditRefuses(records), lane.tree # None
    PROVE  Keeps \/ Drops
<1> DEFINE n == lane.node
           fact == Fact("kept", conductor.src, n)
           r == Receipt("quarantined", "none", records)
<1>1. conductor.verb = "audit" /\ lane.step = "work" /\ Keep(fact, r, TRUE)
  BY DEF AuditRefuses
<1>2. lane \in Working /\ n \in Node /\ lane.tree \in TreesOf(log)
  BY <1>1, LaneIs DEF Working
<1>3. ~Running /\ conductor.verb # "idle" /\ conductor.src \in Sources
  BY <1>1, ConductorIs DEF Running
<1>4. r \in Receipts /\ r.diffRef = None /\ r.kept = None
  BY <1>2, <1>3, ReceiptIs
<1>5. fact \in Facts /\ fact.kind = "kept" /\ fact.of = n /\ ~fact.taken
  <2>1. n \in Node \cup {None} /\ conductor.src \in Sources \cup {None}
    BY <1>2, <1>3
  <2> QED
    BY <2>1 DEF Fact, Facts
<1> HIDE DEF fact, r
<1> QED
  BY <1>1, <1>2, <1>3, <1>4, <1>5, KeepDoes

(* The ledger answers, or throws.                                           *)
LEMMA SettledDoes ==
    ASSUME Shape, InHand, Grown(log, log'), Settled, lane' = NoLane
    PROVE  Leaves
<1>1. conductor.verb \in {"run", "audit"} /\ lane.node \in Node
  BY ConductorIs, LaneIs DEF Shape, Conducted
<1>2. CASE conductor.verb = "audit"
  BY <1>2 DEF Settled, Leaves
<1>3. CASE conductor.verb = "run"
  <2>1. conductor \in Runs /\ Commits \subseteq Commits' /\ Maybe \subseteq Maybe'
    BY <1>3, ConductorIs, CommitsStay DEF Running, Shape, LogShape, Commits, Maybe
  <2>2. conductor' = [conductor EXCEPT !.settled = @ \cup {lane.node}]
    BY <1>3 DEF Settled
  <2>3. /\ conductor'.src = conductor.src /\ conductor'.accept = conductor.accept
        /\ conductor'.trusted = conductor.trusted /\ conductor'.onto = conductor.onto
        /\ conductor'.after = conductor.after /\ conductor'.closed = conductor.closed
        /\ conductor'.base = conductor.base /\ conductor'.settled = conductor.settled \cup {lane.node}
    BY <2>1, <2>2 DEF Runs
  <2>4. conductor' \in Runs'
    <3>1. conductor' \in Runs
      BY <1>1, <2>1, <2>2 DEF Runs
    <3> QED
      BY <2>1, <3>1 DEF Runs
  <2> QED
    BY <1>3, <2>3, <2>4 DEF Leaves, GoesOn, Running
<1> QED
  BY <1>1, <1>2, <1>3

(* The ledger answers, or throws.                                           *)
LEMMA EmitDoes ==
    ASSUME Shape, EmitDone
    PROVE  \/ Answers
           \/ /\ Leaves /\ unrecorded' = unrecorded \cup {lane.node}
              /\ UNCHANGED <<world, operator, refs, receipts, verified, log>>
<1>1. lane.step = "emit" /\ lane \in Emitting /\ lane.node \in Node
  BY LaneIs DEF EmitDone, InHand
<1>2. ASSUME NEW closes \in BOOLEAN, Answered(closes)
      PROVE  /\ lane'.step = "record" /\ lane'.node = lane.node /\ lane'.commit = lane.commit
             /\ lane'.receipt = lane.receipt /\ lane'.closes = closes
             /\ lane' = [step |-> "record", node |-> lane.node, commit |-> lane.commit,
                         receipt |-> lane.receipt, closes |-> lane'.closes]
  BY <1>2 DEF Answered
<1>3. CASE /\ Answered(TRUE)
           /\ verified' = [verified EXCEPT ![conductor.src][lane.node] = lane.commit]
           /\ Take /\ UNCHANGED <<conductor, unrecorded>>
  <2>1. lane.commit \in Commits
    BY <1>1 DEF Emitting
  <2>2. Takes
    BY <1>3, <2>1, TakeDoes DEF Shape
  <2> QED
    BY <1>1, <1>2, <1>3, <2>2 DEF Answers, EmitDone, operator, refs
<1>4. CASE Answered(~Audited(lane.node)) /\ UNCHANGED <<verified, conductor, log, unrecorded>>
  <2>1. (~Audited(lane.node)) \in BOOLEAN
    BY DEF Audited
  <2> QED
    BY <1>1, <1>2, <1>4, <2>1 DEF Answers, EmitDone, operator, refs
<1>5. CASE /\ Settled /\ lane' = NoLane /\ unrecorded' = unrecorded \cup {lane.node}
           /\ UNCHANGED <<verified, log>>
  <2>1. Grown(log, log')
    BY <1>5, SameLog DEF Shape
  <2>2. Leaves
    BY <1>1, <1>5, <2>1, SettledDoes DEF InHand
  <2> QED
    BY <1>5, <2>2 DEF EmitDone
<1> QED
  BY <1>3, <1>4, <1>5 DEF EmitDone

(* The node is closed, or it has met another fate.                          *)
LEMMA CloseDoes ==
    ASSUME Shape, Close
    PROVE  \/ Closing
           \/ Leaves /\ UNCHANGED <<world, operator, refs, receipts, verified, log, unrecorded>>
<1>1. lane.step = "close" /\ lane \in Recording /\ lane.node \in Node /\ lane' = NoLane
  BY LaneIs DEF Close, InHand
<1>2. CASE conductor.verb = "run" /\ lane.commit # None /\ lane.closes
  <2>1. lane.commit \in Commits
    BY <1>1, <1>2 DEF Recording
  <2>2. Take /\ pin' \in {pin, [pin EXCEPT ![lane.node] = None]}
        /\ conductor' = [conductor EXCEPT !.closed[lane.node] = lane.commit,
              !.base[lane.node] = lane.commit]
    BY <1>2 DEF Close
  <2>3. Takes
    BY <2>1, <2>2, TakeDoes DEF Shape
  <2>4. conductor \in Runs /\ Commits \subseteq Commits' /\ Maybe \subseteq Maybe'
    BY <1>2, <2>3, ConductorIs, CommitsStay DEF Running, Shape, LogShape, Commits, Maybe, Takes
  <2>5. /\ conductor'.src = conductor.src /\ conductor'.accept = conductor.accept
        /\ conductor'.trusted = conductor.trusted /\ conductor'.onto = conductor.onto
        /\ conductor'.after = conductor.after /\ conductor'.settled = conductor.settled
        /\ conductor'.closed = [conductor.closed EXCEPT ![lane.node] = lane.commit]
        /\ conductor'.base = [conductor.base EXCEPT ![lane.node] = lane.commit]
    BY <2>2, <2>4 DEF Runs
  <2>6. conductor' \in Runs'
    <3>1. conductor' \in Runs
      BY <1>1, <2>1, <2>2, <2>4 DEF Runs
    <3> QED
      BY <2>4, <3>1 DEF Runs
  <2> QED
    BY <1>1, <1>2, <2>2, <2>3, <2>5, <2>6 DEF Closing, GoesOn, Running, Close
<1>3. CASE Settled /\ UNCHANGED <<pin, log>>
  <2>1. Grown(log, log')
    BY <1>3, SameLog DEF Shape
  <2>2. Leaves
    BY <1>1, <1>3, <2>1, SettledDoes DEF InHand
  <2> QED
    BY <1>3, <2>2 DEF Close, refs
<1> QED
  BY <1>2, <1>3 DEF Close

(* A branch or a quarantine moved by hand.                                  *)
LEMMA BranchDoes ==
    ASSUME Shape, NEW n \in Node, BranchMoves(n)
    PROVE  /\ branch[n] # None /\ branch[n] \in Commits /\ moves' = moves + 1
           /\ \/ branch' = [branch EXCEPT ![n] = None] /\ UNCHANGED log
              \/ branch' = [branch EXCEPT ![n] = On(branch[n])] /\ Unclosed(branch[n])
           /\ UNCHANGED <<world, accept, edits, quarantine, pin, receipts, verified, conductor,
                 lane, unrecorded>>
<1> DEFINE fact == Fact("edit", None, n)
<1>1. branch[n] # None /\ branch[n] \in Commits
  BY DEF BranchMoves, Shape, RefShape, Maybe
<1>2. fact \in Facts /\ fact.kind = "edit" /\ ~fact.taken
  BY DEF Fact, Facts
<1>3. branch[n] \in TreesOf(log)
  BY <1>1, TopOfCommit DEF Commits, Shape, LogShape
<1> HIDE DEF fact
<1>4. ASSUME Make(fact, branch[n]) PROVE Unclosed(branch[n])
  <2>1. LogShape /\ OperatorShape
    BY DEF Shape
  <2> QED
    BY <1>2, <1>3, <1>4, <2>1, MakeDoes DEF Unclosed
<1>5. UNCHANGED log \/ Make(fact, branch[n])
  BY DEF BranchMoves, fact
<1> QED
  BY <1>1, <1>4 DEF BranchMoves, Moving, Outside, fact

(* The operator's hand on a quarantine.                                     *)
LEMMA QuarantineDoes ==
    ASSUME Shape, NEW n \in Node, QuarantineMoves(n)
    PROVE  /\ moves' = moves + 1
           /\ \/ quarantine' = [quarantine EXCEPT ![n].base = None] /\ UNCHANGED log
              \/ /\ quarantine' = [quarantine EXCEPT ![n].base = On(quarantine[n].base)]
                 /\ Unclosed(quarantine[n].base)
           /\ UNCHANGED <<world, accept, edits, branch, pin, receipts, verified, conductor, lane,
                 unrecorded>>
<1> DEFINE fact == Fact("edit", None, n)
<1>1. quarantine[n].base # None /\ quarantine[n].base \in Commits
  BY DEF QuarantineMoves, Shape, RefShape, Maybe
<1>2. fact \in Facts /\ fact.kind = "edit" /\ ~fact.taken
  BY DEF Fact, Facts
<1>3. quarantine[n].base \in TreesOf(log)
  BY <1>1, TopOfCommit DEF Commits, Shape, LogShape
<1> HIDE DEF fact
<1>4. ASSUME Make(fact, quarantine[n].base) PROVE Unclosed(quarantine[n].base)
  <2>1. LogShape /\ OperatorShape
    BY DEF Shape
  <2> QED
    BY <1>2, <1>3, <1>4, <2>1, MakeDoes DEF Unclosed
<1> QED
  BY <1>1, <1>4 DEF QuarantineMoves, Moving, Outside, fact

(* What a ledger says of a node is a commit, or nothing.                    *)
LEMMA LedgerIs ==
    ASSUME Shape, NEW src \in Sources, NEW n \in Node
    PROVE  Ledger(src)[n] \in Maybe
<1>1. verified[src][n] \in Maybe /\ branch[n] \in Maybe
  BY DEF Shape, RefShape
<1> QED
  BY <1>1 DEF Ledger, Maybe

(* A run's start.                                                           *)
LEMMA RunDoes ==
    ASSUME Shape, NEW src \in Sources, NEW fresh \in BOOLEAN, Run(src, fresh)
    PROVE  Starts(src)
<1> DEFINE found == Ledger(src)
           pinned == Pinned(src, found)
           changed == AcceptanceChanged(src, found)
           invalid == Cascade(changed \cup pinned, Closed(found))
           trusted == Closed(found) \ invalid
           closed == SeedClosure(found, trusted)
           wanted == (UNION {Needs(n) : n \in world.nodes \ Closed(closed)}) \cap Closed(closed)
           bases == [d \in wanted |-> BaseRef(d, closed[d])]
           base == [d \in Node |-> IF d \in wanted THEN bases[d] ELSE ByName]
           onto == [n \in Node |-> IF n \in pinned THEN pin[n] ELSE None]
           after == [n \in Node |-> IF n \in pinned THEN GroupBefore(n, pinned) ELSE {}]
<1>1. /\ conductor = Idle /\ \A d \in wanted : bases[d] # None
      /\ conductor' = [verb |-> "run", src |-> src, fresh |-> fresh, accept |-> accept[src],
                       closed |-> closed, trusted |-> trusted, settled |-> {}, base |-> base,
                       onto |-> onto, after |-> after]
      /\ UNCHANGED <<world, operator, refs, receipts, verified, lane, log, unrecorded>>
  BY DEF Run
<1>2. lane = NoLane
  BY <1>1, LaneIs DEF Shape, Conducted, InHand
<1>3. trusted \subseteq Node /\ pinned \subseteq Node
  BY DEF Closed, Pinned
<1>4. \A n \in trusted : found[n] \in Commits /\ found[n] # None
  BY LedgerIs DEF Closed, Maybe
<1>5. \A n \in trusted : n \notin changed /\ n \notin pinned
  BY CascadeKeeps
<1>6. \A n \in pinned : pin[n] # None
  BY DEF Pinned
<1>7. \A n \in pinned : \A m \in GroupBefore(n, pinned) : m \in pinned /\ pin[m] = pin[n] /\ m \in Node
  BY <1>3 DEF GroupBefore
<1> HIDE DEF found, pinned, changed, trusted
<1>8. /\ \A n \in Node : n \in trusted => closed[n] = found[n]
      /\ \A n \in Node : n \notin trusted => closed[n] \in {Implied, None}
  BY SeedClosureCloses
<1>9. closed \in [Node -> Commits \cup {None, Implied}]
  <2>1. DOMAIN closed = Node /\ closed = [n \in Node |-> closed[n]]
    BY DEF SeedClosure
  <2> QED
    BY <1>3, <1>4, <1>8, <2>1
<1> HIDE DEF closed
<1>10. ASSUME NEW d \in wanted
       PROVE  /\ d \in Node /\ bases[d] # None /\ closed[d] # None /\ bases[d] = BaseRef(d, closed[d])
              /\ closed[d] \notin {None, Implied} =>
                    bases[d] = closed[d] \/ (bases[d] = ByName /\ branch[d] = closed[d])
              /\ bases[d] \in Commits \cup {ByName}
  <2>1. d \in Node /\ bases[d] # None /\ closed[d] # None /\ bases[d] = BaseRef(d, closed[d])
    BY <1>1 DEF Closed
  <2>2. BaseRef(d, closed[d]) # None =>
           \/ branch[d] # None /\ closed[d] \in {None, Implied, branch[d]}
                 /\ BaseRef(d, closed[d]) = ByName
           \/ closed[d] \notin {None, Implied} /\ BaseRef(d, closed[d]) = closed[d]
    BY DEF BaseRef
  <2>3. closed[d] \in Commits \cup {None, Implied}
    BY <1>9, <2>1
  <2> HIDE DEF bases, wanted
  <2>4. CASE bases[d] = ByName /\ closed[d] \in {None, Implied, branch[d]}
    BY <2>1, <2>4
  <2>5. CASE closed[d] \notin {None, Implied} /\ bases[d] = closed[d]
    BY <2>1, <2>3, <2>5
  <2> QED
    BY <2>1, <2>2, <2>4, <2>5
<1>11. base \in [Node -> Commits \cup {ByName}]
  <2> HIDE DEF bases, wanted
  <2> QED
    BY <1>10
<1>12. onto \in [Node -> Maybe]
  BY <1>3 DEF Shape, RefShape, Maybe
<1>13. after \in [Node -> SUBSET Node]
  BY <1>7
<1>14. ASSUME NEW n \in Node, onto[n] # None
       PROVE  closed[n] \in {None, Implied} /\ \A m \in after[n] : onto[m] = onto[n]
  <2>1. n \in pinned /\ n \notin trusted /\ pin[n] # None
    BY <1>5, <1>6, <1>14
  <2>2. closed[n] \in {None, Implied}
    BY <1>8, <2>1
  <2> QED
    BY <1>7, <2>1, <2>2
<1>15. ASSUME NEW n \in world.nodes, NEW d \in Node, d \in Needs(n), closed[n] = None,
              closed[d] \notin {None, Implied}
       PROVE  base[d] = closed[d] \/ (base[d] = ByName /\ branch[d] = closed[d])
  <2>1. n \in world.nodes \ Closed(closed) /\ d \in Closed(closed)
    BY <1>15 DEF Closed
  <2>2. d \in wanted
    BY <1>15, <2>1
  <2>3. base[d] = bases[d]
    BY <2>2
  <2> HIDE DEF base, bases, wanted
  <2> QED
    BY <1>10, <1>15, <2>2, <2>3
<1>16. accept[src] \in Accepts
  BY DEF Shape, OperatorShape
<1> HIDE DEF base, onto, after
<1>17. /\ conductor'.src = src /\ conductor'.accept = accept[src] /\ conductor'.settled = {}
       /\ conductor'.closed = closed /\ conductor'.trusted = trusted /\ conductor'.base = base
       /\ conductor'.onto = onto /\ conductor'.after = after
  BY <1>1
<1>18. conductor' \in Runs
  BY <1>1, <1>3, <1>9, <1>11, <1>12, <1>13, <1>16 DEF Runs
<1>19. \A n \in conductor'.trusted :
          /\ conductor'.closed[n] = Ledger(src)[n] /\ Ledger(src)[n] \in Commits /\ Ledger(src)[n] # None
          /\ n \notin AcceptanceChanged(src, Ledger(src))
  BY <1>3, <1>4, <1>5, <1>8, <1>17 DEF found, changed
<1>20. \A n \in Node : conductor'.closed[n] \notin {None, Implied} => n \in conductor'.trusted
  BY <1>8, <1>17
<1> QED
  BY <1>1, <1>2, <1>14, <1>15, <1>17, <1>18, <1>19, <1>20 DEF Starts

(* What a node stands on is made of commits.                                *)
LEMMA TreeIs ==
    ASSUME Shape, NEW bases, bases \subseteq Maybe
    PROVE  /\ Tree(bases) \in TreesOf(log) \cup {None}
           /\ Tree(bases) # None => None \notin bases /\ \A c \in bases : c \in Commits
                 /\ c \subseteq Tree(bases)
<1>1. CASE None \in bases
  BY <1>1 DEF Tree
<1>2. CASE None \notin bases
  <2>1. \A c \in bases : c \in Commits /\ c \in TreesOf(log)
    BY <1>2, TopOfCommit DEF Maybe, Commits, Shape, LogShape
  <2>2. UNION bases \in TreesOf(log)
    BY <2>1 DEF TreesOf
  <2> QED
    BY <1>2, <2>1, <2>2 DEF Tree
<1> QED
  BY <1>1, <1>2

(* A commit is none of the names that stand beside commits.                 *)
LEMMA CommitIsNoName ==
    ASSUME Shape, NEW c \in Commits
    PROVE  c \notin {None, Implied, ByName}
<1>1. Top(c) \in 1..Len(log) /\ c \subseteq 1..Top(c) /\ Len(log) \in Nat /\ Len(log) <= world.commits
  BY TopOfCommit DEF Shape, LogShape, Commits
<1>2. world.commits \in Nat /\ world \in Worlds
  BY WorldIsOne DEF Shape, OperatorShape
<1>3. c \in SUBSET (1..world.commits)
  BY <1>1, <1>2
<1> QED
  BY <1>2, <1>3, HistoryAssumption

(* A base names a commit, or nothing.                                       *)
LEMMA ResolvesIs ==
    ASSUME Shape, NEW d \in Node, NEW base \in Commits \cup {ByName}
    PROVE  Resolves(d, base) \in Maybe
<1>1. branch[d] \in Maybe
  BY DEF Shape, RefShape
<1> QED
  BY <1>1 DEF Resolves, Maybe

(* What a re-audit or a landing finds a node at is a commit, or nothing.    *)
LEMMA FoundIs ==
    ASSUME Shape, NEW src \in Sources, NEW n \in Node
    PROVE  LET closed == SeedClosure(Ledger(src), Closed(Ledger(src)))
               base == BaseRef(n, closed[n])
           IN base # None => Resolves(n, base) \in Commits
<1> DEFINE found == Ledger(src)
           closed == SeedClosure(found, Closed(found))
           base == BaseRef(n, closed[n])
<1> SUFFICES base # None => Resolves(n, base) \in Commits
  OBVIOUS
<1>1. found[n] \in Maybe /\ branch[n] \in Maybe
  BY LedgerIs DEF Shape, RefShape
<1> HIDE DEF found
<1>2. closed[n] \in Maybe \cup {Implied}
  BY <1>1, SeedClosureCloses DEF Maybe
<1> HIDE DEF closed
<1>3. CASE branch[n] # None
  BY <1>1, <1>3 DEF BaseRef, Resolves, Maybe
<1>4. CASE branch[n] = None /\ closed[n] \notin {None, Implied}
  <2>1. closed[n] \in Commits /\ closed[n] # ByName
    BY <1>2, <1>4, CommitIsNoName DEF Maybe
  <2> QED
    BY <1>4, <2>1 DEF BaseRef, Resolves
<1>5. CASE branch[n] = None /\ closed[n] \in {None, Implied}
  BY <1>5 DEF BaseRef
<1> QED
  BY <1>3, <1>4, <1>5

(* A landing pins what is in conflict, at a stack of commits.               *)
LEMMA PinsDoes ==
    ASSUME Shape, NEW src \in Sources, LandPins(src)
    PROVE  \E stack, conflicts : Pins(stack, conflicts)
<1> DEFINE fact == Fact("stack", None, None)
           found == Ledger(src)
           closed == SeedClosure(found, Closed(found))
           base == [n \in Node |-> BaseRef(n, closed[n])]
           landable == {n \in world.nodes \cap Closed(closed) : base[n] # None}
           stack(merged) == UNION {Resolves(n, base[n]) : n \in merged}
<1>1. /\ UNCHANGED <<world, operator, branch, quarantine, receipts, verified, conductor, lane,
            unrecorded>>
      /\ \E conflicts \in (SUBSET landable) \ {{}} : \E merged \in SUBSET (landable \ conflicts) :
            /\ Make(fact, stack(merged))
            /\ pin' = [n \in Node |-> IF n \in conflicts THEN On(stack(merged)) ELSE pin[n]]
  BY DEF LandPins, Outside
<1>2. \A n \in landable : n \in Node /\ Resolves(n, base[n]) \in Commits
  BY FoundIs DEF Closed
<1>3. ASSUME NEW merged \in SUBSET landable PROVE stack(merged) \in TreesOf(log)
  <2>1. ASSUME NEW n \in merged PROVE Resolves(n, base[n]) \in TreesOf(log)
    <3>1. Resolves(n, base[n]) \in Commits
      BY <1>2
    <3> QED
      BY <3>1, TopOfCommit DEF Commits, Shape, LogShape
  <2> HIDE DEF base
  <2> QED
    BY <2>1 DEF TreesOf
<1> HIDE DEF landable
<1>4. PICK conflicts, merged \in SUBSET landable :
         /\ Make(fact, stack(merged))
         /\ pin' = [n \in Node |-> IF n \in conflicts THEN On(stack(merged)) ELSE pin[n]]
  BY <1>1
<1>5. stack(merged) \in TreesOf(log)
  BY <1>3, <1>4
<1> HIDE DEF stack
<1>6. Unclosed(stack(merged))
  <2>1. LogShape /\ OperatorShape
    BY DEF Shape
  <2>2. fact \in Facts /\ fact.kind = "stack" /\ ~fact.taken
    BY DEF Fact, Facts
  <2> HIDE DEF fact
  <2> QED
    BY <1>4, <1>5, <2>1, <2>2, MakeDoes DEF Unclosed
<1> QED
  BY <1>1, <1>4, <1>6 DEF Pins

(* A node is launched.                                                      *)
LEMMA LaunchDoes ==
    ASSUME Shape, NEW n \in Node, Launch(n)
    PROVE  Launches(n)
<1>1. Running /\ lane = NoLane /\ Ready(n)
      /\ UNCHANGED <<world, operator, refs, receipts, verified, conductor, log, unrecorded>>
  BY DEF Launch, Running
<1>2. PICK seed \in Seeds(n) :
         lane' = [step |-> "work", node |-> n, seed |-> seed, tree |-> Tree(Bases(n, seed))]
  BY DEF Launch
<1>3. conductor \in Runs
  BY <1>1, ConductorIs
<1>4. quarantine[n] \in [base : Maybe, busy : Maybe] /\ quarantine[n].base \in Maybe
  BY DEF Shape, RefShape
<1>5. seed \in Maybe
  BY <1>4 DEF Seeds, Maybe
<1>6. Bases(n, seed) \subseteq Maybe
  <2>1. \A d \in Needs(n) : Resolves(d, conductor.base[d]) \in Maybe
    <3>1. Needs(n) \subseteq Node
      BY WorldIsOne DEF Shape, Needs
    <3>2. \A d \in Node : conductor.base[d] \in Commits \cup {ByName}
      BY <1>3 DEF Runs
    <3> QED
      BY <3>1, <3>2, ResolvesIs
  <2>2. conductor.onto[n] \in Maybe /\ conductor.after[n] \subseteq Node
    BY <1>3 DEF Runs
  <2>3. \A m \in Node : branch[m] \in Maybe
    BY DEF Shape, RefShape
  <2> QED
    BY <1>5, <2>1, <2>2, <2>3 DEF Bases
<1>7. Tree(Bases(n, seed)) \in TreesOf(log) \cup {None}
  BY <1>6, TreeIs
<1> DEFINE tree == Tree(Bases(n, seed))
<1> HIDE DEF tree
<1>8. lane' = [step |-> "work", node |-> n, seed |-> seed, tree |-> tree]
      /\ tree \in TreesOf(log) \cup {None}
  BY <1>2, <1>7 DEF tree
<1>9. lane' \in Working /\ lane'.step = "work" /\ lane'.node = n /\ lane'.seed = seed /\ lane'.tree = tree
  BY <1>5, <1>8 DEF Working
<1> QED
  BY <1>1, <1>2, <1>9 DEF Launches, tree

(* A kept tree is judged again.                                             *)
LEMMA AuditDoes ==
    ASSUME Shape, NEW src \in Sources, NEW n \in Node, Audit(src, n)
    PROVE  Rejudges(n)
<1> DEFINE tree == Tree(AuditBases(src, n))
           found == SeedClosure(Ledger(src), Closed(Ledger(src)))
           base == [d \in Needs(n) |-> BaseRef(d, found[d])]
           resolved(d) == IF base[d] = None THEN None ELSE Resolves(d, base[d])
<1>1. /\ conductor = Idle /\ tree # None /\ Auditable(src, n)
      /\ conductor' = [verb |-> "audit", src |-> src, accept |-> accept[src],
            onto |-> [m \in Node |-> None]]
      /\ lane' = [step |-> "work", node |-> n, seed |-> receipts[n].kept, tree |-> tree]
      /\ UNCHANGED <<world, operator, refs, receipts, verified, log, unrecorded>>
  BY DEF Audit
<1>2. lane = NoLane
  BY <1>1, LaneIs DEF Shape, Conducted, InHand
<1>3. receipts[n] # None /\ receipts[n].kept # None /\ receipts[n].status = "quarantined"
      /\ receipts[n].records
      /\ quarantine[n][receipts[n].at] = receipts[n].kept /\ receipts[n] \in Receipts
  BY <1>1 DEF Auditable, Shape, RefShape
<1>4. receipts[n].kept \in Maybe
  <2>1. receipts[n].at \in {"base", "busy"}
    BY <1>3 DEF Receipts
  <2>2. quarantine[n] \in [base : Maybe, busy : Maybe]
    BY DEF Shape, RefShape
  <2>3. quarantine[n].base \in Maybe /\ quarantine[n].busy \in Maybe
    BY <2>2
  <2> QED
    BY <1>3, <2>1, <2>3
<1>5. ASSUME NEW d \in Needs(n) PROVE resolved(d) \in Maybe
  <2>1. d \in Node
    BY WorldIsOne DEF Shape, Needs
  <2>2. base[d] = BaseRef(d, found[d])
    OBVIOUS
  <2>3. base[d] # None => Resolves(d, base[d]) \in Commits
    BY <2>1, <2>2, FoundIs
  <2> HIDE DEF base
  <2> QED
    BY <2>3 DEF Maybe
<1>6. AuditBases(src, n) = {receipts[n].kept} \cup {resolved(d) : d \in Needs(n)}
  BY DEF AuditBases
<1> HIDE DEF resolved
<1>7. AuditBases(src, n) \subseteq Maybe /\ receipts[n].kept \in AuditBases(src, n)
  BY <1>4, <1>5, <1>6
<1>8. tree \in TreesOf(log) \cup {None} /\ receipts[n].kept \subseteq tree
  BY <1>1, <1>7, TreeIs
<1> HIDE DEF tree
<1>9. lane' \in Working /\ lane'.step = "work" /\ lane'.node = n /\ lane'.tree = tree
  BY <1>1, <1>4, <1>8 DEF Working
<1>10. conductor' \in Audits /\ conductor'.verb = "audit"
  <2>1. accept[src] \in Accepts
    BY DEF Shape, OperatorShape
  <2> QED
    BY <1>1, <2>1 DEF Audits
<1> QED
  BY <1>1, <1>2, <1>3, <1>8, <1>9, <1>10 DEF Rejudges

(* A receipt is written or lost.                                            *)
LEMMA RecordDoes == Shape /\ Record => Records
<1> SUFFICES ASSUME Shape, Record PROVE Records
  OBVIOUS
<1>1. lane.step = "record" /\ lane \in Recording /\ lane' = [lane EXCEPT !.step = "close"]
  BY LaneIs DEF Record
<1>2. lane' \in Recording /\ lane'.step = "close" /\ lane'.node = lane.node /\ lane'.commit = lane.commit
      /\ lane'.receipt = lane.receipt
  BY <1>1 DEF Recording
<1> QED
  BY <1>1, <1>2 DEF Record, Records

(* A conductor is gone.                                                     *)
LEMMA StopDoes == Shape /\ Stop => Stops
<1> SUFFICES ASSUME Shape, Stop PROVE Stops
  OBVIOUS
<1> QED
  BY DEF Stop, Stops, Leaves

-----------------------------------------------------------------------------
(* Shapes                                                                  *)

(* Every step leaves the log alone, adds to it, or takes a commit of it.    *)
LEMMA LogDoes == Shape /\ [Next]_vars => Logged
<1> SUFFICES ASSUME Shape, [Next]_vars PROVE Logged
  OBVIOUS
<1>1. ASSUME Publishes \/ Keeps \/ Drops \/ Answers \/ Closing PROVE Logged
  BY <1>1 DEF Logged, Publishes, Keeps, Drops, Answers, Closing
<1>2. ASSUME NEW tree, Unclosed(tree) PROVE Logged
  BY <1>2 DEF Unclosed, Logged
<1>3. CASE UNCHANGED vars
  BY <1>3 DEF vars, Logged
<1>4. CASE \E src \in Sources, fresh \in BOOLEAN : Run(src, fresh)
  BY <1>4 DEF Run, Logged
<1>5. CASE \E n \in Node : Launch(n)
  BY <1>5 DEF Launch, Logged
<1>6. CASE Verify
  BY <1>1, <1>6, VerifyDoes
<1>7. CASE \E gate \in {"none", "green"}, records, changed \in BOOLEAN : Fail(gate, records, changed)
  BY <1>1, <1>7, FailDoes
<1>8. CASE \E src \in Sources, n \in Node : Audit(src, n)
  BY <1>8 DEF Audit, Logged
<1>9. CASE AuditPasses
  BY <1>1, <1>9, AuditPassesDoes DEF Shape, Conducted, AuditPasses
<1>10. CASE \E records \in BOOLEAN : AuditRefuses(records)
  BY <1>1, <1>10, AuditRefusesDoes DEF Shape, Conducted, AuditRefuses
<1>11. CASE EmitDone
  BY <1>1, <1>11, EmitDoes DEF Logged
<1>12. CASE Record
  BY <1>12 DEF Record, Logged
<1>13. CASE Close
  BY <1>1, <1>13, CloseDoes DEF Logged
<1>14. CASE Stop
  BY <1>14 DEF Stop, Logged
<1>15. CASE \E src \in Sources, n \in Node, field \in {"smoke", "audit"} : EditPlan(src, n, field)
  BY <1>15 DEF EditPlan, Logged
<1>16. CASE \E n \in Node : BranchMoves(n) \/ QuarantineMoves(n)
  BY <1>2, <1>16, BranchDoes, QuarantineDoes DEF Logged
<1>17. CASE \E src \in Sources : LandPins(src)
  BY <1>2, <1>17, PinsDoes DEF Pins
<1> QED
  BY <1>3, <1>4, <1>5, <1>6, <1>7, <1>8, <1>9, <1>10, <1>11, <1>12, <1>13, <1>14, <1>15, <1>16, <1>17
     DEF Next

(* So it forgets nothing, and every commit stays one.                       *)
LEMMA StepGrows ==
    ASSUME Shape, [Next]_vars
    PROVE  /\ Grown(log, log') /\ log' \in Seq(Facts) /\ Numbered(log')
           /\ Commits \subseteq Commits' /\ Maybe \subseteq Maybe' /\ TreesOf(log) \subseteq TreesOf(log')
           /\ world' = world
<1>1. Grown(log, log')
  BY LogDoes, SameLog DEF Logged, Adds, Takes, Shape
<1>2. Commits \subseteq Commits' /\ Maybe \subseteq Maybe'
  BY <1>1, CommitsStay DEF Shape, LogShape, Commits, Maybe
<1>3. TreesOf(log) \subseteq TreesOf(log')
  BY <1>1 DEF TreesOf, Grown
<1>4. world' = world
  <2>1. CASE UNCHANGED vars
    BY <2>1 DEF vars
  <2>2. CASE Next
    BY <2>2 DEF Next, Run, Launch, Verify, Publish, Fail, Keep, Audit, AuditPasses, AuditRefuses,
          EmitDone,
                Record, Close, Stop, EditPlan, BranchMoves, QuarantineMoves, LandPins, Moving, Outside
  <2> QED
    BY <2>1, <2>2
<1> QED
  BY <1>1, <1>2, <1>3, <1>4 DEF Grown

(* The log keeps its shape.                                                 *)
LEMMA StepLogShape ==
    ASSUME Shape, [Next]_vars
    PROVE  LogShape'
<1>1. Len(log') <= world.commits
  BY LogDoes DEF Logged, Adds, Takes, Shape, LogShape
<1> QED
  BY <1>1, StepGrows DEF LogShape

(* Only an edit of the plan changes it, and only its moves move refs.       *)
LEMMA StepOperatorShape ==
    ASSUME Shape, [Next]_vars
    PROVE  OperatorShape' /\ (moves' = 0 => moves = 0)
<1>1. world' = world /\ world \in Worlds
  BY StepGrows DEF Shape, OperatorShape
<1>2. edits \in Nat /\ moves \in Nat
  BY DEF Shape, OperatorShape
<1>3. CASE UNCHANGED accept /\ edits' = edits /\ moves' \in {moves, moves + 1}
  BY <1>1, <1>2, <1>3 DEF Shape, OperatorShape
<1>4. ASSUME NEW src \in Sources, NEW n \in Node, NEW field \in {"smoke", "audit"}, EditPlan(src,
      n, field)
      PROVE  OperatorShape' /\ moves' = moves
  <2>1. PICK value \in (IF field = "audit" THEN 1..2 ELSE world.smokes) :
            accept' = [accept EXCEPT ![src][n][field] = value]
    BY <1>4 DEF EditPlan
  <2>2. accept \in [Sources -> Accepts] /\ accept[src] \in Accepts
        /\ accept[src][n] \in [smoke : 0..2, audit : 0..2]
    BY DEF Shape, OperatorShape, Accepts
  <2> DEFINE new == [accept[src][n] EXCEPT ![field] = value]
  <2>3. new \in [smoke : 0..2, audit : 0..2] /\ (n \in world.audited => new.audit # 0)
    <3>1. accept[src][n].smoke \in 0..2 /\ accept[src][n].audit \in 0..2
      BY <2>2
    <3>2. n \in world.audited => accept[src][n].audit # 0
      BY DEF Shape, OperatorShape
    <3>3. CASE field = "smoke"
      <4>1. value \in 0..2
        BY <2>1, <3>3, WorldIsOne DEF Shape
      <4> QED
        BY <2>2, <3>1, <3>2, <3>3, <4>1
    <3>4. CASE field = "audit"
      <4>1. value \in 0..2 /\ value # 0
        BY <2>1, <3>4
      <4> QED
        BY <2>2, <3>1, <3>4, <4>1
    <3> QED
      BY <3>3, <3>4
  <2>4. accept' = [accept EXCEPT ![src] = [accept[src] EXCEPT ![n] = new]]
    BY <2>1, <2>2
  <2> HIDE DEF new
  <2>5. [accept[src] EXCEPT ![n] = new] \in Accepts
    BY <2>2, <2>3 DEF Accepts
  <2>6. accept' \in [Sources -> Accepts]
    BY <2>2, <2>4, <2>5
  <2>7. edits' = edits + 1 /\ moves' = moves
    BY <1>4 DEF EditPlan
  <2>8. ASSUME NEW s \in Sources, NEW m \in world.audited PROVE accept'[s][m].audit # 0
    <3>1. m \in Node /\ accept[s][m].audit # 0
      BY WorldIsOne DEF Shape, OperatorShape
    <3>2. CASE s = src /\ m = n
      BY <2>2, <2>3, <2>4, <3>1, <3>2 DEF Accepts
    <3>3. CASE s = src /\ m # n
      BY <2>2, <2>4, <3>1, <3>3 DEF Accepts
    <3>4. CASE s # src
      BY <2>2, <2>4, <3>1, <3>4
    <3> QED
      BY <3>2, <3>3, <3>4
  <2> QED
    BY <1>1, <1>2, <2>6, <2>7, <2>8 DEF OperatorShape
<1>5. CASE UNCHANGED vars
  BY <1>3, <1>5 DEF vars, operator
<1>6. CASE Next
  <2>1. CASE \E src \in Sources, n \in Node, field \in {"smoke", "audit"} : EditPlan(src, n, field)
    BY <1>2, <1>4, <2>1
  <2>2. CASE Verify \/ AuditPasses
    BY <1>3, <2>2 DEF Verify, AuditPasses, Publish
  <2>3. CASE (\E gate \in {"none", "green"}, records, changed \in BOOLEAN : Fail(gate, records, changed))
             \/ \E records \in BOOLEAN : AuditRefuses(records)
    BY <1>3, <2>3 DEF Fail, AuditRefuses, Keep
  <2>4. CASE \/ \E src \in Sources, fresh \in BOOLEAN : Run(src, fresh)
             \/ \E n \in Node : Launch(n)
             \/ \E src \in Sources, n \in Node : Audit(src, n)
             \/ EmitDone \/ Record \/ Close \/ Stop
             \/ \E src \in Sources : LandPins(src)
    BY <1>3, <2>4 DEF Run, Launch, Audit, EmitDone, Record, Close, Stop, LandPins, operator
  <2>5. CASE \E n \in Node : BranchMoves(n) \/ QuarantineMoves(n)
    BY <1>3, <2>5 DEF BranchMoves, QuarantineMoves, Moving
  <2> QED
    BY <1>6, <2>1, <2>2, <2>3, <2>4, <2>5 DEF Next
<1> QED
  BY <1>2, <1>3, <1>5, <1>6

(* So a step is one of these.                                               *)
LEMMA StepIs ==
    ASSUME Shape, Next
    PROVE  \/ \E src \in Sources : Starts(src)
           \/ \E n \in Node : Launches(n) \/ Rejudges(n)
           \/ Publishes \/ Keeps \/ Drops \/ Answers \/ Records \/ Closing \/ Stops \/ Edits
           \/ \E n \in Node : MovesBranch(n) \/ MovesQuarantine(n)
           \/ \E stack, conflicts : Pins(stack, conflicts)
<1>1. CASE \E src \in Sources, fresh \in BOOLEAN : Run(src, fresh)
  BY <1>1, RunDoes
<1>2. CASE \E n \in Node : Launch(n)
  BY <1>2, LaunchDoes
<1>3. CASE Verify
  BY <1>3, VerifyDoes
<1>4. CASE \E gate \in {"none", "green"}, records, changed \in BOOLEAN : Fail(gate, records, changed)
  BY <1>4, FailDoes
<1>5. CASE \E src \in Sources, n \in Node : Audit(src, n)
  BY <1>5, AuditDoes
<1>6. CASE AuditPasses
  BY <1>6, AuditPassesDoes DEF Shape, Conducted, AuditPasses
<1>7. CASE \E records \in BOOLEAN : AuditRefuses(records)
  BY <1>7, AuditRefusesDoes DEF Shape, Conducted, AuditRefuses
<1>8. ASSUME Leaves, UNCHANGED <<world, operator, refs, receipts, verified, log>>,
             unrecorded' = unrecorded \cup (IF lane.step \in {"emit", "record"} THEN {lane.node} ELSE {})
      PROVE  Stops
  BY <1>8 DEF Stops
<1>9. CASE EmitDone
  BY <1>8, <1>9, EmitDoes DEF EmitDone
<1>10. CASE Record
  BY <1>10, RecordDoes
<1>11. CASE Close
  <2>1. lane.step = "close"
    BY <1>11 DEF Close
  <2>2. CASE Leaves /\ UNCHANGED <<world, operator, refs, receipts, verified, log, unrecorded>>
    BY <1>8, <2>1, <2>2
  <2> QED
    BY <1>11, <2>2, CloseDoes
<1>12. CASE Stop
  BY <1>12, StopDoes
<1>13. CASE \E src \in Sources, n \in Node, field \in {"smoke", "audit"} : EditPlan(src, n, field)
  <2>1. OperatorShape'
    BY StepOperatorShape
  <2> QED
    BY <1>13, <2>1 DEF EditPlan, Outside, Edits
<1>14. ASSUME NEW n \in Node, BranchMoves(n) PROVE MovesBranch(n)
  BY <1>14, BranchDoes DEF MovesBranch
<1>15. ASSUME NEW n \in Node, QuarantineMoves(n) PROVE MovesQuarantine(n)
  BY <1>15, QuarantineDoes DEF MovesQuarantine
<1>16. ASSUME NEW src \in Sources, LandPins(src) PROVE \E stack, conflicts : Pins(stack, conflicts)
  BY <1>16, PinsDoes
<1> QED
  BY <1>1, <1>2, <1>3, <1>4, <1>5, <1>6, <1>7, <1>9, <1>10, <1>11, <1>12, <1>13, <1>14, <1>15,
        <1>16 DEF Next

(* A commit made is one of the log's.                                       *)
LEMMA AddedIs ==
    ASSUME NEW tree, Adds(tree)
    PROVE  On(tree) \in Commits' /\ On(tree) \in Maybe'
BY DEF Adds, Commits, Maybe

(* So do the refs, the ledgers and the receipts, ...                        *)
LEMMA StepRefShape ==
    ASSUME Shape, Next
    PROVE  RefShape'
<1>1. Maybe \subseteq Maybe' /\ Commits \subseteq Commits' /\ None \in Maybe'
  BY StepGrows DEF Maybe
<1>2. /\ branch \in [Node -> Maybe'] /\ pin \in [Node -> Maybe']
      /\ quarantine \in [Node -> [base : Maybe', busy : Maybe']]
      /\ verified \in [Sources -> [Node -> Maybe']]
      /\ receipts \in [Node -> Receipts \cup {None}] /\ unrecorded \subseteq Node
  <2>1. /\ branch \in [Node -> Maybe] /\ pin \in [Node -> Maybe]
        /\ quarantine \in [Node -> [base : Maybe, busy : Maybe]]
        /\ verified \in [Sources -> [Node -> Maybe]]
        /\ receipts \in [Node -> Receipts \cup {None}] /\ unrecorded \subseteq Node
    BY DEF Shape, RefShape
  <2>2. branch \in [Node -> Maybe'] /\ pin \in [Node -> Maybe']
    BY <1>1, <2>1
  <2>3. quarantine \in [Node -> [base : Maybe', busy : Maybe']]
    BY <1>1, <2>1
  <2>4. verified \in [Sources -> [Node -> Maybe']]
    BY <1>1, <2>1
  <2> QED
    BY <2>1, <2>2, <2>3, <2>4
<1> DEFINE Q == [base : Maybe', busy : Maybe']
<1>3. ASSUME NEW n \in Node, NEW c \in Maybe'
      PROVE  /\ [branch EXCEPT ![n] = c] \in [Node -> Maybe']
             /\ [quarantine EXCEPT ![n].base = c] \in [Node -> Q]
             /\ [quarantine EXCEPT ![n].busy = c] \in [Node -> Q]
  BY <1>2
<1>4. InHand => lane.node \in Node
  BY LaneIs
<1> DEFINE Rest == UNCHANGED <<branch, quarantine, pin, verified, receipts>> /\ unrecorded' \subseteq Node
<1>5. CASE Rest
  BY <1>2, <1>5 DEF RefShape
<1> HIDE DEF Q
<1>6. CASE \/ \E src \in Sources : Starts(src)
           \/ \E n \in Node : Launches(n) \/ Rejudges(n)
           \/ Drops \/ Edits
  BY <1>2, <1>6 DEF Starts, Launches, Rejudges, Drops, Settles, Edits, refs, RefShape
<1>7. CASE Stops
  <2>1. lane.step \in {"emit", "record"} => lane.node \in Node
    BY <1>4 DEF InHand
  <2> QED
    BY <1>2, <1>7, <2>1 DEF Stops, refs, RefShape
<1>8. CASE Publishes
  <2>1. lane.node \in Node /\ On(lane.tree) \in Maybe'
    BY <1>8, AddedIs DEF Publishes, Working
  <2> QED
    BY <1>2, <1>3, <1>8, <2>1 DEF Publishes, RefShape
<1>9. CASE Keeps
  <2>1. lane.node \in Node /\ On(lane.tree) \in Maybe'
    BY <1>9, AddedIs DEF Keeps, Settles, Working
  <2>2. quarantine' \in [Node -> Q]
    BY <1>3, <1>9, <2>1 DEF Keeps
  <2> QED
    BY <1>2, <1>9, <2>2 DEF Keeps, Settles, RefShape, Q
<1>10. CASE Answers
  <2>1. lane.node \in Node /\ lane.commit \in Maybe'
    BY <1>1, <1>10 DEF Answers, Emitting, Maybe
  <2>2. verified' \in [Sources -> [Node -> Maybe']]
    <3>1. CASE verified' = [verified EXCEPT ![conductor.src][lane.node] = lane.commit]
      <4>1. ASSUME NEW s \in Sources PROVE [verified[s] EXCEPT ![lane.node] = lane.commit]
            \in [Node -> Maybe']
        BY <1>2, <2>1, <4>1
      <4>2. verified' = [verified EXCEPT ![conductor.src]
            = [verified[conductor.src] EXCEPT ![lane.node] = lane.commit]]
        BY <3>1
      <4> QED
        BY <1>2, <4>1, <4>2
    <3> QED
      BY <1>2, <1>10, <3>1 DEF Answers
  <2> QED
    BY <1>2, <1>10, <2>2 DEF Answers, RefShape
<1>11. CASE Records
  <2>1. lane.node \in Node /\ lane.receipt \in Receipts
    BY <1>11 DEF Records, Recording
  <2>2. receipts' \in [Node -> Receipts \cup {None}] /\ unrecorded' \subseteq Node
    BY <1>2, <1>11, <2>1 DEF Records
  <2> QED
    BY <1>2, <1>11, <2>2 DEF Records, refs, RefShape
<1>12. CASE Closing
  <2>1. pin' \in [Node -> Maybe']
    BY <1>1, <1>2, <1>12 DEF Closing
  <2> QED
    BY <1>2, <1>12, <2>1 DEF Closing, RefShape
<1>13. ASSUME NEW n \in Node, MovesBranch(n) PROVE RefShape'
  <2>1. branch' \in [Node -> Maybe']
    <3>1. CASE branch' = [branch EXCEPT ![n] = None]
      BY <1>1, <1>3, <3>1
    <3>2. CASE branch' = [branch EXCEPT ![n] = On(branch[n])] /\ Unclosed(branch[n])
      BY <1>3, <3>2, AddedIs DEF Unclosed
    <3> QED
      BY <1>13, <3>1, <3>2 DEF MovesBranch
  <2> QED
    BY <1>2, <1>13, <2>1 DEF MovesBranch, RefShape
<1>14. ASSUME NEW n \in Node, MovesQuarantine(n) PROVE RefShape'
  <2>1. quarantine' \in [Node -> Q]
    <3>1. CASE quarantine' = [quarantine EXCEPT ![n].base = None]
      BY <1>1, <1>3, <3>1
    <3>2. CASE /\ quarantine' = [quarantine EXCEPT ![n].base = On(quarantine[n].base)]
               /\ Unclosed(quarantine[n].base)
      BY <1>3, <3>2, AddedIs DEF Unclosed
    <3> QED
      BY <1>14, <3>1, <3>2 DEF MovesQuarantine
  <2> QED
    BY <1>2, <1>14, <2>1 DEF MovesQuarantine, RefShape, Q
<1>15. ASSUME NEW stack, NEW conflicts, Pins(stack, conflicts) PROVE RefShape'
  <2>1. On(stack) \in Maybe'
    BY <1>15, AddedIs DEF Pins, Unclosed
  <2>2. pin' \in [Node -> Maybe']
    BY <1>2, <1>15, <2>1 DEF Pins
  <2> QED
    BY <1>2, <1>15, <2>2 DEF Pins, RefShape
<1> QED
  BY <1>6, <1>7, <1>8, <1>9, <1>10, <1>11, <1>12, <1>13, <1>14, <1>15, StepIs

(* What is in hand keeps its shape as the log grows.                        *)
LEMMA StepWidens ==
    ASSUME Shape, [Next]_vars
    PROVE  /\ Runs \subseteq Runs' /\ Working \subseteq Working' /\ Emitting \subseteq Emitting'
           /\ Recording \subseteq Recording'
<1>1. Commits \subseteq Commits' /\ Maybe \subseteq Maybe' /\ TreesOf(log) \subseteq TreesOf(log')
  BY StepGrows
<1>2. Runs \subseteq Runs'
  <2>1. ASSUME NEW c \in Runs PROVE c \in Runs'
    <3>1. c.closed \in [Node -> Commits' \cup {None, Implied}]
      BY <1>1 DEF Runs
    <3>2. c.base \in [Node -> Commits' \cup {ByName}]
      BY <1>1 DEF Runs
    <3>3. c.onto \in [Node -> Maybe']
      BY <1>1 DEF Runs
    <3> QED
      BY <3>1, <3>2, <3>3 DEF Runs
  <2> QED
    BY <2>1
<1>3. Working \subseteq Working'
  BY <1>1 DEF Working
<1>4. Emitting \subseteq Emitting'
  BY <1>1 DEF Emitting
<1>5. Recording \subseteq Recording'
  BY <1>1 DEF Recording
<1> QED
  BY <1>2, <1>3, <1>4, <1>5

(* ... the conductor, ...                                                   *)
LEMMA StepConductorShape ==
    ASSUME Shape, Next
    PROVE  ConductorShape'
<1>1. Runs \subseteq Runs' /\ Audits = Audits'
  BY StepWidens DEF Audits
<1>2. CASE conductor' = conductor \/ conductor' = Idle \/ conductor' \in Runs' \/ conductor' \in Audits
  BY <1>1, <1>2 DEF Shape, ConductorShape
<1>3. CASE \E src \in Sources : Starts(src)
  BY <1>1, <1>2, <1>3 DEF Starts
<1>4. CASE \E n \in Node : Launches(n) \/ Rejudges(n)
  BY <1>2, <1>4 DEF Launches, Rejudges
<1>5. CASE Publishes \/ Keeps \/ Drops \/ Answers \/ Records \/ Edits
  BY <1>2, <1>5 DEF Publishes, Keeps, Drops, Settles, Answers, Records, Edits
<1>6. CASE Closing \/ Stops
  BY <1>2, <1>6 DEF Closing, Stops, Leaves, GoesOn
<1>7. CASE \/ \E n \in Node : MovesBranch(n) \/ MovesQuarantine(n)
           \/ \E stack, conflicts : Pins(stack, conflicts)
  BY <1>2, <1>7 DEF MovesBranch, MovesQuarantine, Pins
<1> QED
  BY <1>3, <1>4, <1>5, <1>6, <1>7, StepIs

(* ... and what it has in hand.                                             *)
LEMMA StepLaneShape ==
    ASSUME Shape, Next
    PROVE  LaneShape'
<1>1. Working \subseteq Working' /\ Emitting \subseteq Emitting' /\ Recording \subseteq Recording'
  BY StepWidens
<1>2. CASE lane' = lane \/ lane' = NoLane \/ lane' \in Working' \cup Emitting' \cup Recording'
  BY <1>1, <1>2 DEF Shape, LaneShape
<1>3. CASE \/ \E src \in Sources : Starts(src)
           \/ Edits \/ Closing \/ Stops
  BY <1>2, <1>3 DEF Starts, Edits, Closing, Stops, Leaves
<1>4. CASE \E n \in Node : Launches(n) \/ Rejudges(n)
  BY <1>1, <1>2, <1>4 DEF Launches, Rejudges
<1>5. CASE Publishes
  <2>1. lane.node \in Node /\ On(lane.tree) \in Commits' /\ lane'.receipt \in Receipts
    BY <1>5, AddedIs DEF Publishes, Working
  <2>2. lane' \in Emitting'
    BY <1>5, <2>1 DEF Publishes, Emitting
  <2> QED
    BY <1>2, <2>2
<1>6. CASE Keeps \/ Drops
  <2>1. lane.node \in Node /\ lane'.receipt \in Receipts
        /\ lane' = [step |-> "record", node |-> lane.node, commit |-> None, receipt |-> lane'.receipt]
    BY <1>6 DEF Keeps, Drops, Settles, Working
  <2>2. lane' \in Recording'
    BY <2>1 DEF Recording
  <2> QED
    BY <1>2, <2>2
<1>7. CASE Answers
  <2>1. lane.node \in Node /\ lane.commit \in Commits /\ lane.receipt \in Receipts
        /\ lane'.closes \in BOOLEAN
        /\ lane' = [step |-> "record", node |-> lane.node, commit |-> lane.commit,
              receipt |-> lane.receipt,
                    closes |-> lane'.closes]
    BY <1>7 DEF Answers, Emitting
  <2>2. lane' \in Recording
    BY <2>1 DEF Recording
  <2> QED
    BY <1>1, <1>2, <2>2
<1>8. CASE Records
  BY <1>1, <1>2, <1>8 DEF Records
<1>9. CASE \/ \E n \in Node : MovesBranch(n) \/ MovesQuarantine(n)
           \/ \E stack, conflicts : Pins(stack, conflicts)
  BY <1>2, <1>9 DEF MovesBranch, MovesQuarantine, Pins
<1> QED
  BY <1>3, <1>4, <1>5, <1>6, <1>7, <1>8, <1>9, StepIs

(* A run that goes on still trusts what it trusted.                         *)
LEMMA StepConducted ==
    ASSUME Shape, Next
    PROVE  Conducted'
<1>1. Commits \subseteq Commits'
  BY StepGrows
<1>2. Conducted
  BY DEF Shape
<1>3. CASE /\ conductor' = conductor /\ lane'.step \in {"emit", "record", "close"} /\ lane.step # "pick"
           /\ lane'.node = lane.node
  BY <1>1, <1>2, <1>3 DEF Conducted, InHand, Running
<1>4. CASE conductor' = conductor /\ lane' = lane
  BY <1>1, <1>2, <1>4 DEF Conducted, InHand, Running
<1>5. CASE conductor' = Idle /\ lane' = NoLane
  BY <1>5 DEF Conducted, InHand, Running, Idle, NoLane
<1>6. ASSUME NEW src \in Sources, Starts(src) PROVE Conducted'
  <2>1. ~InHand' /\ conductor'.verb = "run"
    BY <1>6 DEF Starts, InHand, NoLane, Runs
  <2>2. \A n \in conductor'.trusted : conductor'.closed[n] \in Commits' /\ conductor'.closed[n] # None
    BY <1>1, <1>6 DEF Starts
  <2> QED
    BY <1>6, <2>1, <2>2 DEF Starts, Conducted
<1>7. ASSUME NEW n \in Node, Launches(n) PROVE Conducted'
  <2>1. conductor' = conductor /\ lane'.step = "work" /\ lane'.node = n /\ conductor.closed[n] = None
        /\ Running /\ conductor # Idle
    BY <1>7 DEF Launches, Ready, Running, Idle
  <2> QED
    BY <1>1, <1>2, <2>1 DEF Conducted, InHand, Running
<1>8. ASSUME NEW n \in Node, Rejudges(n) PROVE Conducted'
  BY <1>8 DEF Rejudges, Conducted, InHand, Running, Idle
<1>9. CASE Publishes
  <2>1. lane.step = "work"
    BY <1>9 DEF Publishes, Working
  <2> QED
    BY <1>3, <1>9, <2>1 DEF Publishes
<1>10. CASE Keeps \/ Drops
  <2>1. lane.step = "work"
    BY <1>10 DEF Keeps, Drops, Settles, Working
  <2> QED
    BY <1>3, <1>10, <2>1 DEF Keeps, Drops, Settles
<1>11. CASE Answers
  <2>1. lane.step = "emit"
    BY <1>11 DEF Answers, Emitting
  <2> QED
    BY <1>3, <1>11, <2>1 DEF Answers
<1>12. CASE Records
  BY <1>3, <1>12 DEF Records
<1>13. CASE Closing
  <2>1. Running /\ conductor \in Runs /\ InHand /\ lane.node \in Node /\ lane.commit \in Commits
        /\ lane.commit # None
    BY <1>13, ConductorIs, LaneIs DEF Closing, GoesOn, InHand, Recording
  <2>2. ~InHand' /\ conductor'.verb = "run" /\ conductor' # Idle
    BY <1>13 DEF Closing, GoesOn, InHand, NoLane, Runs, Idle
  <2>3. /\ conductor'.trusted = conductor.trusted /\ conductor'.settled = conductor.settled
        /\ conductor'.closed = [conductor.closed EXCEPT ![lane.node] = lane.commit]
    BY <1>13 DEF Closing, GoesOn
  <2>4. conductor.closed \in [Node -> Commits \cup {None, Implied}] /\ conductor.trusted \subseteq Node
    BY <2>1 DEF Runs
  <2>5. \A n \in conductor.trusted : conductor'.closed[n] \in Commits /\ conductor'.closed[n] # None
    BY <1>2, <2>1, <2>3, <2>4 DEF Conducted
  <2> QED
    BY <1>1, <1>2, <2>1, <2>2, <2>3, <2>5 DEF Conducted
<1>14. CASE Stops
  <2>1. CASE conductor' = Idle
    BY <1>5, <1>14, <2>1 DEF Stops, Leaves
  <2>2. CASE /\ GoesOn /\ InHand /\ conductor'.settled = conductor.settled \cup {lane.node}
             /\ conductor'.closed = conductor.closed
    <3>1. Running /\ conductor.closed[lane.node] = None /\ conductor'.trusted = conductor.trusted
          /\ conductor'.verb = "run" /\ ~InHand'
      BY <1>2, <1>14, <2>2 DEF GoesOn, Conducted, Stops, Leaves, InHand, NoLane, Runs
    <3>2. \A n \in conductor.trusted : conductor.closed[n] \in Commits' /\ conductor.closed[n] # None
      BY <1>1, <1>2, <3>1 DEF Conducted
    <3>3. lane.node \notin conductor.trusted /\ conductor.trusted \cap conductor.settled = {}
      BY <1>2, <3>1, <3>2 DEF Conducted
    <3> QED
      BY <2>2, <3>1, <3>2, <3>3 DEF Conducted
  <2> QED
    BY <1>14, <2>1, <2>2 DEF Stops, Leaves
<1>15. CASE Edits
  BY <1>4, <1>15 DEF Edits
<1>16. CASE \/ \E n \in Node : MovesBranch(n) \/ MovesQuarantine(n)
            \/ \E stack, conflicts : Pins(stack, conflicts)
  BY <1>4, <1>16 DEF MovesBranch, MovesQuarantine, Pins
<1> QED
  BY <1>6, <1>7, <1>8, <1>9, <1>10, <1>11, <1>12, <1>13, <1>14, <1>15, <1>16, StepIs

(* Every variable keeps its shape.                                          *)
LEMMA StepShape ==
    ASSUME Shape, Next
    PROVE  Shape'
BY StepLogShape, StepOperatorShape, StepRefShape, StepConductorShape, StepLaneShape,
      StepConducted DEF Shape

-----------------------------------------------------------------------------
(* The parts of the invariant, step by step                                *)

(* Only a conductor that publishes verifies, re-audits or closes anew.      *)
LEMMA NewIs ==
    ASSUME IInv, Next, NEW j \in DOMAIN log', j \notin DOMAIN log
    PROVE  /\ j = Len(log) + 1
           /\ Publishes \/ (New.kind \notin {"verified", "reaudited"} /\ ~New.taken)
<1>1. Shape
  BY DEF IInv
<1>2. ASSUME NEW tree, Adds(tree) PROVE j = Len(log) + 1
  BY <1>2 DEF Adds
<1>3. DOMAIN log' # DOMAIN log
  OBVIOUS
<1>4. CASE Publishes
  BY <1>2, <1>4 DEF Publishes
<1>5. CASE Keeps
  BY <1>2, <1>5 DEF Keeps
<1>6. ASSUME NEW tree, Unclosed(tree) PROVE j = Len(log) + 1 /\ New.kind \in {"edit", "stack"}
      /\ ~New.taken
  BY <1>2, <1>6 DEF Unclosed
<1>7. ASSUME NEW n \in Node, MovesBranch(n) \/ MovesQuarantine(n) PROVE \E tree : Unclosed(tree)
  BY <1>3, <1>7 DEF MovesBranch, MovesQuarantine
<1>8. ASSUME NEW stack, NEW conflicts, Pins(stack, conflicts) PROVE \E tree : Unclosed(tree)
  BY <1>8 DEF Pins
<1>9. ASSUME NEW n \in Node PROVE ~Launches(n) /\ ~Rejudges(n)
  BY <1>3 DEF Launches, Rejudges
<1>10. ~Drops /\ ~Answers /\ ~Records /\ ~Closing /\ ~Stops /\ ~Edits /\ \A src \in Sources : ~Starts(src)
  BY <1>3 DEF Drops, Answers, Records, Closing, Stops, Edits, Starts, Takes
<1> QED
  BY <1>1, <1>4, <1>5, <1>6, <1>7, <1>8, <1>9, <1>10, StepIs

(* The steps that leave what is in hand, and who has it, alone.             *)
LEMMA SameLane ==
    ASSUME \/ Edits
           \/ \E n \in Node : MovesBranch(n) \/ MovesQuarantine(n)
           \/ \E stack, conflicts : Pins(stack, conflicts)
    PROVE  UNCHANGED <<world, receipts, verified, conductor, lane, unrecorded>>
BY DEF Edits, MovesBranch, MovesQuarantine, Pins

(* The same steps, by what they do to the node in hand.                     *)
LEMMA StepKinds ==
    ASSUME IInv, Next
    PROVE  /\ Shape /\ Shape' /\ Grown(log, log') /\ world' = world
           /\ Commits \subseteq Commits' /\ TreesOf(log) \subseteq TreesOf(log')
           /\ \/ \E src \in Sources : Starts(src)
              \/ \E n \in Node : Launches(n) \/ Rejudges(n)
              \/ Publishes \/ Keeps \/ Drops \/ Answers \/ Records \/ Closing \/ Stops
              \/ /\ UNCHANGED <<world, receipts, verified, conductor, lane, unrecorded>>
                 /\ ~Publishes
<1>1. Shape
  BY DEF IInv
<1>2. ASSUME UNCHANGED lane PROVE ~Publishes
  BY <1>2 DEF Publishes, Working
<1> QED
  BY <1>1, <1>2, StepIs, StepShape, StepGrows, SameLane

(* Receipts stay accurate, and the next one is.                             *)
LEMMA StepReceipted ==
    ASSUME IInv, Next
    PROVE  Receipted'
<1>1. /\ Shape /\ Grown(log, log') /\ log \in Seq(Facts) /\ Numbered(log) /\ Receipted
      /\ Reaudited /\ Conducted
  BY StepKinds DEF IInv, Shape, LogShape
<1>2. \A r, n : Accurate(log, r, n) => Accurate(log', r, n)
  BY <1>1, StaysAccurate
<1>3. CASE receipts' = receipts /\ ~Settling'
  BY <1>1, <1>2, <1>3 DEF Receipted
<1>4. CASE receipts' = receipts /\ lane'.node = lane.node /\ lane'.receipt = lane.receipt /\ Settling
  BY <1>1, <1>2, <1>4 DEF Receipted
<1>5. CASE receipts' = receipts /\ Accurate(log', lane'.receipt, lane'.node)
  BY <1>1, <1>2, <1>5 DEF Receipted
<1>6. CASE Publishes
  <2> DEFINE r == lane'.receipt
  <2>1. r.diffRef = On(lane.tree) /\ r.kept = None /\ On(lane.tree) \in CommitsOf(log')
        /\ Top(On(lane.tree)) = Len(log) + 1 /\ New.src = r.src /\ r.smoke = Asked.smoke
              /\ r.audit = Asked.audit
    BY <1>6 DEF Publishes, Adds
  <2>2. New.kind = "verified" => New.smoke = r.smoke /\ New.audit = r.audit
    BY <1>6, <2>1 DEF Publishes
  <2> HIDE DEF r
  <2>3. Accurate(log', r, lane.node)
    BY <2>1, <2>2 DEF Accurate, New
  <2> QED
    BY <1>5, <1>6, <2>3 DEF Publishes, r
<1>7. CASE Keeps
  <2> DEFINE r == lane'.receipt
  <2>1. /\ r.diffRef = None /\ r.kept = On(lane.tree) /\ On(lane.tree) \in CommitsOf(log')
        /\ Top(On(lane.tree)) = Len(log) + 1 /\ New.kind = "kept" /\ New.of = lane.node
        /\ lane.tree \subseteq On(lane.tree) /\ Len(log) + 1 \in On(lane.tree)
              /\ lane.tree \in TreesOf(log)
    BY <1>7 DEF Keeps, Settles, Adds
  <2>2. ASSUME r.gate = "green" \/ r.records PROVE GreenIn(log', On(lane.tree), lane.node)
    <3>1. lane.step = "work"
      BY <1>7 DEF Keeps, Settles, Working
    <3>2. CASE Running
      BY <1>7, <2>1, <2>2, <3>2 DEF Keeps, GreenIn, New
    <3>3. CASE conductor.verb = "audit"
      <4>1. GreenIn(log, lane.tree, lane.node)
        BY <1>1, <3>1, <3>3 DEF Reaudited
      <4> QED
        BY <1>1, <2>1, <4>1, StaysSo
    <3> QED
      BY <1>1, <3>1, <3>2, <3>3, ConductorIs DEF Conducted, InHand, Running
  <2> HIDE DEF r
  <2>3. Accurate(log', r, lane.node)
    BY <2>1, <2>2 DEF Accurate, New
  <2> QED
    BY <1>5, <1>7, <2>3 DEF Keeps, Settles, r
<1>8. CASE Drops
  <2> DEFINE r == lane'.receipt
  <2>1. r.diffRef = None /\ r.kept = None
    BY <1>8 DEF Drops, Settles
  <2> HIDE DEF r
  <2>2. Accurate(log', r, lane'.node)
    BY <2>1 DEF Accurate
  <2> QED
    BY <1>5, <1>8, <2>2 DEF Drops, Settles, r
<1>9. CASE Answers
  BY <1>4, <1>9 DEF Answers, Emitting, Settling
<1>10. CASE Records
  <2>1. Settling /\ lane.node \in Node /\ lane.receipt \in Receipts
    BY <1>10 DEF Records, Recording, Settling
  <2>2. receipts \in [Node -> Receipts \cup {None}]
    BY <1>1 DEF Shape, RefShape
  <2>3. \A n \in Node : receipts'[n] = receipts[n] \/ (n = lane.node /\ receipts'[n] = lane.receipt)
    BY <1>10, <2>1, <2>2 DEF Records
  <2> QED
    BY <1>1, <1>2, <1>10, <2>1, <2>3 DEF Receipted, Records
<1>11. CASE Closing \/ Stops
  BY <1>3, <1>11 DEF Closing, Stops, Leaves, NoLane, Settling
<1>12. CASE \/ \E src \in Sources : Starts(src)
            \/ \E n \in Node : Launches(n) \/ Rejudges(n)
  BY <1>3, <1>12 DEF Starts, Launches, Rejudges, NoLane, Settling
<1>13. CASE UNCHANGED <<world, receipts, verified, conductor, lane, unrecorded>>
  BY <1>3, <1>4, <1>13 DEF Settling
<1> QED
  BY <1>6, <1>7, <1>8, <1>9, <1>10, <1>11, <1>12, <1>13, StepKinds

(* A re-audit is of a tree so judged, and so is what it publishes.          *)
LEMMA StepReaudited ==
    ASSUME IInv, Next
    PROVE  Reaudited'
<1>1. Shape /\ Grown(log, log') /\ LogShape /\ Reaudited /\ Receipted
  BY StepKinds DEF IInv, Shape
<1>2. ASSUME NEW j \in DOMAIN log', log'[j].kind = "reaudited"
      PROVE  GreenIn(log', log'[j].ids, log'[j].of)
  <2>1. CASE j \in DOMAIN log
    <3>1. log[j].kind = "reaudited" /\ log'[j].ids = log[j].ids /\ log'[j].of = log[j].of
      BY <1>1, <1>2, <2>1 DEF Grown
    <3>2. GreenIn(log, log[j].ids, log[j].of)
      BY <1>1, <2>1, <3>1 DEF Reaudited, ReauditedBuildWasGreen, GreenIn
    <3>3. log[j].ids \in TreesOf(log)
      BY <1>1, <2>1, TopOfCommit DEF LogShape, CommitsOf
    <3> QED
      BY <1>1, <3>1, <3>2, <3>3, StaysSo
  <2>2. CASE j \notin DOMAIN log
    <3>1. j = Len(log) + 1 /\ Publishes
      BY <1>2, <2>2, NewIs DEF New
    <3>2. conductor.verb = "audit" /\ New.of = lane.node /\ New.ids = On(lane.tree) /\ lane.step = "work"
          /\ lane.tree \subseteq On(lane.tree) /\ lane.tree \in TreesOf(log)
      BY <1>2, <3>1 DEF Publishes, Adds, New, Working
    <3>3. GreenIn(log, lane.tree, lane.node)
      BY <1>1, <3>2 DEF Reaudited
    <3> QED
      BY <1>1, <3>1, <3>2, <3>3, StaysSo DEF New
  <2> QED
    BY <2>1, <2>2
<1>3. ReauditedBuildWasGreen'
  BY <1>2 DEF ReauditedBuildWasGreen, GreenIn
<1>4. ASSUME conductor'.verb = "audit", lane'.step = "work" PROVE GreenIn(log', lane'.tree, lane'.node)
  <2>1. ASSUME NEW n \in Node, Rejudges(n) PROVE GreenIn(log', lane'.tree, lane'.node)
    <3>1. GreenIn(log, receipts[n].kept, n) /\ receipts[n].kept \in CommitsOf(log)
      BY <1>1, <2>1 DEF Receipted, Rejudges, Accurate
    <3>2. receipts[n].kept \in TreesOf(log)
      BY <1>1, <3>1, TopOfCommit DEF LogShape
    <3> QED
      BY <1>1, <2>1, <3>1, <3>2, StaysSo DEF Rejudges
  <2>2. ASSUME NEW n \in Node, Launches(n) PROVE FALSE
    BY <1>4, <2>2 DEF Launches, Running
  <2>3. ASSUME NEW src \in Sources, Starts(src) PROVE FALSE
    BY <1>4, <2>3 DEF Starts, Runs
  <2>4. CASE Publishes \/ Keeps \/ Drops \/ Answers \/ Records \/ Closing \/ Stops
    BY <1>4, <2>4 DEF Publishes, Keeps, Drops, Settles, Answers, Records, Closing, Stops, Leaves, NoLane
  <2>5. CASE UNCHANGED <<world, receipts, verified, conductor, lane, unrecorded>>
    <3>1. GreenIn(log, lane.tree, lane.node) /\ lane.tree \in TreesOf(log)
      <4>1. conductor.verb = "audit" /\ lane.step = "work" /\ lane \in Working
        BY <1>1, <1>4, <2>5, LaneIs
      <4>2. lane.tree # None
        BY <1>1, <4>1 DEF Shape, Conducted
      <4> QED
        BY <1>1, <4>1, <4>2 DEF Reaudited, Working
    <3> QED
      BY <1>1, <2>5, <3>1, StaysSo
  <2> QED
    BY <2>1, <2>2, <2>3, <2>4, <2>5, StepKinds
<1> QED
  BY <1>3, <1>4 DEF Reaudited

(* A node is closed only by the conductor that has it in hand.              *)
OpenStill(n) ==
    \A i \in DOMAIN log' : log'[i].of = n /\ log'[i].taken => i \in DOMAIN log /\ log[i].of = n
          /\ log[i].taken
(* Any other node is closed at what it was.                                 *)
LEMMA ClosedByItsOwn ==
    ASSUME IInv, Next, NEW n
    PROVE  OpenStill(n) \/ (n = lane.node /\ (Publishes \/ Answers \/ Closing))
<1>1. Shape /\ Grown(log, log') /\ Accounted
  BY StepKinds DEF IInv
<1>2. CASE Publishes /\ n # lane.node
  BY <1>2 DEF Publishes, Adds, New, OpenStill
<1>3. CASE Takes /\ (Answers \/ Closing) /\ n # lane.node
  <2>1. Settling /\ lane.commit # None
    <3>1. lane.commit \in Commits
      BY <1>3 DEF Takes
    <3> QED
      BY <1>1, <1>3, <3>1, CommitIsNoName DEF Answers, Closing, Emitting, Settling
  <2>2. log[Top(lane.commit)].of = lane.node
    BY <1>1, <2>1 DEF Accounted
  <2>3. ASSUME NEW i \in DOMAIN log', log'[i].of = n, log'[i].taken
        PROVE  i \in DOMAIN log /\ log[i].of = n /\ log[i].taken
    <3>1. i \in DOMAIN log /\ log[i].of = n
      BY <1>1, <1>3, <2>3 DEF Takes, Grown
    <3>2. i # Top(lane.commit)
      BY <1>3, <2>2, <3>1
    <3> QED
      BY <1>3, <2>3, <3>1, <3>2 DEF Takes
  <2> QED
    BY <2>3 DEF OpenStill
<1>4. CASE log' = log
  BY <1>4 DEF OpenStill
<1>5. CASE DOMAIN log' # DOMAIN log /\ ~Publishes
  <2>1. PICK j \in DOMAIN log' : j \notin DOMAIN log
    BY <1>1, <1>5 DEF Grown
  <2>2. ~New.taken /\ j = Len(log) + 1
    BY <1>5, <2>1, NewIs
  <2>3. Logged
    BY <1>1, LogDoes
  <2>4. PICK tree : Adds(tree)
    BY <1>5, <2>3 DEF Logged, Takes
  <2> QED
    BY <2>2, <2>4 DEF Adds, New, OpenStill
<1>6. ASSUME DOMAIN log' = DOMAIN log, ~Answers, ~Closing PROVE log' = log
  <2>1. ASSUME NEW tree PROVE ~Adds(tree)
    BY <1>6 DEF Adds
  <2>2. ~Publishes /\ ~Keeps /\ (\A tree : ~Unclosed(tree))
    BY <2>1 DEF Publishes, Keeps, Unclosed
  <2>3. CASE \/ \E src \in Sources : Starts(src)
             \/ \E d \in Node : Launches(d) \/ Rejudges(d)
             \/ Drops \/ Records \/ Stops \/ Edits
    BY <2>3 DEF Starts, Launches, Rejudges, Drops, Records, Stops, Edits
  <2>4. CASE \/ \E d \in Node : MovesBranch(d) \/ MovesQuarantine(d)
             \/ \E stack, conflicts : Pins(stack, conflicts)
    BY <2>2, <2>4 DEF MovesBranch, MovesQuarantine, Pins
  <2> QED
    BY <1>1, <1>6, <2>2, <2>3, <2>4, StepIs
<1>7. DOMAIN log' = DOMAIN log \/ DOMAIN log' # DOMAIN log
  OBVIOUS
<1>8. CASE (Answers \/ Closing) /\ n # lane.node
  BY <1>3, <1>4, <1>8 DEF Answers, Closing
<1> QED
  BY <1>2, <1>4, <1>5, <1>6, <1>7, <1>8

(* What was before any close, or instead of one, still is.                  *)
LEMMA NotClosedAnew ==
    ASSUME NEW n, OpenStill(n), NEW k
    PROVE  /\ NeverClosed(log, n) => NeverClosed(log', n)
           /\ ClosedBefore(log, n, k) => ClosedBefore(log', n, k)
BY DEF OpenStill, NeverClosed, ClosedBefore

(* A close is followed by its receipt, unless that is lost.                 *)
LEMMA StepAccountedFor ==
    ASSUME IInv, Next, NEW n \in Node, n \notin unrecorded', ~Pending(n)'
    PROVE  \/ NeverClosed(log', n)
           \/ receipts'[n] # None /\ (receipts'[n].kept # None
                 => ClosedBefore(log', n, Top(receipts'[n].kept)))
<1>1. Shape /\ Accounted
  BY DEF IInv, Shape
<1>2. CASE n \notin unrecorded /\ ~Pending(n) /\ OpenStill(n) /\ receipts'[n] = receipts[n]
  <2>1. \/ NeverClosed(log, n)
        \/ receipts[n] # None /\ (receipts[n].kept # None => ClosedBefore(log, n, Top(receipts[n].kept)))
    BY <1>1, <1>2 DEF Accounted
  <2> QED
    BY <1>2, <2>1, NotClosedAnew
<1>3. CASE n = lane.node /\ (Publishes \/ Keeps \/ Drops \/ Answers)
  BY <1>3 DEF Publishes, Keeps, Drops, Settles, Answers, Pending
<1>4. CASE Records /\ n = lane.node
  <2>1. receipts \in [Node -> Receipts \cup {None}] /\ lane.receipt \in Receipts /\ lane.receipt # None
    BY <1>1, <1>4, HistoryAssumption DEF Shape, RefShape, Records, Recording
  <2>2. receipts'[n] = lane.receipt /\ log' = log
    BY <1>4, <2>1 DEF Records
  <2>3. lane.receipt.kept # None => ClosedBefore(log, n, Top(lane.receipt.kept))
    BY <1>1, <1>4 DEF Accounted, Records
  <2> QED
    BY <2>1, <2>2, <2>3
<1>5. CASE Closing /\ n = lane.node
  <2>1. receipts'[n] = lane.receipt /\ lane.receipt \in Receipts /\ lane.receipt # None
    BY <1>1, <1>5, HistoryAssumption DEF Accounted, Closing, Recording
  <2>2. lane.receipt.kept = None
    BY <1>1, <1>5 DEF Accounted, Closing, Settling
  <2> QED
    BY <2>1, <2>2
<1>6. CASE /\ Publishes \/ Keeps \/ Drops \/ Answers \/ Records \/ Closing
           /\ n # lane.node
  <2>1. OpenStill(n) /\ ~Pending(n)
    BY <1>6, ClosedByItsOwn DEF Pending
  <2>2. n \notin unrecorded /\ receipts'[n] = receipts[n]
    BY <1>1, <1>6 DEF Publishes, Keeps, Drops, Settles, Answers, Records, Closing, Shape, RefShape
  <2> QED
    BY <1>2, <2>1, <2>2
<1>7. CASE Stops
  <2>1. n \notin unrecorded /\ ~Pending(n) /\ OpenStill(n) /\ receipts'[n] = receipts[n]
    BY <1>7 DEF Stops, Pending, OpenStill
  <2> QED
    BY <1>2, <2>1
<1>8. CASE \/ \E src \in Sources : Starts(src)
           \/ \E m \in Node : Launches(m) \/ Rejudges(m)
  <2>1. n \notin unrecorded /\ ~Pending(n) /\ OpenStill(n) /\ receipts'[n] = receipts[n]
    BY <1>8 DEF Starts, Launches, Rejudges, Pending, OpenStill, NoLane
  <2> QED
    BY <1>2, <2>1
<1>9. CASE UNCHANGED <<world, receipts, verified, conductor, lane, unrecorded>> /\ ~Publishes
  <2>1. ~Answers /\ ~Closing
    BY <1>9 DEF Answers, Closing, Emitting, Recording, NoLane
  <2>2. n \notin unrecorded /\ ~Pending(n) /\ OpenStill(n) /\ receipts'[n] = receipts[n]
    BY <1>9, <2>1, ClosedByItsOwn DEF Pending
  <2> QED
    BY <1>2, <2>2
<1> QED
  BY <1>3, <1>4, <1>5, <1>6, <1>7, <1>8, <1>9, StepKinds

(* So every close is accounted for.                                         *)
LEMMA StepAccounted ==
    ASSUME IInv, Next
    PROVE  Accounted'
<1>1. Shape /\ Shape' /\ Grown(log, log') /\ LogShape /\ Accounted
  BY StepKinds DEF IInv, Shape
<1>2. ASSUME Settling', lane'.commit # None
      PROVE  /\ lane'.receipt.kept = None
             /\ log'[Top(lane'.commit)].of = lane'.node /\ log'[Top(lane'.commit)].src = conductor'.src
  <2>1. CASE /\ Settling /\ lane'.commit = lane.commit /\ lane'.receipt = lane.receipt
             /\ lane'.node = lane.node /\ conductor' = conductor
    <3>1. /\ lane.receipt.kept = None
          /\ log[Top(lane.commit)].of = lane.node /\ log[Top(lane.commit)].src = conductor.src
      BY <1>1, <1>2, <2>1 DEF Accounted
    <3>2. lane.commit \in Commits
      BY <1>1, <1>2, <2>1, LaneIs DEF Settling, Emitting, Recording
    <3>3. Top(lane.commit) \in DOMAIN log
      BY <1>1, <3>2, TopOfCommit DEF LogShape, Commits
    <3> QED
      BY <1>1, <2>1, <3>1, <3>3 DEF Grown
  <2>2. CASE Publishes
    BY <2>2 DEF Publishes, Adds, New
  <2>3. CASE Keeps \/ Drops
    BY <1>2, <2>3 DEF Keeps, Drops, Settles
  <2>4. CASE Answers \/ Records
    BY <2>1, <2>4 DEF Answers, Records, Emitting, Settling
  <2>5. CASE Closing \/ Stops
    BY <1>2, <2>5 DEF Closing, Stops, Leaves, Settling, NoLane
  <2>6. CASE \/ \E src \in Sources : Starts(src)
             \/ \E m \in Node : Launches(m) \/ Rejudges(m)
    BY <1>2, <2>6 DEF Starts, Launches, Rejudges, Settling, NoLane
  <2>7. CASE UNCHANGED <<world, receipts, verified, conductor, lane, unrecorded>>
    BY <1>2, <2>1, <2>7 DEF Settling
  <2> QED
    BY <2>2, <2>3, <2>4, <2>5, <2>6, <2>7, StepKinds
<1>3. ASSUME lane'.step = "record", lane'.receipt.kept # None
      PROVE  ClosedBefore(log', lane'.node, Top(lane'.receipt.kept))
  <2>1. CASE Publishes
    BY <1>3, <2>1 DEF Publishes
  <2>2. CASE Keeps
    <3>1. /\ lane'.receipt.kept = On(lane.tree) /\ Top(On(lane.tree)) = Len(log) + 1 /\ ~New.taken
          /\ DOMAIN log' = DOMAIN log \cup {Len(log) + 1} /\ \A i \in DOMAIN log : i < Len(log) + 1
      BY <2>2 DEF Keeps, Settles, Adds
    <3> QED
      BY <3>1 DEF ClosedBefore, New
  <2>3. CASE Drops
    BY <1>3, <2>3 DEF Drops
  <2>4. CASE Answers
    <3>1. Settling /\ lane.commit \in Commits /\ lane'.receipt = lane.receipt
      BY <2>4 DEF Answers, Emitting, Settling
    <3>2. lane.receipt.kept = None
      BY <1>1, <3>1, CommitIsNoName DEF Accounted
    <3> QED
      BY <1>3, <3>1, <3>2
  <2>5. CASE Records
    BY <1>3, <2>5 DEF Records
  <2>6. CASE Closing \/ Stops
    BY <1>3, <2>6 DEF Closing, Stops, Leaves, NoLane
  <2>7. CASE \/ \E src \in Sources : Starts(src)
             \/ \E m \in Node : Launches(m) \/ Rejudges(m)
    BY <1>3, <2>7 DEF Starts, Launches, Rejudges, NoLane
  <2>8. CASE UNCHANGED <<world, receipts, verified, conductor, lane, unrecorded>> /\ ~Publishes
    <3>1. ClosedBefore(log, lane.node, Top(lane.receipt.kept))
      BY <1>1, <1>3, <2>8 DEF Accounted
    <3>2. ~Answers /\ ~Closing
      BY <1>3, <2>8 DEF Answers, Closing, Emitting, Recording, NoLane
    <3>3. OpenStill(lane.node)
      BY <2>8, <3>2, ClosedByItsOwn
    <3> QED
      BY <2>8, <3>1, <3>3, NotClosedAnew
  <2> QED
    BY <2>1, <2>2, <2>3, <2>4, <2>5, <2>6, <2>7, <2>8, StepKinds
<1>4. ASSUME lane'.step = "close", lane'.node \notin unrecorded'
      PROVE  receipts'[lane'.node] = lane'.receipt
  <2>1. CASE Records
    <3>1. lane.node \in Node /\ receipts \in [Node -> Receipts \cup {None}]
      BY <1>1, <2>1 DEF Shape, RefShape, Records, Recording
    <3> QED
      BY <1>4, <2>1, <3>1 DEF Records
  <2>2. CASE Publishes \/ Keeps \/ Drops \/ Answers \/ Closing \/ Stops
    BY <1>4, <2>2 DEF Publishes, Keeps, Drops, Settles, Answers, Closing, Stops, Leaves, NoLane
  <2>3. CASE \/ \E src \in Sources : Starts(src)
             \/ \E m \in Node : Launches(m) \/ Rejudges(m)
    BY <1>4, <2>3 DEF Starts, Launches, Rejudges, NoLane
  <2>4. CASE UNCHANGED <<world, receipts, verified, conductor, lane, unrecorded>>
    BY <1>1, <1>4, <2>4 DEF Accounted
  <2> QED
    BY <2>1, <2>2, <2>3, <2>4, StepKinds
<1>5. \A n \in Node : n \notin unrecorded' /\ ~Pending(n)' =>
         \/ NeverClosed(log', n)
         \/ receipts'[n] # None /\ (receipts'[n].kept # None
               => ClosedBefore(log', n, Top(receipts'[n].kept)))
  BY StepAccountedFor
<1> QED
  BY <1>2, <1>3, <1>4, <1>5 DEF Accounted, Pending

(* The tree a node resumes from is younger than any close of it.            *)
LEMMA StepResumed ==
    ASSUME IInv, Next
    PROVE  Resumed'
<1> SUFFICES ASSUME Running', lane'.step = "work", lane'.seed # None, lane'.node \notin unrecorded'
             PROVE  \/ NeverClosed(log', lane'.node)
                    \/ \E k \in lane'.seed : /\ log'[k].of = lane'.node /\ log'[k].kind = "kept"
                                             /\ ClosedBefore(log', lane'.node, k)
  BY DEF Resumed
<1>1. Shape /\ Grown(log, log') /\ LogShape /\ Accounted /\ Receipted /\ Resumed
  BY StepKinds DEF IInv, Shape
<1>2. ASSUME NEW n \in Node, Launches(n)
      PROVE  \/ NeverClosed(log', n)
             \/ \E k \in lane'.seed : log'[k].of = n /\ log'[k].kind = "kept" /\ ClosedBefore(log', n, k)
  <2>1. Vouched(n) /\ lane'.seed = quarantine[n].base
    BY <1>2 DEF Launches, Seeds
  <2>2. n \notin unrecorded /\ ~Pending(n) /\ log' = log
    BY <1>2 DEF Launches, Pending, NoLane
  <2>3. CASE NeverClosed(log, n)
    BY <2>2, <2>3
  <2>4. CASE receipts[n] # None /\ (receipts[n].kept # None
        => ClosedBefore(log, n, Top(receipts[n].kept)))
    <3>1. receipts[n].kept # None /\ receipts[n].kept \subseteq lane'.seed
      BY <2>1, <2>4 DEF Vouched, isAncestor
    <3>2. Accurate(log, receipts[n], n)
      BY <1>1, <2>4 DEF Receipted
    <3>3. receipts[n].kept \in CommitsOf(log) /\ log[Top(receipts[n].kept)].kind = "kept"
          /\ log[Top(receipts[n].kept)].of = n
      BY <3>1, <3>2 DEF Accurate
    <3>4. Top(receipts[n].kept) \in receipts[n].kept
      BY <1>1, <3>3, TopOfCommit DEF LogShape
    <3> QED
      BY <2>2, <2>4, <3>1, <3>3, <3>4
  <2> QED
    BY <1>1, <2>2, <2>3, <2>4 DEF Accounted
<1>3. CASE \E n \in Node : Launches(n)
  BY <1>2, <1>3 DEF Launches
<1>4. CASE UNCHANGED <<world, receipts, verified, conductor, lane, unrecorded>> /\ ~Publishes
  <2>1. ~Answers /\ ~Closing
    BY <1>4 DEF Answers, Closing, Emitting, Recording, NoLane
  <2>2. OpenStill(lane.node)
    BY <1>4, <2>1, ClosedByItsOwn
  <2>3. \/ NeverClosed(log, lane.node)
        \/ \E k \in lane.seed : log[k].of = lane.node /\ log[k].kind = "kept"
              /\ ClosedBefore(log, lane.node, k)
    BY <1>1, <1>4 DEF Resumed, Running
  <2>4. lane.seed \in TreesOf(log)
    <3>1. lane.seed \in CommitsOf(log)
      BY <1>1, <1>4, LaneIs DEF Working, Maybe, Commits
    <3> QED
      BY <1>1, <3>1, TopOfCommit DEF LogShape
  <2>5. ASSUME NEW k \in lane.seed, log[k].of = lane.node, log[k].kind = "kept", ClosedBefore(log,
        lane.node, k)
        PROVE  log'[k].of = lane.node /\ log'[k].kind = "kept" /\ ClosedBefore(log', lane.node, k)
    <3>1. k \in DOMAIN log
      BY <2>4 DEF TreesOf
    <3>2. log'[k].of = lane.node /\ log'[k].kind = "kept"
      BY <1>1, <2>5, <3>1 DEF Grown
    <3>3. ClosedBefore(log', lane.node, k)
      BY <2>2, <2>5, NotClosedAnew
    <3> QED
      BY <3>2, <3>3
  <2>6. NeverClosed(log, lane.node) => NeverClosed(log', lane.node)
    BY <2>2, NotClosedAnew
  <2> QED
    BY <1>4, <2>3, <2>5, <2>6
<1>5. CASE Publishes \/ Keeps \/ Drops \/ Answers \/ Records \/ Closing \/ Stops
  BY <1>5 DEF Publishes, Keeps, Drops, Settles, Answers, Records, Closing, Stops, Leaves, NoLane
<1>6. CASE \/ \E src \in Sources : Starts(src)
           \/ \E n \in Node : Rejudges(n)
  BY <1>6 DEF Starts, Rejudges, NoLane, Running
<1> QED
  BY <1>3, <1>4, <1>5, <1>6, StepKinds

(* What a ledger has of a node closed is a close of it.                     *)
LEMMA StepLedgers ==
    ASSUME IInv, Next
    PROVE  Ledgers'
<1>1. Shape /\ Shape' /\ Grown(log, log') /\ LogShape /\ Accounted /\ Ledgers /\ world' = world
  BY StepKinds DEF IInv, Shape
<1>2. ASSUME NEW s \in Sources, NEW n \in Node, verified'[s][n] # None
      PROVE  Closes(log', Top(verified'[s][n]), n, s)
  <2>1. CASE verified'[s][n] = verified[s][n]
    <3>1. Closes(log, Top(verified[s][n]), n, s)
      BY <1>1, <1>2, <2>1 DEF Ledgers
    <3>2. Top(verified[s][n]) \in DOMAIN log
      <4>1. verified[s][n] \in Commits
        BY <1>1, <1>2, <2>1 DEF Shape, RefShape, Maybe
      <4> QED
        BY <1>1, <4>1, TopOfCommit DEF LogShape, Commits
    <3> QED
      BY <1>1, <2>1, <3>1, <3>2 DEF Closes, Grown
  <2>2. CASE verified'[s][n] # verified[s][n]
    <3>1. Answers /\ verified' # verified
      BY <2>2, StepIs, StepKinds DEF IInv, Rebuilding, Starts, Launches, Rejudges, Publishes,
            Keeps, Drops,
         Settles, Records, Closing, Stops, Edits, MovesBranch, MovesQuarantine, Pins
    <3>2. Takes /\ verified' = [verified EXCEPT ![conductor.src][lane.node] = lane.commit]
      BY <3>1 DEF Answers
    <3>3. s = conductor.src /\ n = lane.node /\ verified'[s][n] = lane.commit
      BY <1>1, <2>2, <3>2 DEF Shape, RefShape
    <3>4. Settling /\ lane.commit # None
      BY <1>1, <3>1, CommitIsNoName DEF Answers, Emitting, Settling
    <3>5. log[Top(lane.commit)].of = n /\ log[Top(lane.commit)].src = s
      BY <1>1, <3>3, <3>4 DEF Accounted
    <3> QED
      BY <3>2, <3>3, <3>5 DEF Takes, Grown, Closes
  <2> QED
    BY <2>1, <2>2
<1>3. ASSUME moves' = 0, NEW n \in Node, branch'[n] # None
      PROVE  log'[Top(branch'[n])].of = n /\ (world'.ledger = "git" => log'[Top(branch'[n])].taken)
  <2>0. moves = 0 /\ Shape
    BY <1>1, <1>3, StepOperatorShape
  <2>1. CASE branch'[n] = branch[n]
    <3>1. log[Top(branch[n])].of = n /\ (world.ledger = "git" => log[Top(branch[n])].taken)
      BY <1>1, <1>3, <2>0, <2>1 DEF Ledgers
    <3>2. Top(branch[n]) \in DOMAIN log
      <4>1. branch[n] \in Commits
        BY <1>1, <1>3, <2>1 DEF Shape, RefShape, Maybe
      <4> QED
        BY <1>1, <4>1, TopOfCommit DEF LogShape, Commits
    <3> QED
      BY <1>1, <2>1, <3>1, <3>2 DEF Grown
  <2>2. CASE branch'[n] # branch[n]
    <3>1. ASSUME NEW m \in Node, MovesBranch(m) PROVE FALSE
      <4>1. moves' = moves + 1
        BY <3>1 DEF MovesBranch
      <4> QED
        BY <1>3, <2>0, <4>1
    <3>2. Publishes
      BY <2>2, <3>1, StepIs, StepKinds DEF IInv, Rebuilding, Starts, Launches, Rejudges, Keeps, Drops,
         Settles, Answers, Records, Closing, Stops, Edits, MovesQuarantine, Pins, refs
    <3>3. n = lane.node /\ branch'[n] = On(lane.tree)
      BY <1>1, <2>2, <3>2 DEF Publishes, Shape, RefShape
    <3>4. Top(On(lane.tree)) = Len(log) + 1 /\ New.of = n /\ New.taken = TakenByGit
      BY <3>2, <3>3 DEF Publishes, Adds
    <3> QED
      BY <1>1, <3>3, <3>4 DEF New, TakenByGit
  <2> QED
    BY <2>1, <2>2
<1> QED
  BY <1>2, <1>3 DEF Ledgers

(* What it tells a run is closed is a close of that node by that plan.      *)
LEMMA LedgerCloses ==
    ASSUME Shape, Ledgers, NEW src \in Sources, NEW n \in Node, Ledger(src)[n] # None
    PROVE  /\ log[Top(Ledger(src)[n])].src = src
           /\ moves = 0 => Closes(log, Top(Ledger(src)[n]), n, src)
<1>1. CASE world.ledger = "tend"
  BY <1>1 DEF Ledger, Ledgers, Closes
<1>2. CASE world.ledger # "tend"
  <2>1. world.ledger = "git"
    BY <1>2, WorldIsOne DEF Shape
  <2>2. Ledger(src)[n] = branch[n] /\ branch[n] # None /\ log[Top(branch[n])].src = src
    BY <1>2 DEF Ledger
  <2> QED
    BY <2>1, <2>2 DEF Ledgers, Closes
<1> QED
  BY <1>1, <1>2

(* What a run trusts was verified under what it asks for.                   *)
LEMMA StepTrusted ==
    ASSUME IInv, Next
    PROVE  Trusted'
<1> SUFFICES ASSUME Running', NEW n \in conductor'.trusted, receipts'[n] # None,
                    receipts'[n].diffRef = conductor'.closed[n], TrustedAt(n)'.kind = "verified"
             PROVE  /\ TrustedAt(n)'.smoke = conductor'.accept[n].smoke
                    /\ TrustedAt(n)'.audit = conductor'.accept[n].audit
  BY DEF Trusted
<1>1. Shape /\ Shape' /\ Grown(log, log') /\ LogShape /\ Ledgers /\ Receipted /\ Trusted /\ Conducted
  BY StepKinds DEF IInv, Shape
<1>2. TrustedAt(n)' = log'[Top(conductor'.closed[n])]
  BY DEF TrustedAt
<1>3. CASE /\ Running /\ n \in conductor.trusted /\ conductor'.closed[n] = conductor.closed[n]
           /\ conductor'.accept = conductor.accept /\ receipts'[n] = receipts[n]
  <2>1. Top(conductor.closed[n]) \in DOMAIN log
    BY <1>1, <1>3, TopOfCommit DEF Conducted, LogShape, Commits
  <2>2. TrustedAt(n).kind = TrustedAt(n)'.kind /\ TrustedAt(n).smoke = TrustedAt(n)'.smoke
        /\ TrustedAt(n).audit = TrustedAt(n)'.audit
    BY <1>1, <1>2, <1>3, <2>1 DEF TrustedAt, Grown
  <2> QED
    BY <1>1, <1>3, <2>2 DEF Trusted
<1>4. ASSUME NEW src \in Sources, Starts(src)
      PROVE  /\ TrustedAt(n)'.smoke = conductor'.accept[n].smoke
             /\ TrustedAt(n)'.audit = conductor'.accept[n].audit
  <2> DEFINE l == Ledger(src)
             r == receipts[n]
  <2>1. /\ n \in Node /\ conductor'.closed[n] = l[n] /\ l[n] \in Commits /\ l[n] # None
        /\ n \notin AcceptanceChanged(src, l) /\ log' = log /\ r = receipts'[n]
        /\ conductor'.accept = accept[src]
    BY <1>4 DEF Starts, Runs
  <2>2. log[Top(l[n])].src = src
    BY <1>1, <2>1, LedgerCloses
  <2>3. r # None /\ r.diffRef = l[n] /\ Accurate(log, r, n)
    BY <1>1, <2>1 DEF Receipted
  <2>4. log[Top(l[n])].src = r.src /\ log[Top(l[n])].smoke = r.smoke /\ log[Top(l[n])].audit = r.audit
    BY <1>2, <2>1, <2>3 DEF Accurate
  <2>5. n \in Closed(l)
    BY <2>1 DEF Closed
  <2>6. r.smoke = accept[src][n].smoke /\ r.audit = accept[src][n].audit
    BY <2>1, <2>2, <2>3, <2>4, <2>5 DEF AcceptanceChanged
  <2> QED
    BY <1>2, <2>1, <2>4, <2>6
<1>5. CASE Records
  <2>1. conductor' = conductor /\ Running /\ lane.node \in Node /\ InHand
    BY <1>5 DEF Records, Running, Recording, InHand
  <2>2. n # lane.node /\ n \in Node
    BY <1>1, <2>1, ConductorIs DEF Conducted, Runs
  <2>3. receipts'[n] = receipts[n]
    BY <1>1, <1>5, <2>2 DEF Records, Shape, RefShape
  <2> QED
    BY <1>3, <2>1, <2>3
<1>6. CASE Closing
  <2>1. Running /\ conductor \in Runs /\ InHand
    BY <1>1, <1>6, ConductorIs DEF Closing, GoesOn, InHand
  <2>2. conductor'.trusted = conductor.trusted /\ conductor'.accept = conductor.accept
        /\ conductor'.closed = [conductor.closed EXCEPT ![lane.node] = lane.commit]
              /\ receipts' = receipts
    BY <1>6 DEF Closing, GoesOn
  <2>3. n # lane.node
    BY <1>1, <2>1, <2>2 DEF Conducted
  <2> QED
    BY <1>3, <2>1, <2>2, <2>3 DEF Runs
<1>7. CASE Stops
  <2>1. conductor' # Idle
    BY DEF Running, Idle
  <2> QED
    BY <1>3, <1>7, <2>1 DEF Stops, Leaves, GoesOn
<1>8. CASE \/ Publishes \/ Keeps \/ Drops \/ Answers
           \/ \E m \in Node : Launches(m)
  <2>1. conductor' = conductor /\ receipts' = receipts
    BY <1>8 DEF Publishes, Keeps, Drops, Settles, Answers, Launches
  <2> QED
    BY <1>3, <2>1 DEF Running
<1>9. CASE \E m \in Node : Rejudges(m)
  BY <1>9 DEF Rejudges, Running
<1>10. CASE UNCHANGED <<world, receipts, verified, conductor, lane, unrecorded>>
  BY <1>3, <1>10 DEF Running
<1> QED
  BY <1>4, <1>5, <1>6, <1>7, <1>8, <1>9, <1>10, StepKinds

(* What a run holds closed is closed, and its builds stand on that.         *)
LEMMA StepGrounded ==
    ASSUME IInv, Next
    PROVE  Grounded'
<1> SUFFICES ASSUME Running', moves' = 0
             PROVE  /\ \A d \in Node : Known(d)'
                          => Closes(log', Top(conductor'.closed[d]), d, conductor'.src)
                    /\ \A n \in world.nodes, d \in Node :
                          d \in Needs(n) /\ conductor'.closed[n] = None /\ Known(d)' =>
                              \/ conductor'.base[d] = conductor'.closed[d]
                              \/ conductor'.base[d] = ByName /\ branch'[d] = conductor'.closed[d]
                    /\ lane'.step = "work" /\ lane'.tree # None =>
                          \A d \in Needs(lane'.node) :
                              conductor'.closed[d] # Implied
                                    => ClosedIn(log', lane'.tree, d, conductor'.src)
  BY StepKinds DEF Grounded, Needs
<1>1. Shape /\ Shape' /\ Grown(log, log') /\ LogShape /\ Ledgers /\ Grounded /\ Accounted /\ Conducted
      /\ moves = 0 /\ world' = world
  BY StepKinds, StepOperatorShape DEF IInv, Shape
<1>2. ASSUME NEW c, c \in Commits, NEW d, NEW s, Closes(log, Top(c), d, s) PROVE Closes(log',
      Top(c), d, s)
  <2>1. Top(c) \in DOMAIN log
    BY <1>1, <1>2, TopOfCommit DEF LogShape, Commits
  <2> QED
    BY <1>1, <1>2, <2>1 DEF Closes, Grown
<1>3. Running => \A d \in Node : Known(d) => conductor.closed[d] \in Commits
  BY <1>1, ConductorIs DEF Known, Runs
<1>4. Running => \A d \in Node : Known(d) => Closes(log', Top(conductor.closed[d]), d, conductor.src)
  BY <1>1, <1>2, <1>3 DEF Grounded
<1>5. Running => \A n \in world.nodes, d \in Node :
         d \in Needs(n) /\ conductor.closed[n] = None /\ Known(d) =>
             \/ conductor.base[d] = conductor.closed[d]
             \/ conductor.base[d] = ByName /\ branch[d] = conductor.closed[d]
  BY <1>1 DEF Grounded
<1>6. Running /\ lane.step = "work" /\ lane.tree # None =>
         \A d \in Needs(lane.node) :
            conductor.closed[d] # Implied => ClosedIn(log', lane.tree, d, conductor.src)
  <2> SUFFICES ASSUME Running, lane.step = "work", lane.tree # None, NEW d \in Needs(lane.node),
                      conductor.closed[d] # Implied
               PROVE  ClosedIn(log', lane.tree, d, conductor.src)
    OBVIOUS
  <2>1. ClosedIn(log, lane.tree, d, conductor.src)
    BY <1>1 DEF Grounded
  <2>2. lane.tree \in TreesOf(log)
    BY <1>1, LaneIs DEF Working
  <2> QED
    BY <1>1, <2>1, <2>2, StaysSo
<1>7. ASSUME NEW m \in Node, MovesBranch(m) PROVE FALSE
  <2>1. moves' = moves + 1
    BY <1>7 DEF MovesBranch
  <2> QED
    BY <1>1, <2>1
<1>8. ASSUME conductor' = conductor, branch' = branch, lane'.step # "work" \/ lane' = lane
      PROVE  /\ \A d \in Node : Known(d)' => Closes(log', Top(conductor'.closed[d]), d, conductor'.src)
             /\ \A n \in world.nodes, d \in Node :
                   d \in Needs(n) /\ conductor'.closed[n] = None /\ Known(d)' =>
                       \/ conductor'.base[d] = conductor'.closed[d]
                       \/ conductor'.base[d] = ByName /\ branch'[d] = conductor'.closed[d]
             /\ lane'.step = "work" /\ lane'.tree # None =>
                   \A d \in Needs(lane'.node) :
                       conductor'.closed[d] # Implied => ClosedIn(log', lane'.tree, d, conductor'.src)
  <2>1. Running /\ \A d : Known(d)' <=> Known(d)
    BY <1>8 DEF Running, Known
  <2> QED
    BY <1>4, <1>5, <1>6, <1>8, <2>1
<1>9. CASE Keeps \/ Drops \/ Answers \/ Records \/ Edits
  <2>1. conductor' = conductor /\ branch' = branch /\ (lane'.step # "work" \/ lane' = lane)
    BY <1>9 DEF Keeps, Drops, Settles, Answers, Records, Edits, refs
  <2> QED
    BY <1>8, <2>1
<1>10. CASE \/ \E m \in Node : MovesQuarantine(m)
            \/ \E stack, conflicts : Pins(stack, conflicts)
  <2>1. conductor' = conductor /\ branch' = branch /\ lane' = lane
    BY <1>10 DEF MovesQuarantine, Pins
  <2> QED
    BY <1>8, <2>1
<1>11. CASE Publishes
  <2>1. conductor' = conductor /\ lane'.step = "emit"
        /\ branch' = [branch EXCEPT ![lane.node] = On(lane.tree)]
        /\ lane.step = "work"
    BY <1>11 DEF Publishes, Working
  <2>2. Running /\ \A d : Known(d)' <=> Known(d)
    BY <2>1 DEF Running, Known
  <2>3. conductor.closed[lane.node] = None
    BY <1>1, <2>1, <2>2 DEF Conducted, InHand
  <2>4. \A d \in Node : Known(d) => branch'[d] = branch[d]
    BY <1>1, <2>1, <2>3 DEF Known, Shape, RefShape
  <2> QED
    BY <1>4, <1>5, <2>1, <2>2, <2>4
<1>12. CASE Closing
  <2>1. Running /\ conductor \in Runs /\ lane.node \in Node /\ lane.commit \in Commits
        /\ lane.commit # None
        /\ Settling
    BY <1>1, <1>12, ConductorIs DEF Closing, GoesOn, Recording, Settling
  <2>2. /\ conductor'.src = conductor.src /\ branch' = branch /\ lane'.step # "work"
        /\ conductor'.closed = [conductor.closed EXCEPT ![lane.node] = lane.commit]
        /\ conductor'.base = [conductor.base EXCEPT ![lane.node] = lane.commit]
    BY <1>12 DEF Closing, GoesOn, NoLane
  <2>3. conductor.closed \in [Node -> Commits \cup {None, Implied}]
        /\ conductor.base \in [Node -> Commits \cup {ByName}]
    BY <2>1 DEF Runs
  <2>4. \A d \in Node : d # lane.node => /\ conductor'.closed[d] = conductor.closed[d]
                                         /\ conductor'.base[d] = conductor.base[d]
    BY <2>2, <2>3
  <2>5. conductor'.closed[lane.node] = lane.commit /\ conductor'.base[lane.node] = lane.commit
    BY <2>1, <2>2, <2>3
  <2>6. Closes(log', Top(lane.commit), lane.node, conductor.src)
    <3>1. log[Top(lane.commit)].of = lane.node /\ log[Top(lane.commit)].src = conductor.src
      BY <1>1, <2>1 DEF Accounted
    <3> QED
      BY <1>1, <1>12, <3>1 DEF Closing, Takes, Grown, Closes
  <2>7. \A d \in Node : d # lane.node => (Known(d)' <=> Known(d))
    BY <2>4 DEF Known
  <2>8. \A d \in Node : Known(d)' => Closes(log', Top(conductor'.closed[d]), d, conductor'.src)
    BY <1>4, <2>1, <2>2, <2>4, <2>5, <2>6, <2>7
  <2>9. ASSUME NEW n \in world.nodes, NEW d \in Node, d \in Needs(n), conductor'.closed[n] = None,
        Known(d)'
        PROVE  \/ conductor'.base[d] = conductor'.closed[d]
               \/ conductor'.base[d] = ByName /\ branch'[d] = conductor'.closed[d]
    <3>1. n \in Node
      BY <1>1, WorldIsOne DEF Shape
    <3>2. conductor.closed[n] = None
      BY <2>1, <2>4, <2>5, <2>9, <3>1
    <3>3. CASE d = lane.node
      BY <2>5, <3>3
    <3>4. CASE d # lane.node
      BY <1>5, <2>1, <2>2, <2>4, <2>7, <2>9, <3>2, <3>4
    <3> QED
      BY <3>3, <3>4
  <2> QED
    BY <2>2, <2>8, <2>9
<1>13. CASE Stops
  <2>1. conductor' # Idle
    BY DEF Running, Idle
  <2>2. /\ Running /\ conductor'.src = conductor.src /\ conductor'.closed = conductor.closed
        /\ conductor'.base = conductor.base /\ branch' = branch /\ lane'.step # "work"
    BY <1>13, <2>1 DEF Stops, Leaves, GoesOn, NoLane, refs
  <2>3. \A d : Known(d)' <=> Known(d)
    BY <2>2 DEF Known
  <2> QED
    BY <1>4, <1>5, <2>2, <2>3
<1>14. ASSUME NEW src \in Sources, Starts(src)
       PROVE  /\ \A d \in Node : Known(d)' => Closes(log', Top(conductor'.closed[d]), d, conductor'.src)
              /\ \A n \in world.nodes, d \in Node :
                    d \in Needs(n) /\ conductor'.closed[n] = None /\ Known(d)' =>
                        \/ conductor'.base[d] = conductor'.closed[d]
                        \/ conductor'.base[d] = ByName /\ branch'[d] = conductor'.closed[d]
              /\ lane'.step # "work"
  <2>1. \A d \in Node : Known(d)' =>
           /\ conductor'.closed[d] = Ledger(src)[d] /\ Ledger(src)[d] \in Commits /\ Ledger(src)[d] # None
    BY <1>14 DEF Starts, Known
  <2>2. \A d \in Node : Known(d)' => Closes(log', Top(conductor'.closed[d]), d, conductor'.src)
    BY <1>1, <1>2, <1>14, <2>1, LedgerCloses DEF Starts
  <2>3. branch' = branch /\ lane'.step # "work"
    BY <1>14 DEF Starts, refs, NoLane
  <2> QED
    BY <1>14, <2>2, <2>3 DEF Starts, Known
<1>15. ASSUME NEW n \in Node, Launches(n)
       PROVE  lane'.tree # None =>
                 \A d \in Needs(n) :
                    conductor.closed[d] # Implied => ClosedIn(log', lane'.tree, d, conductor.src)
  <2> SUFFICES ASSUME lane'.tree # None, NEW d \in Needs(n), conductor.closed[d] # Implied
               PROVE  ClosedIn(log', lane'.tree, d, conductor.src)
    OBVIOUS
  <2>1. Running /\ Ready(n) /\ lane'.tree = Tree(Bases(n, lane'.seed)) /\ log' = log
    BY <1>15 DEF Launches
  <2>2. n \in world.nodes /\ conductor.closed[n] = None /\ conductor.closed[d] # None
        /\ d \in Node /\ Known(d)
    BY <2>1 DEF Ready, Closed, Known
  <2>3. Resolves(d, conductor.base[d]) = conductor.closed[d] /\ conductor.closed[d] \in Commits
    <3>1. conductor.closed[d] \in Commits
      BY <1>3, <2>1, <2>2
    <3>2. \/ conductor.base[d] = conductor.closed[d]
          \/ conductor.base[d] = ByName /\ branch[d] = conductor.closed[d]
      BY <1>5, <2>1, <2>2
    <3>3. conductor.closed[d] # ByName
      BY <1>1, <3>1, CommitIsNoName
    <3> QED
      BY <3>1, <3>2, <3>3 DEF Resolves
  <2>4. conductor.closed[d] \in Bases(n, lane'.seed)
    BY <2>3 DEF Bases
  <2>5. conductor.closed[d] \subseteq lane'.tree
    BY <2>1, <2>4 DEF Tree
  <2>6. Closes(log, Top(conductor.closed[d]), d, conductor.src)
    BY <1>1, <2>1, <2>2 DEF Grounded
  <2>7. Top(conductor.closed[d]) \in conductor.closed[d]
    BY <1>1, <2>3, TopOfCommit DEF LogShape, Commits
  <2> QED
    BY <2>1, <2>5, <2>6, <2>7 DEF ClosedIn
<1>16. CASE \E n \in Node : Launches(n)
  <2>1. PICK n \in Node : Launches(n)
    BY <1>16
  <2>2. conductor' = conductor /\ branch' = branch /\ lane'.node = n /\ Running
    BY <2>1 DEF Launches, refs
  <2>3. \A d : Known(d)' <=> Known(d)
    BY <2>2 DEF Known
  <2> QED
    BY <1>4, <1>5, <1>15, <2>1, <2>2, <2>3
<1>17. CASE \E n \in Node : Rejudges(n)
  BY <1>17 DEF Rejudges, Running
<1> QED
  BY <1>1, <1>7, <1>9, <1>10, <1>11, <1>12, <1>13, <1>14, <1>16, <1>17, StepIs

(* A rebuild keeps to its stack as long as its run goes on.                 *)
Built(m) == conductor.onto[m] # None /\ branch[m] # None /\ Rebuilt(m)
Based ==
    lane.step = "work" /\ lane.tree # None /\ conductor.onto[lane.node] # None =>
        /\ conductor.onto[lane.node] \subseteq lane.tree
        /\ \A m \in conductor.after[lane.node] : conductor.closed[m] # Implied =>
              RebuiltIn(log, lane.tree, m, conductor.onto[lane.node])

(* What is rebuilt stays on its stack, ...                                  *)
LEMMA StepBuilt ==
    ASSUME IInv, Next, Running', NEW m \in Node, Built(m)'
    PROVE  RebuiltIn(log', branch'[m], m, conductor'.onto[m])
<1>1. Shape /\ Shape' /\ Grown(log, log') /\ LogShape /\ Rebuilding
  BY StepKinds DEF IInv, Shape
<1>2. ASSUME Running, Built(m), conductor'.onto = conductor.onto, branch[m] \subseteq branch'[m]
      PROVE  RebuiltIn(log', branch'[m], m, conductor'.onto[m])
  <2>1. RebuiltIn(log, branch[m], m, conductor.onto[m])
    BY <1>1, <1>2 DEF Rebuilding, Built
  <2>2. branch[m] \in TreesOf(log)
    <3>1. branch[m] \in CommitsOf(log)
      BY <1>1, <1>2 DEF Built, Shape, RefShape, Maybe, Commits
    <3> QED
      BY <1>1, <3>1, TopOfCommit DEF LogShape
  <2> QED
    BY <1>1, <1>2, <2>1, <2>2, StaysSo
<1>3. CASE Publishes
  <2>1. conductor' = conductor /\ Running /\ lane.step = "work" /\ lane.tree # None /\ lane.node \in Node
        /\ branch' = [branch EXCEPT ![lane.node] = On(lane.tree)]
        /\ lane'.node = lane.node
    BY <1>3 DEF Publishes, Running, Working
  <2>2. CASE m = lane.node
    <3>1. conductor.onto[m] # None /\ branch'[m] = On(lane.tree)
      BY <1>1, <2>1, <2>2 DEF Built, Rebuilt, Known, Settling, Shape, RefShape
    <3>2. conductor.onto[m] \subseteq lane.tree
      BY <1>1, <2>1, <2>2, <3>1 DEF Rebuilding
    <3>3. New.of = m /\ New.kind = "verified" /\ New.ids = On(lane.tree)
          /\ lane.tree \subseteq On(lane.tree)
          /\ Len(log) + 1 \in On(lane.tree)
      BY <1>3, <2>1, <2>2 DEF Publishes, Adds, Running
    <3> QED
      BY <2>1, <3>1, <3>2, <3>3 DEF RebuiltIn, New
  <2>3. CASE m # lane.node
    <3>1. branch'[m] = branch[m] /\ Built(m)
      BY <1>1, <2>1, <2>3 DEF Built, Rebuilt, Known, Settling, Shape, RefShape
    <3> QED
      BY <1>2, <2>1, <3>1
  <2> QED
    BY <2>2, <2>3
<1>4. CASE Keeps \/ Drops
  <2>1. conductor' = conductor /\ branch' = branch /\ lane'.commit = None
    BY <1>4 DEF Keeps, Drops, Settles
  <2>2. Built(m) /\ Running
    BY <2>1 DEF Built, Rebuilt, Known, Running, Settling
  <2> QED
    BY <1>2, <2>1, <2>2
<1>5. CASE Answers \/ Records
  <2>1. conductor' = conductor /\ branch' = branch /\ lane'.commit = lane.commit /\ lane'.node = lane.node
        /\ Settling
    BY <1>5 DEF Answers, Records, refs, Emitting, Settling
  <2>2. Built(m) /\ Running
    BY <2>1 DEF Built, Rebuilt, Known, Running, Settling
  <2> QED
    BY <1>2, <2>1, <2>2
<1>6. CASE Closing
  <2>1. Running /\ conductor \in Runs /\ Settling /\ lane.commit # None
    BY <1>1, <1>6, ConductorIs DEF Closing, GoesOn, Settling
  <2>2. conductor'.onto = conductor.onto /\ branch' = branch /\ ~Settling'
        /\ conductor'.closed = [conductor.closed EXCEPT ![lane.node] = lane.commit]
    BY <1>6 DEF Closing, GoesOn, Settling, NoLane
  <2>3. m # lane.node => conductor'.closed[m] = conductor.closed[m]
    BY <2>1, <2>2 DEF Runs
  <2>4. Built(m)
    BY <2>1, <2>2, <2>3 DEF Built, Rebuilt, Known
  <2> QED
    BY <1>2, <2>1, <2>2, <2>4
<1>7. CASE Stops
  <2>1. conductor' # Idle
    BY DEF Running, Idle
  <2>2. /\ Running /\ conductor'.onto = conductor.onto /\ conductor'.closed = conductor.closed
        /\ branch' = branch /\ ~Settling'
    BY <1>7, <2>1 DEF Stops, Leaves, GoesOn, NoLane, refs, Settling
  <2>3. Built(m)
    BY <2>2 DEF Built, Rebuilt, Known
  <2> QED
    BY <1>2, <2>2, <2>3
<1>8. ASSUME NEW src \in Sources, Starts(src) PROVE FALSE
  <2>1. ~Settling'
    BY <1>8 DEF Starts, Settling, NoLane
  <2> QED
    BY <1>8, <2>1 DEF Starts, Built, Rebuilt, Known
<1>9. ASSUME NEW n \in Node, Launches(n) PROVE RebuiltIn(log', branch'[m], m, conductor'.onto[m])
  <2>1. conductor' = conductor /\ branch' = branch /\ ~Settling'
    BY <1>9 DEF Launches, refs, Settling
  <2>2. Built(m) /\ Running
    BY <2>1 DEF Built, Rebuilt, Known, Running, Settling
  <2> QED
    BY <1>2, <2>1, <2>2
<1>10. ASSUME NEW n \in Node, Rejudges(n) PROVE FALSE
  BY <1>10 DEF Rejudges, Running
<1>11. CASE \/ Edits
            \/ \E n \in Node : MovesQuarantine(n)
            \/ \E stack, conflicts : Pins(stack, conflicts)
  <2>1. conductor' = conductor /\ branch' = branch /\ lane' = lane
    BY <1>11 DEF Edits, MovesQuarantine, Pins, refs
  <2>2. Built(m) /\ Running
    BY <2>1 DEF Built, Rebuilt, Known, Running, Settling
  <2> QED
    BY <1>2, <2>1, <2>2
<1>12. ASSUME NEW n \in Node, MovesBranch(n) PROVE RebuiltIn(log', branch'[m], m, conductor'.onto[m])
  <2>1. conductor' = conductor /\ lane' = lane /\ branch[n] # None
    BY <1>12 DEF MovesBranch
  <2>2. branch'[m] = branch[m] \/ (m = n /\ branch'[m] = On(branch[n]))
    BY <1>1, <1>12 DEF MovesBranch, Built, Shape, RefShape
  <2>3. branch[m] # None /\ branch[m] \subseteq branch'[m]
    BY <2>1, <2>2 DEF Built, On
  <2>4. Built(m) /\ Running
    BY <2>1, <2>3 DEF Built, Rebuilt, Known, Running, Settling
  <2> QED
    BY <1>2, <2>1, <2>3, <2>4
<1> QED
  BY <1>1, <1>3, <1>4, <1>5, <1>6, <1>7, <1>8, <1>9, <1>10, <1>11, <1>12, StepIs DEF Rebuilding

(* ... what is to be rebuilt is based on it, ...                            *)
LEMMA StepBased ==
    ASSUME IInv, Next, Running'
    PROVE  Based'
<1>1. Shape /\ Grown(log, log') /\ LogShape /\ Rebuilding
  BY StepKinds DEF IInv, Shape
<1>2. ASSUME NEW n \in Node, Launches(n), lane'.tree # None, conductor.onto[n] # None
      PROVE  /\ conductor.onto[n] \subseteq lane'.tree
             /\ \A m \in conductor.after[n] : conductor.closed[m] # Implied =>
                   RebuiltIn(log', lane'.tree, m, conductor.onto[n])
  <2>1. lane'.seed = None /\ Running /\ Ready(n) /\ lane'.tree = Tree(Bases(n, None)) /\ log' = log
        /\ conductor \in Runs /\ lane' \in Working
    BY <1>1, <1>2, ConductorIs DEF Launches, Seeds
  <2>2. None \notin Bases(n, None) /\ lane'.tree = UNION Bases(n, None)
    BY <1>2, <2>1 DEF Tree
  <2>3. conductor.onto[n] \in Bases(n, None) /\ \A m \in conductor.after[n] : branch[m] \in Bases(n, None)
    BY <1>2 DEF Bases
  <2>4. conductor.onto[n] \subseteq lane'.tree
    BY <2>2, <2>3
  <2>5. ASSUME NEW m \in conductor.after[n], conductor.closed[m] # Implied
        PROVE  RebuiltIn(log', lane'.tree, m, conductor.onto[n])
    <3>1. m \in Node /\ Rebuilt(m)
      BY <2>1, <2>5 DEF Runs, Ready, Closed, Rebuilt, Known
    <3>2. conductor.onto[m] = conductor.onto[n] /\ branch[m] # None
      BY <1>1, <1>2, <2>1, <2>2, <2>3 DEF Rebuilding
    <3>3. RebuiltIn(log, branch[m], m, conductor.onto[n])
      BY <1>1, <1>2, <2>1, <3>1, <3>2 DEF Rebuilding
    <3>4. branch[m] \subseteq lane'.tree
      BY <2>2, <2>3
    <3> QED
      BY <2>1, <3>3, <3>4 DEF RebuiltIn
  <2> QED
    BY <2>4, <2>5
<1>3. CASE \E n \in Node : Launches(n)
  <2>1. PICK n \in Node : Launches(n)
    BY <1>3
  <2>2. conductor' = conductor /\ lane'.node = n
    BY <2>1 DEF Launches
  <2> QED
    BY <1>2, <2>1, <2>2 DEF Based
<1>4. CASE UNCHANGED <<world, receipts, verified, conductor, lane, unrecorded>>
  <2>1. CASE lane.step = "work" /\ lane.tree # None /\ conductor.onto[lane.node] # None
    <3>1. Running /\ lane.tree \in TreesOf(log)
      BY <1>1, <1>4, <2>1, LaneIs DEF Running, Working
    <3>2. /\ conductor.onto[lane.node] \subseteq lane.tree
          /\ \A m \in conductor.after[lane.node] : conductor.closed[m] # Implied =>
                RebuiltIn(log, lane.tree, m, conductor.onto[lane.node])
      BY <1>1, <2>1, <3>1 DEF Rebuilding
    <3>3. \A m \in conductor.after[lane.node] : conductor.closed[m] # Implied =>
                RebuiltIn(log', lane.tree, m, conductor.onto[lane.node])
      BY <1>1, <3>1, <3>2, StaysSo
    <3> QED
      BY <1>4, <3>2, <3>3 DEF Based
  <2>2. CASE ~(lane.step = "work" /\ lane.tree # None /\ conductor.onto[lane.node] # None)
    BY <1>4, <2>2 DEF Based
  <2> QED
    BY <2>1, <2>2
<1>5. CASE Publishes \/ Keeps \/ Drops \/ Answers \/ Records \/ Closing \/ Stops
  BY <1>5 DEF Publishes, Keeps, Drops, Settles, Answers, Records, Closing, Stops, Leaves, NoLane, Based
<1>6. CASE \/ \E src \in Sources : Starts(src)
           \/ \E n \in Node : Rejudges(n)
  BY <1>6 DEF Starts, Rejudges, NoLane, Running, Based
<1> QED
  BY <1>3, <1>4, <1>5, <1>6, StepKinds

(* ... and so a group is rebuilt together.                                  *)
LEMMA StepRebuilding ==
    ASSUME IInv, Next
    PROVE  Rebuilding'
<1>1. Rebuilding /\ Shape /\ world' = world
  BY StepKinds DEF IInv
<1>3. ASSUME Running', NEW n \in Node, conductor'.onto[n] # None
      PROVE  \A m \in conductor'.after[n] : conductor'.onto[m] = conductor'.onto[n]
  <2>1. CASE Running /\ conductor'.onto = conductor.onto /\ conductor'.after = conductor.after
    BY <1>1, <1>3, <2>1 DEF Rebuilding
  <2>2. CASE \/ Publishes \/ Keeps \/ Drops \/ Answers \/ Records
             \/ \E m \in Node : Launches(m)
             \/ UNCHANGED <<world, receipts, verified, conductor, lane, unrecorded>>
    <3>1. conductor' = conductor
      BY <2>2 DEF Publishes, Keeps, Drops, Settles, Answers, Records, Launches
    <3> QED
      BY <1>3, <2>1, <3>1 DEF Running
  <2>3. CASE Closing \/ Stops
    <3>1. conductor' # Idle
      BY <1>3 DEF Running, Idle
    <3> QED
      BY <2>1, <2>3, <3>1 DEF Closing, Stops, Leaves, GoesOn
  <2>4. CASE \E src \in Sources : Starts(src)
    BY <1>3, <2>4 DEF Starts
  <2>5. CASE \E m \in Node : Rejudges(m)
    BY <1>3, <2>5 DEF Rejudges, Running
  <2> QED
    BY <2>2, <2>3, <2>4, <2>5, StepKinds
<1>4. Running' => \A m \in Node : Built(m)' => RebuiltIn(log', branch'[m], m, conductor'.onto[m])
  BY StepBuilt
<1>5. Running' => Based'
  BY StepBased
<1> QED
  BY <1>3, <1>4, <1>5 DEF Rebuilding, Built, Based

(* And so does whatever is verified.                                        *)
LEMMA StepVerified ==
    ASSUME IInv, Next
    PROVE  VerifiedStandsOnVerified'
<1>1. Shape /\ Grown(log, log') /\ LogShape /\ Grounded /\ Rebuilding /\ VerifiedStandsOnVerified
      /\ (moves' = 0 => moves = 0)
  BY StepKinds, StepOperatorShape DEF IInv, Shape
<1>3. ASSUME NEW j \in DOMAIN log', log'[j].kind = "verified"
      PROVE  /\ moves' = 0 => \A d \in log'[j].needs : ClosedIn(log', log'[j].ids, d, log'[j].src)
             /\ log'[j].onto # None =>
                   /\ log'[j].onto \subseteq log'[j].ids
                   /\ \A m \in log'[j].after : RebuiltIn(log', log'[j].ids, m, log'[j].onto)
  <2>1. CASE j \in DOMAIN log
    <3>1. /\ log'[j].kind = log[j].kind /\ log'[j].src = log[j].src /\ log'[j].ids = log[j].ids
          /\ log'[j].needs = log[j].needs /\ log'[j].onto = log[j].onto /\ log'[j].after = log[j].after
      BY <1>1, <2>1 DEF Grown
    <3>2. log[j].ids \in TreesOf(log)
      BY <1>1, <2>1, TopOfCommit DEF LogShape, CommitsOf
    <3>3. moves = 0 => \A d \in log[j].needs : ClosedIn(log, log[j].ids, d, log[j].src)
      BY <1>1, <1>3, <2>1, <3>1 DEF VerifiedStandsOnVerified, ClosedIn, ClosedAt, Closes
    <3>4. log[j].onto # None =>
             /\ log[j].onto \subseteq log[j].ids
             /\ \A m \in log[j].after : RebuiltIn(log, log[j].ids, m, log[j].onto)
      BY <1>1, <1>3, <2>1, <3>1 DEF VerifiedStandsOnVerified, RebuiltIn
    <3>5. \A d : ClosedIn(log, log[j].ids, d, log[j].src) => ClosedIn(log', log[j].ids, d, log[j].src)
      BY <1>1, <3>2, StaysSo
    <3>6. \A m, stack : RebuiltIn(log, log[j].ids, m, stack) => RebuiltIn(log', log[j].ids, m, stack)
      BY <1>1, <3>2, StaysSo
    <3> QED
      BY <1>1, <3>1, <3>3, <3>4, <3>5, <3>6
  <2>2. CASE j \notin DOMAIN log
    <3>1. j = Len(log) + 1 /\ Publishes
      BY <1>3, <2>2, NewIs DEF New
    <3>2. log'[j] = New
      BY <3>1 DEF New
    <3>3. /\ Running /\ lane.step = "work" /\ lane.tree # None /\ lane.tree \in TreesOf(log)
          /\ New.src = conductor.src /\ New.ids = On(lane.tree) /\ lane.tree \subseteq On(lane.tree)
          /\ New.needs = {d \in Needs(lane.node) : conductor.closed[d] # Implied}
          /\ New.onto = conductor.onto[lane.node]
          /\ New.after = {m \in conductor.after[lane.node] : conductor.closed[m] # Implied}
      BY <1>3, <3>1, <3>2 DEF Publishes, Adds, Working
    <3>4. moves = 0 => \A d \in New.needs : ClosedIn(log, lane.tree, d, conductor.src)
      BY <1>1, <3>3 DEF Grounded
    <3>5. New.onto # None =>
             /\ New.onto \subseteq lane.tree
             /\ \A m \in New.after : RebuiltIn(log, lane.tree, m, New.onto)
      BY <1>1, <3>3 DEF Rebuilding
    <3>6. \A d : ClosedIn(log, lane.tree, d, conductor.src)
          => ClosedIn(log', On(lane.tree), d, conductor.src)
      BY <1>1, <3>3, StaysSo
    <3>7. \A m, stack : RebuiltIn(log, lane.tree, m, stack) => RebuiltIn(log', On(lane.tree), m, stack)
      BY <1>1, <3>3, StaysSo
    <3> HIDE DEF New
    <3>8. New.onto # None => New.onto \subseteq New.ids
      BY <3>3, <3>5
    <3>9. New.onto # None => \A m \in New.after : RebuiltIn(log', New.ids, m, New.onto)
      BY <3>3, <3>5, <3>7
    <3>10. moves' = 0 => \A d \in New.needs : ClosedIn(log', New.ids, d, New.src)
      BY <1>1, <3>3, <3>4, <3>6
    <3> QED
      BY <3>2, <3>8, <3>9, <3>10
  <2> QED
    BY <2>1, <2>2
<1>4. ASSUME NEW j \in DOMAIN log' PROVE log'[j].ids \subseteq DOMAIN log'
  <2>1. log' \in Seq(Facts) /\ Numbered(log') /\ log'[j].ids \in CommitsOf(log')
    BY <1>1 DEF Grown, CommitsOf
  <2>2. log'[j].ids \in TreesOf(log')
    BY <2>1, TopOfCommit
  <2> QED
    BY <2>2 DEF TreesOf
<1>5. ASSUME NEW j \in DOMAIN log', log'[j].kind = "verified", moves' = 0, NEW d \in log'[j].needs
      PROVE  {i \in DOMAIN log' : log'[i].of = d /\ log'[i].src = log'[j].src /\ log'[i].taken}
                \cap log'[j].ids # {}
  <2>1. PICK i \in log'[j].ids : Closes(log', i, d, log'[j].src)
    BY <1>3, <1>5 DEF ClosedIn
  <2>2. i \in DOMAIN log'
    BY <1>4
  <2> QED
    BY <2>1, <2>2 DEF Closes
<1>6. ASSUME NEW j \in DOMAIN log', log'[j].kind = "verified", log'[j].onto # None
      PROVE  /\ log'[j].onto \subseteq log'[j].ids
             /\ \A m \in log'[j].after : \E i \in log'[j].ids :
                   log'[i].of = m /\ log'[i].kind = "verified" /\ log'[j].onto \subseteq log'[i].ids
  BY <1>3, <1>6 DEF RebuiltIn
<1>7. ASSUME NEW j \in DOMAIN log', log'[j].kind = "verified", moves' = 0, NEW d \in log'[j].needs
      PROVE  (ClosedAt(d, log[j].src) \cap log[j].ids)' # {}
  BY <1>5, <1>7 DEF ClosedAt
<1> QED
  BY <1>6, <1>7 DEF VerifiedStandsOnVerified

-----------------------------------------------------------------------------
(* The theorems                                                            *)

(* A history begins with no commit, nothing recorded and nobody at work.    *)
LEMMA InitInvariant == Init => IInv
<1> SUFFICES ASSUME Init PROVE IInv
  OBVIOUS
<1> USE DEF Init
<1>1. LogShape
  <2>1. log \in Seq(Facts) /\ Len(log) = 0 /\ DOMAIN log = {}
    OBVIOUS
  <2>2. world.commits \in Nat
    BY HistoryAssumption
  <2> QED
    BY <2>1, <2>2 DEF LogShape, Numbered
<1>2. DOMAIN log = {}
  OBVIOUS
<1>3. OperatorShape
  <2>1. world.smoke \in 0..2
    BY HistoryAssumption
  <2>2. ASSUME NEW n \in Node
        PROVE  [smoke |-> world.smoke, audit |-> IF n \in world.audited THEN 1 ELSE 0]
                  \in [smoke : 0..2, audit : 0..2]
    BY <2>1
  <2>3. accept \in [Sources -> Accepts]
    BY <2>2 DEF Accepts
  <2>4. \A s \in Sources, n \in world.audited : accept[s][n].audit # 0
    BY HistoryAssumption
  <2> QED
    BY <2>3, <2>4 DEF OperatorShape
<1>4. RefShape
  BY DEF RefShape, Maybe
<1>5. ConductorShape /\ LaneShape
  BY DEF ConductorShape, LaneShape
<1>6. ~Running /\ ~InHand /\ ~Settling /\ conductor.verb = "idle" /\ lane.step = "pick"
  BY DEF Running, InHand, Settling, Idle, NoLane
<1>7. Shape
  BY <1>1, <1>3, <1>4, <1>5, <1>6 DEF Shape, Conducted
<1>8. Receipted /\ Accounted /\ Resumed /\ Trusted /\ Grounded
  BY <1>2, <1>6 DEF Receipted, Accounted, Resumed, Trusted, Grounded, NeverClosed
<1>9. Reaudited /\ VerifiedStandsOnVerified
  BY <1>2, <1>6 DEF Reaudited, ReauditedBuildWasGreen, VerifiedStandsOnVerified
<1>10. Ledgers /\ Rebuilding
  BY <1>6 DEF Ledgers, Rebuilding
<1> QED
  BY <1>7, <1>8, <1>9, <1>10 DEF IInv

(* A step that changes nothing keeps it.                                    *)
LEMMA StutterInvariant == IInv /\ UNCHANGED vars => IInv'
<1> SUFFICES ASSUME IInv, UNCHANGED vars PROVE IInv'
  OBVIOUS
<1> USE DEF vars, operator, refs
<1>1. Shape'
  <2>1. LogShape'
    BY DEF IInv, Shape, LogShape
  <2>2. OperatorShape'
    BY DEF IInv, Shape, OperatorShape
  <2>3. RefShape'
    BY DEF IInv, Shape, RefShape, Maybe, Commits
  <2>4. ConductorShape'
    BY DEF IInv, Shape, ConductorShape, Runs, Audits, Maybe, Commits
  <2>5. LaneShape'
    BY DEF IInv, Shape, LaneShape, Working, Emitting, Recording, Maybe, Commits
  <2>6. Conducted'
    BY DEF IInv, Shape, Conducted, Running, InHand, Commits
  <2> QED
    BY <2>1, <2>2, <2>3, <2>4, <2>5, <2>6 DEF Shape
<1>2. Receipted'
  BY DEF IInv, Receipted, Settling
<1>3. Reaudited'
  BY DEF IInv, Reaudited, ReauditedBuildWasGreen
<1>4. Accounted'
  BY DEF IInv, Accounted, Pending, Settling
<1>5. Resumed'
  BY DEF IInv, Resumed, Running
<1>6. Ledgers'
  BY DEF IInv, Ledgers
<1>7. Trusted'
  BY DEF IInv, Trusted, Running, TrustedAt
<1>8. Grounded'
  BY DEF IInv, Grounded, Running, Known, Needs
<1>9. Rebuilding'
  BY DEF IInv, Rebuilding, Rebuilt, Known, Running, Settling, Needs
<1>10. VerifiedStandsOnVerified'
  BY DEF IInv, VerifiedStandsOnVerified, ClosedAt
<1> QED
  BY <1>1, <1>2, <1>3, <1>4, <1>5, <1>6, <1>7, <1>8, <1>9, <1>10 DEF IInv

(* And so does any step.                                                    *)
LEMMA StepInvariant == IInv /\ [Next]_vars => IInv'
<1>1. ASSUME IInv, Next PROVE IInv'
  BY <1>1, StepKinds, StepReceipted, StepReaudited, StepAccounted, StepResumed, StepLedgers, StepTrusted,
     StepGrounded, StepRebuilding, StepVerified DEF IInv
<1> QED
  BY <1>1, StutterInvariant

(* The inductive invariant holds of every history of every repository.      *)
THEOREM Invariant == Spec => []IInv
<1> QED
  BY InitInvariant, StepInvariant, PTL DEF Spec

(* A commit of the log is one of the numbers it may have.                   *)
LEMMA CommitIsOne ==
    ASSUME Shape, NEW c \in Commits
    PROVE  c \in Commit /\ Top(c) <= Len(log) /\ log[Top(c)].ids = c
<1>1. Top(c) \in DOMAIN log /\ Top(c) \in c /\ log[Top(c)].ids = c /\ c \subseteq 1..Top(c)
  BY TopOfCommit DEF Shape, LogShape, Commits
<1>2. DOMAIN log = 1..Len(log) /\ Len(log) \in Nat /\ Len(log) <= world.commits /\ world.commits \in Nat
  BY WorldIsOne DEF Shape, LogShape
<1> QED
  BY <1>1, <1>2 DEF Commit

(* TypeOK: the shape of every variable; every ref names a commit that was   *)
(* made, and a run has not settled a node it trusts.                        *)
THEOREM TypeCorrect == Spec => []TypeOK
<1>1. IInv => TypeOK
  <2> SUFFICES ASSUME IInv PROVE TypeOK
    OBVIOUS
  <2>1. Shape
    BY DEF IInv
  <2>2. \A c \in Maybe : c # None => c \in Commit /\ Top(c) <= Len(log) /\ log[Top(c)].ids = c
    BY <2>1, CommitIsOne DEF Maybe
  <2>3. /\ \A n \in Node : branch[n] \in Maybe /\ pin[n] \in Maybe
        /\ \A n \in Node, at \in {"base", "busy"} : quarantine[n][at] \in Maybe
        /\ \A s \in Sources, n \in Node : verified[s][n] \in Maybe
    <3>1. \A n \in Node : branch[n] \in Maybe /\ pin[n] \in Maybe
      BY <2>1 DEF Shape, RefShape
    <3>2. \A n \in Node, at \in {"base", "busy"} : quarantine[n][at] \in Maybe
      BY <2>1 DEF Shape, RefShape
    <3>3. \A s \in Sources, n \in Node : verified[s][n] \in Maybe
      BY <2>1 DEF Shape, RefShape
    <3> QED
      BY <3>1, <3>2, <3>3
  <2> DEFINE named == {branch[n] : n \in Node} \cup {pin[n] : n \in Node}
                        \cup {quarantine[n][at] : n \in Node, at \in {"base", "busy"}}
                        \cup UNION {{verified[s][n] : n \in Node} : s \in Sources}
  <2>4. named \subseteq Maybe
    BY <2>3
  <2> HIDE DEF named
  <2>5. \A c \in named \ {None} : c \in Commit /\ Top(c) <= Len(log) /\ log[Top(c)].ids = c
    BY <2>2, <2>4
  <2>6. accept \in [Sources -> [Node -> [smoke : 0..2, audit : 0..2]]] /\ world \in Worlds
        /\ Len(log) <= world.commits
    BY <2>1 DEF Shape, OperatorShape, Accepts, LogShape
  <2>7. lane # NoLane => conductor # Idle /\ lane.step \in {"work", "emit", "record", "close"}
    BY <2>1, LaneIs DEF Shape, Conducted, InHand
  <2>8. conductor.verb = "run" =>
           /\ conductor.trusted \cap conductor.settled = {}
           /\ conductor.closed \in [Node -> Commit \cup {None, Implied}]
    <3> SUFFICES ASSUME Running
                 PROVE  /\ conductor.trusted \cap conductor.settled = {}
                        /\ conductor.closed \in [Node -> Commit \cup {None, Implied}]
      BY DEF Running
    <3>1. conductor.trusted \cap conductor.settled = {}
      BY <2>1 DEF Shape, Conducted
    <3>2. conductor.closed \in [Node -> Commits \cup {None, Implied}]
      BY <2>1, ConductorIs DEF Runs
    <3>3. Commits \subseteq Commit
      BY <2>1, CommitIsOne
    <3> QED
      BY <3>1, <3>2, <3>3
  <2>9. receipts \in [Node -> Receipts \cup {None}] /\ unrecorded \subseteq Node
    BY <2>1 DEF Shape, RefShape
  <2> QED
    BY <2>5, <2>6, <2>7, <2>8, <2>9 DEF TypeOK, named
<1> QED
  BY <1>1, Invariant, PTL

(* What `pleach audit` publishes is a tree whose build some run saw green,  *)
(* or, of a node that declared no smoke, one a run's auditor was admitted   *)
(* to.                                                                      *)
THEOREM ReauditedBuildWasGreenHolds == Spec => []ReauditedBuildWasGreen
<1>1. IInv => ReauditedBuildWasGreen
  BY DEF IInv, Reaudited
<1> QED
  BY <1>1, Invariant, PTL

(* A node never resumes from a tree that a close of it has replaced, unless *)
(* that close left no receipt.                                              *)
THEOREM SeedIsNotSupersededHolds == Spec => []SeedIsNotSuperseded
<1>1. IInv => SeedIsNotSuperseded
  <2> DEFINE n == lane.node
             src == conductor.src
             kept == KeptIn(lane.seed, n)
  <2> SUFFICES ASSUME IInv, Running, lane.step = "work", lane.seed # None, n \notin unrecorded
               PROVE  \A i \in ClosedAt(n, src) : i < Top(kept)
    BY DEF SeedIsNotSuperseded, Running
  <2>1. Shape /\ Resumed
    BY DEF IInv
  <2>2. lane.seed \in Commits
    BY <2>1, LaneIs DEF Working, Maybe
  <2>3. lane.seed \subseteq 1..Len(log) /\ DOMAIN log = 1..Len(log) /\ Len(log) \in Nat
    <3>1. lane.seed \in TreesOf(log)
      BY <2>1, <2>2, TopOfCommit DEF Shape, LogShape, Commits
    <3> QED
      BY <2>1, <3>1 DEF TreesOf, Shape, LogShape
  <2>4. CASE NeverClosed(log, n)
    BY <2>4 DEF NeverClosed, ClosedAt
  <2>5. CASE \E k \in lane.seed : log[k].of = n /\ log[k].kind = "kept" /\ ClosedBefore(log, n, k)
    <3>1. PICK k \in lane.seed : log[k].of = n /\ log[k].kind = "kept" /\ ClosedBefore(log, n, k)
      BY <2>5
    <3>2. k \in kept /\ kept \subseteq 1..Len(log)
      BY <2>3, <3>1 DEF KeptIn
    <3> HIDE DEF kept
    <3>3. \E t \in kept : \A j \in kept : j <= t
      BY <2>3, <3>2, GreatestNat
    <3>4. Top(kept) \in kept /\ \A j \in kept : j <= Top(kept)
      BY <3>3 DEF Top
    <3>5. k <= Top(kept) /\ k \in Nat /\ Top(kept) \in Nat
      <4>1. Top(kept) \in 1..Len(log) /\ k \in 1..Len(log)
        BY <3>2, <3>4
      <4>2. k <= Top(kept)
        BY <3>2, <3>4
      <4> HIDE DEF n
      <4> QED
        BY <2>3, <4>1, <4>2
    <3>6. \A i \in ClosedAt(n, src) : i < k /\ i \in Nat
      BY <2>3, <3>1 DEF ClosedBefore, ClosedAt
    <3> QED
      BY <3>5, <3>6
  <2> QED
    BY <2>1, <2>4, <2>5 DEF Resumed
<1> QED
  BY <1>1, Invariant, PTL

(* What a run trusts without running it again was verified under the        *)
(* acceptance the plan has now, when the latest receipt is of that close.   *)
THEOREM TrustedCloseWasVerifiedHolds == Spec => []TrustedCloseWasVerified
<1>1. IInv => TrustedCloseWasVerified
  BY DEF IInv, Trusted, TrustedCloseWasVerified, Trusts, Running
<1> QED
  BY <1>1, Invariant, PTL

(* What a run verifies stands on a close of what its node needs, and a      *)
(* rebuild on its stack and on the rebuilds before it.                      *)
THEOREM VerifiedStandsOnVerifiedHolds == Spec => []VerifiedStandsOnVerified
<1>1. IInv => VerifiedStandsOnVerified
  BY DEF IInv
<1> QED
  BY <1>1, Invariant, PTL
=============================================================================
