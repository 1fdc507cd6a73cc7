----------------------------- MODULE LandProofs -----------------------------
(***************************************************************************)
(* Theorems about Land, for every plan, every landing that may be asked    *)
(* over it, and every number of moves and flakes.                          *)
(*                                                                         *)
(* The bisect is right because of what it keeps while it works: what it    *)
(* holds good is green as one stack, each of the guilty makes that stack   *)
(* red, and so do the candidates it halves (Halved).  That its probes say  *)
(* so takes the rest: the tree of a stack is the composition of its sinks  *)
(* (Composed), what its gates answered is so of that tree (Judged), and no *)
(* sink is lost on the way (Sorted).                                       *)
(*                                                                         *)
(* What is published was verified because every sink is, before it is      *)
(* stacked, and a stack holds nothing else (Vouched); what is pinned and   *)
(* the stack it is pinned at complete each other because a stack is never  *)
(* on both sides of a clash, and a sink left out of it is (Clashing).      *)
(***************************************************************************)
EXTENDS Land, SequenceTheorems, FiniteSetTheorems, WellFoundedInduction, TLAPS

-----------------------------------------------------------------------------
(* The invariant                                                           *)

Command == DOMAIN landing.truth
Setup == {landing.setup[n] : n \in Node}
Sunk == ToSet(Sinks)

Stacks == [worktree : {"live", "lost"}, tree : Trees, todo : Seq(Node), conflicts : SUBSET Node,
           setups : Seq(Setup), gate : Seq(Command), asks : Seq(Command), green : SUBSET Command,
           red : BOOLEAN]
Goals == [job : {"halve", "rest"}, cands : Seq(Sunk) \ {<<>>}]
Ways == {"none", "landed", "blocked", "culprits", "incoherent", "refused", "rebuild", "catastrophic"}

(* TypeOK, with the stacks, the work list and the raised spelled out.       *)
RepoShape ==
    /\ head \in Branch \cup {Detached} /\ tip \in [Branch \cup {Detached} -> Trees]
    /\ ref \in [Node -> Trees \cup {None}] /\ pins \in [Node -> Trees \cup {None}]
    /\ moves \in 0..Moves
WayShape ==
    /\ at \in {"start", "resolve", "build", "merge", "provision", "gate", "retry", "asks", "bisect",
               "probed", "unwind", "ended"}
    /\ purpose \in {"land", "left", "right", "recheck"}
    /\ bySha \subseteq Node /\ retried \in Command \cup {None} /\ flakes \in 0..Flakes
RaisedShape == raised \in [kind : Ways] \cup [kind : {"conflict"}, stack : Trees, sinks : SUBSET Node]
StackShape == stack \in [{"land", "probe"} -> Stacks \cup {NoStack}]
SortShape == goals \in Seq(Goals) /\ knownGood \in Seq(Sunk) /\ culprits \subseteq Sunk
Shape ==
    landing \in Landings /\ RepoShape /\ WayShape /\ RaisedShape /\ StackShape /\ SortShape

(* Which stacks stand at each step, and how many worktrees that makes.      *)
Standing(k) == IF stack[k].worktree = "none" THEN 0 ELSE 1
Live(k) == stack[k].worktree = "live"
Bare(k) == stack[k].worktree = "none"
Standings ==
    /\ at \in {"start", "resolve"} => Bare("land") /\ Bare("probe") /\ purpose = "land"
    /\ at = "build" => Bare("probe") /\ IF purpose = "land" THEN Bare("land") ELSE Live("land")
    /\ at \in {"merge", "provision", "gate"} =>
          Live("land") /\ IF purpose = "land" THEN Bare("probe") ELSE Live("probe")
    /\ at \in {"retry", "asks", "bisect"} => Live("land") /\ Bare("probe") /\ purpose = "land"
    /\ at = "probed" => Live("land") /\ Live("probe") /\ purpose # "land"
    /\ at = "ended" => ~Live("land") /\ ~Live("probe")
    /\ stack["land"].worktree = "lost" \/ stack["probe"].worktree = "lost" =>
          at \in {"unwind", "ended"} /\ raised.kind = "catastrophic"
    /\ at \notin {"unwind", "ended"} => raised.kind = "none"
    /\ worktrees = Standing("land") + Standing("probe")

(* The landing's gates: what is not yet green is still to be asked.         *)
Asked ==
    /\ purpose = "land" /\ at \notin {"retry", "asks", "bisect", "unwind", "ended"} => retried = None
    /\ at \notin {"unwind", "ended"} /\ Live("land") =>
          ToSet(landing.gates) \subseteq stack["land"].green \cup ToSet(stack["land"].asks)
    /\ purpose = "land" /\ at \in {"merge", "provision", "gate"} =>
          ToSet(Gate) \subseteq stack["land"].green \cup ToSet(stack["land"].gate)
    /\ at = "asks" /\ retried = None => ToSet(Gate) \subseteq stack["land"].green
    /\ at = "retry" => retried \in ToSet(Gate) /\ retried # None
    /\ PublishedPassedTheGates

(* The commit of a set of nodes put together on the branch.                 *)
Composition(ids) == landing.base \cup UNION {CommitOf(n) : n \in ids}
Whole == Composition(ToSet(Stacked))
Unmerged == UNION {CommitOf(n) : n \in ToSet(Here.todo)}

(* While nobody moves anything, a stack without conflicts is on its way to  *)
(* the composition of what it stacks.                                       *)
Composed ==
    /\ moves = 0 /\ at \notin {"unwind", "ended"} => tip[head] = landing.base
    /\ at \in {"provision", "gate", "retry", "probed"} => Here.todo = <<>> /\ Here.conflicts = {}
    /\ moves = 0 /\ Here.conflicts = {} /\ at \in {"merge", "provision", "gate", "retry", "probed"} =>
          Here.tree \cup Unmerged = Whole

(* While no gate errs, what it answered is so.                              *)
Reds == {c \in ToSet(Gate) : Red(c, Here.tree)}
Judged ==
    /\ at \in {"merge", "provision"} => Here.gate = Gate
    /\ at \in {"merge", "provision", "gate"} => ToSet(Here.gate) \subseteq ToSet(Gate) /\ ~Here.red
    /\ at = "gate" /\ flakes = 0 => Reds \subseteq ToSet(Here.gate)
    /\ at = "probed" /\ flakes = 0 => (Here.red <=> Reds # {})

(* The bisect: its work list covers what it has not sorted, only its first  *)
(* item may be known to be red, and a probe is of that item.                *)
Candidates(gs) == UNION {ToSet(g.cands) : g \in ToSet(gs)}
Bisecting == at \notin {"unwind", "ended"} /\ (at = "bisect" \/ purpose # "land")
Sorted ==
    /\ at \notin {"unwind", "ended"} /\ ~Bisecting => knownGood = <<>> /\ culprits = {} /\ goals = <<>>
    /\ Bisecting => Sunk = ToSet(knownGood) \cup culprits \cup Candidates(goals)
    /\ Bisecting /\ goals # <<>> => \A g \in ToSet(Tail(goals)) : g.job = "rest"
    /\ Bisecting /\ purpose = "left" =>
          goals # <<>> /\ Head(goals).job = "halve" /\ Len(Head(goals).cands) > 1
    /\ Bisecting /\ purpose = "right" => goals # <<>> /\ Head(goals).job = "rest"
    /\ Bisecting /\ purpose = "recheck" => goals = <<>> /\ Good # <<>>

(* What it holds good is green, each of the guilty makes that red, and so   *)
(* does the item it halves.                                                 *)
RedSets == {ids \in SUBSET Sunk : GateRed(ids)}
Halved ==
    Steady /\ Bisecting =>
        /\ knownGood = <<>> \/ ToSet(knownGood) \notin RedSets
        /\ \A n \in culprits : ToSet(knownGood) \cup {n} \in RedSets
        /\ goals # <<>> /\ Head(goals).job = "halve" =>
              ToSet(knownGood) \cup ToSet(Head(goals).cands) \in RedSets

(* CulpritsAreGuilty, of the sets of sinks.                                 *)
Convicted ==
    /\ raised.kind = "incoherent" => ~Steady
    /\ raised.kind = "culprits" /\ Steady =>
          /\ Sunk = culprits \/ Sunk \ culprits \notin RedSets
          /\ \A n \in culprits : (Sunk \ culprits) \cup {n} \in RedSets

IInv == Shape /\ Standings /\ Asked /\ Composed /\ Judged /\ Sorted /\ Halved /\ Convicted

(* What a step makes of the stack it works on.                              *)
Conflicted == [Here EXCEPT !.todo = Tail(@), !.conflicts = @ \cup {Head(Here.todo)}]
Merged == [Here EXCEPT !.todo = Tail(@), !.tree = @ \cup CommitOf(Head(Here.todo))]
Prepared == [Here EXCEPT !.setups = Tail(@)]
Passed == [Here EXCEPT !.gate = Tail(@), !.green = @ \cup {Head(Here.gate)}]
Failed == [Here EXCEPT !.red = TRUE]
Retried == [Here EXCEPT !.green = @ \cup {retried}]
Granted == [Here EXCEPT !.asks = Tail(@), !.green = @ \cup {Head(Here.asks)}]

-----------------------------------------------------------------------------
(* Lists                                                                   *)

(* A set of naturals has a least member: what the inductions below rest on. *)
LEMMA LeastNat ==
    ASSUME NEW T, T \subseteq Nat, T # {}
    PROVE  \E x \in T : \A y \in T : ~(y < x)
<1>1. \E x \in T : \A y \in T : ~(<<y, x>> \in OpToRel(<, Nat))
  BY WFMin, NatLessThanWellFounded
<1> QED
  BY <1>1 DEF OpToRel

(* Induction, over a set of naturals where the library has an operator.     *)
LEMMA UpTo ==
    ASSUME NEW n \in Nat, NEW T, 0 \in T, \A m \in 0..n : m \in T /\ m < n => m + 1 \in T
    PROVE  0..n \subseteq T
<1> DEFINE bad == (0..n) \ T
<1> SUFFICES ASSUME bad # {} PROVE FALSE
  OBVIOUS
<1>0. bad \subseteq Nat
  OBVIOUS
<1>1. PICK m \in bad : \A y \in bad : ~(y < m)
  <2> HIDE DEF bad
  <2> QED
    BY <1>0, LeastNat
<1>2. m # 0 /\ m - 1 \in 0..n /\ m - 1 < m /\ m - 1 < n
  BY <1>1
<1>3. m - 1 \in T
  BY <1>1, <1>2
<1>4. (m - 1) + 1 \in T /\ (m - 1) + 1 = m
  BY <1>2, <1>3
<1> QED
  BY <1>1, <1>4

(* The members of a list are those of its head and of its tail.             *)
LEMMA ToSetTail ==
    ASSUME NEW S, NEW s \in Seq(S), s # <<>>
    PROVE  /\ ToSet(s) = {Head(s)} \cup ToSet(Tail(s))
           /\ Head(s) \in S /\ Tail(s) \in Seq(S)
<1>1. Len(s) \in Nat /\ Len(s) > 0 /\ DOMAIN s = 1..Len(s)
  OBVIOUS
<1>2. DOMAIN Tail(s) = 1..(Len(s) - 1) /\ \A i \in 1..(Len(s) - 1) : Tail(s)[i] = s[i + 1]
  BY <1>1
<1>3. ASSUME NEW x \in ToSet(s) PROVE x \in {Head(s)} \cup ToSet(Tail(s))
  <2>1. PICK i \in 1..Len(s) : x = s[i]
    BY <1>1 DEF ToSet
  <2>2. CASE i = 1
    BY <2>1, <2>2
  <2>3. CASE i # 1
    <3>1. i - 1 \in 1..(Len(s) - 1) /\ Tail(s)[i - 1] = s[i]
      BY <1>1, <1>2, <2>3
    <3> QED
      BY <1>2, <2>1, <3>1 DEF ToSet
  <2> QED
    BY <2>2, <2>3
<1>4. ASSUME NEW x \in ToSet(Tail(s)) PROVE x \in ToSet(s)
  <2>1. PICK i \in 1..(Len(s) - 1) : x = Tail(s)[i]
    BY <1>2 DEF ToSet
  <2> QED
    BY <1>1, <1>2, <2>1 DEF ToSet
<1>5. Head(s) \in ToSet(s) /\ Head(s) \in S /\ Tail(s) \in Seq(S)
  BY <1>1 DEF ToSet
<1> QED
  BY <1>3, <1>4, <1>5

(* A list is its two halves.                                                *)
LEMMA ToSetSplit ==
    ASSUME NEW S, NEW s \in Seq(S), NEW h \in Nat, h <= Len(s)
    PROVE  /\ ToSet(SubSeq(s, 1, h)) \cup ToSet(SubSeq(s, h + 1, Len(s))) = ToSet(s)
           /\ SubSeq(s, 1, h) \in Seq(S) /\ SubSeq(s, h + 1, Len(s)) \in Seq(S)
           /\ Len(SubSeq(s, 1, h)) = h /\ Len(SubSeq(s, h + 1, Len(s))) = Len(s) - h
<1> DEFINE l == SubSeq(s, 1, h)
           r == SubSeq(s, h + 1, Len(s))
<1>1. Len(s) \in Nat /\ DOMAIN s = 1..Len(s)
  OBVIOUS
<1>2. DOMAIN l = 1..h /\ \A i \in 1..h : l[i] = s[i]
  OBVIOUS
<1>3. DOMAIN r = 1..(Len(s) - h) /\ \A i \in 1..(Len(s) - h) : r[i] = s[h + i]
  OBVIOUS
<1>4. l \in Seq(S) /\ r \in Seq(S) /\ Len(l) = h /\ Len(r) = Len(s) - h
  OBVIOUS
<1> HIDE DEF l, r
<1>5. ASSUME NEW x \in ToSet(s) PROVE x \in ToSet(l) \cup ToSet(r)
  <2>1. PICK i \in 1..Len(s) : x = s[i]
    BY <1>1 DEF ToSet
  <2>2. CASE i <= h
    <3>1. i \in 1..h /\ l[i] = x
      BY <1>1, <1>2, <2>1, <2>2
    <3> QED
      BY <1>2, <3>1 DEF ToSet
  <2>3. CASE i > h
    <3>1. i - h \in 1..(Len(s) - h) /\ h + (i - h) = i
      BY <1>1, <2>3
    <3>2. r[i - h] = x
      BY <1>3, <2>1, <3>1
    <3> QED
      BY <1>3, <3>1, <3>2 DEF ToSet
  <2> QED
    BY <1>1, <2>2, <2>3
<1>6. ToSet(l) \subseteq ToSet(s)
  BY <1>1, <1>2 DEF ToSet
<1>7. ToSet(r) \subseteq ToSet(s)
  BY <1>1, <1>3 DEF ToSet
<1> QED
  BY <1>4, <1>5, <1>6, <1>7 DEF l, r

(* The members of two lists in a row, and of a longer list.                 *)
LEMMA ToSetConcat ==
    ASSUME NEW S, NEW s \in Seq(S), NEW t \in Seq(S)
    PROVE  ToSet(s \o t) = ToSet(s) \cup ToSet(t) /\ s \o t \in Seq(S)
<1> DEFINE u == s \o t
<1>1. /\ Len(s) \in Nat /\ Len(t) \in Nat /\ u \in Seq(S)
      /\ DOMAIN s = 1..Len(s) /\ DOMAIN t = 1..Len(t) /\ DOMAIN u = 1..(Len(s) + Len(t))
  OBVIOUS
<1>2. /\ \A i \in 1..Len(s) : u[i] = s[i]
      /\ \A i \in 1..Len(t) : u[Len(s) + i] = t[i]
  OBVIOUS
<1> HIDE DEF u
<1>3. ToSet(s) \subseteq ToSet(u)
  BY <1>1, <1>2 DEF ToSet
<1>4. ToSet(t) \subseteq ToSet(u)
  <2>1. \A i \in 1..Len(t) : Len(s) + i \in 1..(Len(s) + Len(t))
    BY <1>1
  <2> QED
    BY <1>1, <1>2, <2>1 DEF ToSet
<1>5. ASSUME NEW x \in ToSet(u) PROVE x \in ToSet(s) \cup ToSet(t)
  <2>1. PICK i \in 1..(Len(s) + Len(t)) : x = u[i]
    BY <1>1 DEF ToSet
  <2>2. CASE i <= Len(s)
    <3>1. i \in 1..Len(s) /\ x = s[i]
      BY <1>1, <1>2, <2>1, <2>2
    <3> QED
      BY <1>1, <3>1 DEF ToSet
  <2>3. CASE i > Len(s)
    <3>1. i - Len(s) \in 1..Len(t) /\ Len(s) + (i - Len(s)) = i
      BY <1>1, <2>3
    <3>2. x = t[i - Len(s)]
      BY <1>2, <2>1, <3>1
    <3> QED
      BY <1>1, <3>1, <3>2 DEF ToSet
  <2> QED
    BY <1>1, <2>2, <2>3
<1> QED
  BY <1>1, <1>3, <1>4, <1>5 DEF u

(* One more element.                                                        *)
LEMMA ToSetAppend ==
    ASSUME NEW S, NEW s \in Seq(S), NEW e \in S
    PROVE  Append(s, e) \in Seq(S) /\ ToSet(Append(s, e)) = ToSet(s) \cup {e}
<1> DEFINE u == Append(s, e)
<1>1. /\ Len(s) \in Nat /\ u \in Seq(S)
      /\ DOMAIN s = 1..Len(s) /\ DOMAIN u = 1..(Len(s) + 1)
  OBVIOUS
<1>2. u[Len(s) + 1] = e /\ \A i \in 1..Len(s) : u[i] = s[i]
  OBVIOUS
<1> HIDE DEF u
<1>3. ToSet(s) \subseteq ToSet(u) /\ e \in ToSet(u)
  BY <1>1, <1>2 DEF ToSet
<1>4. ASSUME NEW x \in ToSet(u) PROVE x \in ToSet(s) \cup {e}
  <2>1. PICK i \in 1..(Len(s) + 1) : x = u[i]
    BY <1>1 DEF ToSet
  <2> QED
    BY <1>1, <1>2, <2>1 DEF ToSet
<1> QED
  BY <1>1, <1>3, <1>4 DEF u

(* A list with a beginning.                                                 *)
LEMMA Before ==
    ASSUME NEW S, NEW p \in Seq(S), p # <<>>, NEW t \in Seq(S)
    PROVE  /\ p \o t \in Seq(S) /\ p \o t # <<>>
           /\ Head(p \o t) = Head(p) /\ Tail(p \o t) = Tail(p) \o t
           /\ ToSet(p \o t) = ToSet(p) \cup ToSet(t)
           /\ ToSet(Tail(p \o t)) = ToSet(Tail(p)) \cup ToSet(t)
<1> DEFINE u == p \o t
<1>1. Len(p) \in Nat /\ Len(p) > 0 /\ Len(t) \in Nat /\ Tail(p) \in Seq(S)
  OBVIOUS
<1>2. u \in Seq(S) /\ Len(u) = Len(p) + Len(t)
  BY ConcatProperties
<1>3. \A i \in 1..(Len(p) + Len(t)) : u[i] = IF i <= Len(p) THEN p[i] ELSE t[i - Len(p)]
  BY ConcatProperties
<1> HIDE DEF u
<1>4. u # <<>> /\ Head(u) = Head(p)
  BY <1>1, <1>2, <1>3
<1>5. Tail(u) = Tail(p) \o t
  <2> DEFINE v == Tail(p) \o t
  <2>1. v \in Seq(S) /\ Len(v) = (Len(p) - 1) + Len(t)
    BY <1>1, ConcatProperties
  <2>2. \A i \in 1..((Len(p) - 1) + Len(t)) :
           v[i] = IF i <= Len(p) - 1 THEN Tail(p)[i] ELSE t[i - (Len(p) - 1)]
    BY <1>1, ConcatProperties
  <2> HIDE DEF v
  <2>3. Tail(u) \in Seq(S) /\ Len(Tail(u)) = (Len(p) - 1) + Len(t)
    BY <1>1, <1>2, <1>4
  <2>4. \A i \in 1..((Len(p) - 1) + Len(t)) : Tail(u)[i] = u[i + 1]
    BY <1>1, <1>2, <1>4
  <2>5. \A i \in 1..(Len(p) - 1) : Tail(p)[i] = p[i + 1]
    BY <1>1
  <2>6. \A i \in 1..((Len(p) - 1) + Len(t)) : Tail(u)[i] = v[i]
    <3> TAKE i \in 1..((Len(p) - 1) + Len(t))
    <3>1. /\ i + 1 \in 1..(Len(p) + Len(t)) /\ (i + 1) - Len(p) = i - (Len(p) - 1)
          /\ i <= Len(p) - 1 <=> i + 1 <= Len(p)
      BY <1>1
    <3>2. Tail(u)[i] = IF i + 1 <= Len(p) THEN p[i + 1] ELSE t[(i + 1) - Len(p)]
      BY <1>3, <2>4, <3>1
    <3>3. i <= Len(p) - 1 => Tail(p)[i] = p[i + 1]
      BY <1>1, <2>5
    <3> QED
      BY <2>2, <3>1, <3>2, <3>3
  <2>7. Tail(u) = v
    BY <2>1, <2>3, <2>6
  <2> QED
    BY <2>7 DEF v
<1>6. ToSet(u) = ToSet(p) \cup ToSet(t)
  BY ToSetConcat DEF u
<1>7. ToSet(Tail(u)) = ToSet(Tail(p)) \cup ToSet(t)
  BY <1>1, <1>5, ToSetConcat
<1> QED
  BY <1>2, <1>4, <1>5, <1>6, <1>7 DEF u

(* One element.                                                             *)
LEMMA Single ==
    ASSUME NEW S, NEW g \in S
    PROVE  /\ <<g>> \in Seq(S) /\ <<g>> # <<>> /\ Head(<<g>>) = g
           /\ ToSet(<<g>>) = {g} /\ ToSet(Tail(<<g>>)) = {}
<1>1. <<g>> \in Seq(S) /\ <<g>> # <<>> /\ Head(<<g>>) = g
  OBVIOUS
<1>2. ToSet(<<g>>) = {g} /\ ToSet(Tail(<<g>>)) = {}
  BY DEF ToSet
<1> QED
  BY <1>1, <1>2, Zenon

(* What Without keeps.                                                      *)
LEMMA WithoutKeeps ==
    ASSUME NEW S, NEW s \in Seq(S), NEW dropped
    PROVE  Without(s, dropped) \in Seq(S) /\ ToSet(Without(s, dropped)) = ToSet(s) \ dropped
<1> DEFINE next(q, i) == IF s[i] \in dropped THEN q ELSE Append(q, s[i])
           kept(f, m) == f = [i \in 0..m |-> IF i = 0 THEN <<>> ELSE next(f[i - 1], i)]
           first(i) == {s[j] : j \in 1..i}
           right(q, i) == q \in Seq(S) /\ ToSet(q) = first(i) \ dropped
<1>1. Len(s) \in Nat /\ DOMAIN s = 1..Len(s) /\ \A i \in 1..Len(s) : s[i] \in S
  OBVIOUS
<1>2. \E f : kept(f, Len(s))
  <2> DEFINE T == {m \in Nat : \E f : kept(f, m)}
  <2>1. kept([i \in 0..0 |-> <<>>], 0)
    OBVIOUS
  <2>2. ASSUME NEW m \in 0..Len(s), m \in T PROVE m + 1 \in T
    <3>1. m \in Nat
      BY <1>1
    <3>2. PICK f : kept(f, m)
      BY <2>2
    <3> DEFINE g == [i \in 0..(m + 1) |-> IF i = m + 1 THEN next(f[m], m + 1) ELSE f[i]]
    <3> HIDE DEF next
    <3>3. kept(g, m + 1)
      <4>1. \A i \in 0..(m + 1) : g[i] = IF i = 0 THEN <<>> ELSE next(g[i - 1], i)
        BY <3>1, <3>2
      <4> QED
        BY <4>1
    <3> HIDE DEF kept, g
    <3> QED
      BY <3>1, <3>3
  <2> HIDE DEF kept
  <2>3. 0..Len(s) \subseteq T
    BY <1>1, <2>1, <2>2, UpTo
  <2> QED
    BY <1>1, <2>3
<1>3. PICK f : kept(f, Len(s)) /\ Without(s, dropped) = f[Len(s)]
  <2> DEFINE g == CHOOSE f : kept(f, Len(s))
  <2>1. kept(g, Len(s))
    BY <1>1, <1>2
  <2>2. Without(s, dropped) = g[Len(s)]
    BY DEF Without
  <2> QED
    BY <2>1, <2>2
<1>4. right(f[0], 0)
  <2>1. f[0] = <<>> /\ first(0) = {}
    BY <1>1, <1>3
  <2> QED
    BY <2>1 DEF ToSet
<1>5. ASSUME NEW m \in 0..Len(s), right(f[m], m), m < Len(s) PROVE right(f[m + 1], m + 1)
  <2>1. m \in 0..Len(s) /\ m + 1 \in 1..Len(s)
    BY <1>1, <1>5
  <2>2. f[m + 1] = next(f[m], m + 1) /\ s[m + 1] \in S
    <3>1. f[m + 1] = IF m + 1 = 0 THEN <<>> ELSE next(f[(m + 1) - 1], m + 1)
      <4> HIDE DEF next
      <4> QED
        BY <1>1, <1>3, <2>1
    <3>2. m + 1 # 0 /\ (m + 1) - 1 = m
      BY <1>1, <2>1
    <3> QED
      BY <1>1, <2>1, <3>1, <3>2
  <2>3. first(m + 1) = first(m) \cup {s[m + 1]}
    BY <1>1, <2>1
  <2> HIDE DEF first
  <2> QED
    BY <1>5, <2>2, <2>3, ToSetAppend
<1>6. right(f[Len(s)], Len(s))
  <2> DEFINE T == {m \in 0..Len(s) : right(f[m], m)}
  <2> HIDE DEF right
  <2>1. 0 \in T /\ \A m \in 0..Len(s) : m \in T /\ m < Len(s) => m + 1 \in T
    BY <1>1, <1>4, <1>5
  <2>2. 0..Len(s) \subseteq T
    <3> HIDE DEF T
    <3> QED
      BY <1>1, <2>1, UpTo
  <2> QED
    BY <1>1, <2>2
<1>7. first(Len(s)) = ToSet(s)
  BY <1>1 DEF ToSet
<1> QED
  BY <1>3, <1>6, <1>7

(* What Dedupe keeps.                                                       *)
LEMMA DedupeKeeps ==
    ASSUME NEW S, NEW s \in Seq(S)
    PROVE  Dedupe(s) \in Seq(S) /\ ToSet(Dedupe(s)) = ToSet(s)
<1> DEFINE next(q, i) == IF s[i] \in ToSet(q) THEN q ELSE Append(q, s[i])
           kept(f, m) == f = [i \in 0..m |-> IF i = 0 THEN <<>> ELSE next(f[i - 1], i)]
           first(i) == {s[j] : j \in 1..i}
           right(q, i) == q \in Seq(S) /\ ToSet(q) = first(i)
<1>1. Len(s) \in Nat /\ DOMAIN s = 1..Len(s) /\ \A i \in 1..Len(s) : s[i] \in S
  OBVIOUS
<1>2. \E f : kept(f, Len(s))
  <2> DEFINE T == {m \in Nat : \E f : kept(f, m)}
  <2>1. kept([i \in 0..0 |-> <<>>], 0)
    OBVIOUS
  <2>2. ASSUME NEW m \in 0..Len(s), m \in T PROVE m + 1 \in T
    <3>1. m \in Nat
      BY <1>1
    <3>2. PICK f : kept(f, m)
      BY <2>2
    <3> DEFINE g == [i \in 0..(m + 1) |-> IF i = m + 1 THEN next(f[m], m + 1) ELSE f[i]]
    <3> HIDE DEF next
    <3>3. kept(g, m + 1)
      <4>1. \A i \in 0..(m + 1) : g[i] = IF i = 0 THEN <<>> ELSE next(g[i - 1], i)
        BY <3>1, <3>2
      <4> QED
        BY <4>1
    <3> HIDE DEF kept, g
    <3> QED
      BY <3>1, <3>3
  <2> HIDE DEF kept
  <2>3. 0..Len(s) \subseteq T
    BY <1>1, <2>1, <2>2, UpTo
  <2> QED
    BY <1>1, <2>3
<1>3. PICK f : kept(f, Len(s)) /\ Dedupe(s) = f[Len(s)]
  <2> DEFINE g == CHOOSE f : kept(f, Len(s))
  <2>1. kept(g, Len(s))
    BY <1>1, <1>2
  <2>2. Dedupe(s) = g[Len(s)]
    BY DEF Dedupe
  <2> QED
    BY <2>1, <2>2
<1>4. right(f[0], 0)
  <2>1. f[0] = <<>> /\ first(0) = {}
    BY <1>1, <1>3
  <2> QED
    BY <2>1 DEF ToSet
<1>5. ASSUME NEW m \in 0..Len(s), right(f[m], m), m < Len(s) PROVE right(f[m + 1], m + 1)
  <2>1. m \in 0..Len(s) /\ m + 1 \in 1..Len(s)
    BY <1>1, <1>5
  <2>2. f[m + 1] = next(f[m], m + 1) /\ s[m + 1] \in S
    <3>1. f[m + 1] = IF m + 1 = 0 THEN <<>> ELSE next(f[(m + 1) - 1], m + 1)
      <4> HIDE DEF next
      <4> QED
        BY <1>1, <1>3, <2>1
    <3>2. m + 1 # 0 /\ (m + 1) - 1 = m
      BY <1>1, <2>1
    <3> QED
      BY <1>1, <2>1, <3>1, <3>2
  <2>3. first(m + 1) = first(m) \cup {s[m + 1]}
    BY <1>1, <2>1
  <2> HIDE DEF first
  <2>4. CASE s[m + 1] \in ToSet(f[m])
    BY <1>5, <2>2, <2>3, <2>4
  <2>5. CASE s[m + 1] \notin ToSet(f[m])
    <3>1. f[m + 1] = Append(f[m], s[m + 1])
      BY <2>2, <2>5
    <3>2. f[m] \in Seq(S) /\ s[m + 1] \in S
      BY <1>5, <2>2
    <3>3. f[m + 1] \in Seq(S) /\ ToSet(f[m + 1]) = ToSet(f[m]) \cup {s[m + 1]}
      BY <3>1, <3>2, ToSetAppend
    <3> QED
      BY <1>5, <2>3, <3>3
  <2> QED
    BY <2>4, <2>5
<1>6. right(f[Len(s)], Len(s))
  <2> DEFINE T == {m \in 0..Len(s) : right(f[m], m)}
  <2> HIDE DEF right
  <2>1. 0 \in T /\ \A m \in 0..Len(s) : m \in T /\ m < Len(s) => m + 1 \in T
    BY <1>1, <1>4, <1>5
  <2>2. 0..Len(s) \subseteq T
    <3> HIDE DEF T
    <3> QED
      BY <1>1, <2>1, UpTo
  <2> QED
    BY <1>1, <2>2
<1>7. first(Len(s)) = ToSet(s)
  BY <1>1 DEF ToSet
<1> QED
  BY <1>3, <1>6, <1>7

(* Ancestors climbs from a set to what it needs, once for every node.       *)
LEMMA Climb ==
    ASSUME NEW S
    PROVE  \E f :
              /\ f[0] = S /\ Ancestors(S) = f[Len(Order)]
              /\ \A m \in 0..Len(Order) : m < Len(Order) =>
                    f[m + 1] = f[m] \cup UNION {Needs[n] : n \in f[m]}
<1> DEFINE next(q) == q \cup UNION {Needs[n] : n \in q}
           up(f, m) == f = [i \in 0..m |-> IF i = 0 THEN S ELSE next(f[i - 1])]
<1>1. Len(Order) \in Nat
  BY LandAssumption
<1> HIDE DEF next
<1>2. \E f : up(f, Len(Order))
  <2> DEFINE T == {m \in Nat : \E f : up(f, m)}
  <2>1. up([i \in 0..0 |-> S], 0)
    OBVIOUS
  <2>2. ASSUME NEW m \in 0..Len(Order), m \in T PROVE m + 1 \in T
    <3>1. m \in Nat
      BY <1>1
    <3>2. PICK f : up(f, m)
      BY <2>2
    <3> DEFINE g == [i \in 0..(m + 1) |-> IF i = m + 1 THEN next(f[m]) ELSE f[i]]
    <3>3. up(g, m + 1)
      <4>1. \A i \in 0..(m + 1) : g[i] = IF i = 0 THEN S ELSE next(g[i - 1])
        BY <3>1, <3>2
      <4> QED
        BY <4>1
    <3> HIDE DEF up, g
    <3> QED
      BY <3>1, <3>3
  <2> HIDE DEF up
  <2>3. 0..Len(Order) \subseteq T
    BY <1>1, <2>1, <2>2, UpTo
  <2> QED
    BY <1>1, <2>3
<1>3. PICK f : up(f, Len(Order)) /\ Ancestors(S) = f[Len(Order)]
  <2> DEFINE g == CHOOSE f : up(f, Len(Order))
  <2>1. up(g, Len(Order))
    BY <1>1, <1>2
  <2>2. Ancestors(S) = g[Len(Order)]
    BY DEF Ancestors, next
  <2> QED
    BY <2>1, <2>2
<1>4. f[0] = S /\ \A m \in 0..Len(Order) : m < Len(Order) => f[m + 1] = next(f[m])
  BY <1>1, <1>3
<1> QED
  BY <1>3, <1>4 DEF next

(* A set that holds what its members need holds the ancestors of its parts. *)
LEMMA AncestorsWithin ==
    ASSUME NEW S, NEW T, S \subseteq T, \A n \in T : Needs[n] \subseteq T
    PROVE  Ancestors(S) \subseteq T
<1>1. PICK f : /\ f[0] = S /\ Ancestors(S) = f[Len(Order)]
               /\ \A m \in 0..Len(Order) : m < Len(Order) =>
                     f[m + 1] = f[m] \cup UNION {Needs[n] : n \in f[m]}
  BY Climb
<1>2. Len(Order) \in Nat
  BY LandAssumption
<1> DEFINE G == {m \in 0..Len(Order) : f[m] \subseteq T}
<1>3. 0 \in G /\ \A m \in 0..Len(Order) : m \in G /\ m < Len(Order) => m + 1 \in G
  <2>1. ASSUME NEW q, q \subseteq T PROVE q \cup UNION {Needs[n] : n \in q} \subseteq T
    BY <2>1
  <2> QED
    BY <1>1, <1>2, <2>1
<1>4. 0..Len(Order) \subseteq G
  <2> HIDE DEF G
  <2> QED
    BY <1>2, <1>3, UpTo
<1>5. Len(Order) \in G
  BY <1>2, <1>4
<1> QED
  BY <1>1, <1>5

(* A node's ancestors are nodes of the plan.                                *)
LEMMA AncestorsAreNodes ==
    ASSUME NEW S, S \subseteq Node
    PROVE  Ancestors(S) \subseteq Node
  BY AncestorsWithin, LandAssumption

-----------------------------------------------------------------------------
(* What a landing's plan and commands are                                  *)

(* The stacked, the smokes and the setups are lists of what they should be. *)
LEMMA Lists ==
    ASSUME landing \in Landings
    PROVE  /\ Sinks \in Seq(Node) /\ Sinks \in Seq(Sunk) /\ Sunk \subseteq Node
           /\ Gate \in Seq(Command) /\ None \notin ToSet(Gate) /\ (Gate # <<>> => Sinks # <<>>)
           /\ \A ids \in Seq(Node) : SetupsFor(ids) \in Seq(Setup)
           /\ landing.gates \in Seq(Command)
           /\ \A S : S \subseteq Node => Ancestors(S) \in Trees
<1>1. Order \in Seq(Node) /\ (landing.named \in Seq(Node) \/ landing.named = None)
  BY LandAssumption
<1>2. SinkIds \in Seq(Node)
  BY <1>1, WithoutKeeps DEF SinkIds
<1>3. Sinks \in Seq(Node)
  BY <1>1, <1>2, DedupeKeeps DEF Sinks
<1>4. Sinks \in Seq(Sunk) /\ Sunk \subseteq Node
  <2>1. DOMAIN Sinks = 1..Len(Sinks) /\ Len(Sinks) \in Nat
    BY <1>3
  <2>2. \A i \in 1..Len(Sinks) : Sinks[i] \in Node /\ Sinks[i] \in Sunk
    BY <1>3, <2>1 DEF Sunk, ToSet
  <2>3. Sunk \subseteq Node
    BY <2>1, <2>2 DEF Sunk, ToSet
  <2> HIDE DEF Sunk
  <2> QED
    BY <1>3, <2>1, <2>2, <2>3
<1>5. ASSUME NEW ids \in Seq(Node), NEW field, NEW C, \A n \in Node : landing[field][n] \in C \cup {None}
      PROVE  /\ Commands(field, ids) \in Seq(C \cup {None})
             /\ None \notin ToSet(Commands(field, ids))
             /\ ids = <<>> => ToSet(Commands(field, ids)) = {}
             /\ ToSet(Commands(field, ids)) \subseteq C
  <2> DEFINE all == [i \in 1..Len(ids) |-> landing[field][ids[i]]]
             some == Without(all, {None})
  <2>1. Len(ids) \in Nat /\ \A i \in 1..Len(ids) : ids[i] \in Node
    OBVIOUS
  <2>2. /\ all \in Seq(C \cup {None}) /\ ToSet(all) \subseteq C \cup {None}
        /\ (ids = <<>> => ToSet(all) = {})
    BY <1>5, <2>1 DEF ToSet
  <2> HIDE DEF all
  <2>3. some \in Seq(C \cup {None}) /\ ToSet(some) = ToSet(all) \ {None}
    BY <2>2, WithoutKeeps
  <2> HIDE DEF some
  <2>4. Dedupe(some) \in Seq(C \cup {None}) /\ ToSet(Dedupe(some)) = ToSet(some)
    BY <2>3, DedupeKeeps
  <2> QED
    BY <2>2, <2>3, <2>4 DEF Commands, all, some
<1>6. ASSUME NEW C, NEW s \in Seq(C \cup {None}), ToSet(s) \subseteq C
      PROVE  s \in Seq(C)
  <2>1. Len(s) \in Nat /\ DOMAIN s = 1..Len(s)
    OBVIOUS
  <2>2. \A i \in 1..Len(s) : s[i] \in C
    BY <1>6, <2>1 DEF ToSet
  <2> QED
    BY <2>1, <2>2
<1>7. Gate \in Seq(Command) /\ None \notin ToSet(Gate) /\ (Sinks = <<>> => ToSet(Gate) = {})
  <2>1. \A n \in Node : landing["smoke"][n] \in Command \cup {None}
    BY LandAssumption DEF Command
  <2> QED
    BY <1>3, <1>5, <1>6, <2>1 DEF Gate
<1>8. Gate # <<>> => ToSet(Gate) # {}
  <2>1. Gate # <<>> => Head(Gate) \in ToSet(Gate)
    BY <1>7, ToSetTail
  <2> QED
    BY <2>1
<1>9. ASSUME NEW ids \in Seq(Node) PROVE SetupsFor(ids) \in Seq(Setup)
  <2>1. \A n \in Node : landing["setup"][n] \in Setup \cup {None}
    BY DEF Setup
  <2> QED
    BY <1>5, <1>6, <1>9, <2>1 DEF SetupsFor
<1>10. landing.gates \in Seq(Command)
  BY LandAssumption DEF Command
<1>11. \A S : S \subseteq Node => Ancestors(S) \in Trees
  BY AncestorsAreNodes DEF Trees
<1> QED
  BY <1>3, <1>4, <1>7, <1>8, <1>9, <1>10, <1>11

(* The bounds are bounds.                                                   *)
LEMMA Bounds == Flakes \in Nat /\ Moves \in Nat
  BY LandAssumption

(* An answer may use up a flake, and is right when none is used.            *)
LEMMA Answered ==
    ASSUME flakes \in 0..Flakes
    PROVE  \A c : \A red \in BOOLEAN : Answers(c, red) =>
              /\ flakes' \in 0..Flakes
              /\ flakes' = 0 => flakes = 0 /\ (red <=> Red(c, Here.tree))
<1> SUFFICES ASSUME NEW c, NEW red \in BOOLEAN, Answers(c, red)
             PROVE  flakes' \in 0..Flakes /\ (flakes' = 0 => flakes = 0 /\ (red <=> Red(c, Here.tree)))
  OBVIOUS
<1>1. Red(c, Here.tree) \in BOOLEAN
  BY DEF Red
<1> HIDE DEF Red
<1> QED
  BY <1>1, Bounds DEF Answers

(* What nothing but the asking decides.                                     *)
LEMMA Rigid ==
    ASSUME landing' = landing
    PROVE  /\ Sinks' = Sinks /\ Sunk' = Sunk /\ Gate' = Gate /\ Command' = Command /\ Setup' = Setup
           /\ Stacks' = Stacks /\ Goals' = Goals
<1>1. Sinks' = Sinks
  BY DEF Sinks
<1>2. Gate' = Gate
  BY <1>1 DEF Gate, Commands
<1>3. Sunk' = Sunk /\ Command' = Command /\ Setup' = Setup
  BY <1>1 DEF Sunk, Command, Setup
<1> QED
  BY <1>1, <1>2, <1>3 DEF Stacks, Goals

-----------------------------------------------------------------------------
(* The steps                                                               *)

Others ==
    \/ OperatorCommits \/ (\E b \in Branch \cup {Detached} : OperatorChecksOut(b))
    \/ (\E n \in Node : NodeBranchMoves(n))

(* Whoever else uses the repository counts as a move, and leaves all of the *)
(* landing alone.                                                           *)
LEMMA OthersMove ==
    ASSUME Shape, Others
    PROVE  /\ head' \in Branch \cup {Detached} /\ tip' \in [Branch \cup {Detached} -> Trees]
           /\ ref' \in [Node -> Trees \cup {None}]
           /\ moves' \in 1..Moves /\ moves' # moves
           /\ UNCHANGED <<landing, bySha, at, purpose, trees, retried, bisection, raised, pins, flakes,
                          published>>
<1> USE LandAssumption DEF Shape, RepoShape, WayShape, Elsewhere
<1>1. CASE OperatorCommits
  BY <1>1 DEF OperatorCommits, Trees
<1>2. CASE \E b \in Branch \cup {Detached} : OperatorChecksOut(b)
  BY <1>2 DEF OperatorChecksOut
<1>3. CASE \E n \in Node : NodeBranchMoves(n)
  BY <1>3 DEF NodeBranchMoves, Trees
<1> QED
  BY <1>1, <1>2, <1>3 DEF Others

(* The stack a step works on is live, and what is left of its lists is of   *)
(* their elements.                                                          *)
LEMMA StackInUse ==
    ASSUME Shape, Standings, at \in {"merge", "provision", "gate", "retry", "asks", "probed"}
    PROVE  /\ Kind \in {"land", "probe"} /\ Here \in Stacks /\ Live(Kind)
           /\ Here.tree \in Trees /\ Here.red \in BOOLEAN
           /\ Here.green \subseteq Command /\ Here.conflicts \subseteq Node
           /\ Here.todo \in Seq(Node) /\ Here.setups \in Seq(Setup)
           /\ Here.gate \in Seq(Command) /\ Here.asks \in Seq(Command)
           /\ Here.todo # <<>> => Head(Here.todo) \in Node /\ Tail(Here.todo) \in Seq(Node)
           /\ Here.setups # <<>> => Tail(Here.setups) \in Seq(Setup)
           /\ Here.gate # <<>> => Head(Here.gate) \in Command /\ Tail(Here.gate) \in Seq(Command)
           /\ Here.asks # <<>> => Head(Here.asks) \in Command /\ Tail(Here.asks) \in Seq(Command)
<1>1. Kind \in {"land", "probe"} /\ Live(Kind)
  BY DEF Standings, Kind
<1>2. Here \in Stacks
  BY <1>1 DEF Live, Shape, StackShape, NoStack, Here
<1>3. /\ Here.tree \in Trees /\ Here.red \in BOOLEAN
      /\ Here.green \subseteq Command /\ Here.conflicts \subseteq Node
      /\ Here.todo \in Seq(Node) /\ Here.setups \in Seq(Setup)
      /\ Here.gate \in Seq(Command) /\ Here.asks \in Seq(Command)
  BY <1>2 DEF Stacks
<1> QED
  BY <1>1, <1>2, <1>3, ToSetTail

(* What a node adds is a commit.                                            *)
LEMMA CommitIsTree ==
    ASSUME Shape, NEW n \in Node, CommitOf(n) # None
    PROVE  CommitOf(n) \in Trees /\ \A t \in Trees : t \cup CommitOf(n) \in Trees
<1>1. Ancestors({n}) \in Trees /\ ref[n] \in Trees \cup {None}
  BY Lists DEF Shape, RepoShape
<1> QED
  BY <1>1 DEF CommitOf, Trees

(* What is retried is a command.                                            *)
LEMMA RetryInGate ==
    ASSUME Shape, Asked, at = "retry"
    PROVE  retried \in Command
  BY DEF Shape, WayShape, Asked

(* The halves of a list of candidates.                                      *)
LEMMA Halves ==
    ASSUME NEW S, NEW cands \in Seq(S), cands # <<>>
    PROVE  /\ Left(cands) \in Seq(S) /\ Left(cands) # <<>>
           /\ Right(cands) \in Seq(S) /\ (Len(cands) > 1 => Right(cands) # <<>>)
           /\ ToSet(Left(cands)) \cup ToSet(Right(cands)) = ToSet(cands)
<1>1. Len(cands) \in Nat /\ Len(cands) > 0
  OBVIOUS
<1>2. /\ Half(cands) \in Nat /\ Half(cands) <= Len(cands) /\ Half(cands) > 0
      /\ Len(cands) > 1 => Half(cands) < Len(cands)
  BY <1>1 DEF Half
<1>3. /\ Left(cands) \in Seq(S) /\ Len(Left(cands)) = Half(cands)
      /\ Right(cands) \in Seq(S) /\ Len(Right(cands)) = Len(cands) - Half(cands)
      /\ ToSet(Left(cands)) \cup ToSet(Right(cands)) = ToSet(cands)
  BY <1>1, <1>2, ToSetSplit DEF Left, Right
<1> QED
  BY <1>1, <1>2, <1>3

(* What is stacked is of the plan.                                          *)
LEMMA StackedLists ==
    ASSUME Shape, Standings, Sorted, at \notin {"unwind", "ended"}
    PROVE  /\ Stacked \in Seq(Sunk) /\ Stacked \in Seq(Node)
           /\ Good \in Seq(Sunk) /\ ToSet(Good) = Sunk \ culprits
<1>1. Sinks \in Seq(Sunk) /\ Sunk \subseteq Node
  BY Lists DEF Shape
<1>2. Good \in Seq(Sunk) /\ ToSet(Good) = Sunk \ culprits
  BY <1>1, WithoutKeeps DEF Good, Sunk
<1>3. goals # <<>> => Head(goals).cands \in Seq(Sunk) \ {<<>>} /\ Head(goals).job \in {"halve", "rest"}
  <2>1. goals # <<>> => Head(goals) \in Goals
    BY DEF Shape, SortShape
  <2> QED
    BY <2>1 DEF Goals
<1>4. purpose = "land" => Stacked \in Seq(Sunk)
  BY <1>1 DEF Stacked
<1>5. purpose = "left" => Stacked \in Seq(Sunk)
  <2> SUFFICES ASSUME purpose = "left" PROVE Stacked \in Seq(Sunk)
    OBVIOUS
  <2> DEFINE cands == Head(goals).cands
  <2>1. cands \in Seq(Sunk) /\ cands # <<>>
    BY <1>3 DEF Sorted, Bisecting
  <2>2. Left(cands) \in Seq(Sunk)
    <3> HIDE DEF cands
    <3> QED
      BY <2>1, Halves
  <2> QED
    BY <2>2, ToSetConcat DEF Stacked, Shape, SortShape
<1>6. purpose = "right" => Stacked \in Seq(Sunk)
  BY <1>3, ToSetConcat DEF Stacked, Shape, SortShape, Sorted, Bisecting
<1>7. Stacked \in Seq(Sunk)
  BY <1>2, <1>4, <1>5, <1>6 DEF Shape, WayShape, Stacked
<1>8. Stacked \in Seq(Node)
  BY <1>1, <1>7
<1> QED
  BY <1>2, <1>7, <1>8

(* Nothing changes what the landing was asked.                              *)
LEMMA StepRigid ==
    ASSUME Shape, Next
    PROVE  /\ landing' = landing /\ Sinks' = Sinks /\ Sunk' = Sunk /\ Gate' = Gate
           /\ Command' = Command /\ Setup' = Setup /\ Stacks' = Stacks /\ Goals' = Goals
<1> USE DEF Inside, OnStack
<1>1. CASE RefuseUnrunnableGates \/ ReadClosed \/ ResolveRefs \/ OpenStack \/ MergeNext \/ MergesDone
  BY <1>1, Rigid DEF RefuseUnrunnableGates, ReadClosed, ResolveRefs, OpenStack, MergeNext,
     MergesDone
<1>2. CASE \/ Provision \/ RunGate \/ GateGreen \/ RetryGreen \/ RetryRed \/ RunLandGate \/ Publish
  <2>1. landing' = landing
    BY <1>2 DEF Provision, RunGate, GateGreen, RetryGreen, RetryRed, RunLandGate, Publish
  <2> QED
    BY <2>1, Rigid
<1>3. CASE Blame \/ Probe \/ Recheck \/ ProbeDone
  BY <1>3, Rigid DEF Blame, Probe, Recheck, ProbeDone
<1>4. CASE (\E k \in DOMAIN stack : DisposeStack(k)) \/ (\E n \in Node : Pin(n)) \/ End
  BY <1>4, Rigid DEF DisposeStack, Pin, End
<1>5. CASE Others
  BY <1>5, OthersMove, Rigid
<1> QED
  BY <1>1, <1>2, <1>3, <1>4, <1>5 DEF Next, Step, Others

(* The repository keeps its shape.                                          *)
LEMMA StepRepoShape ==
    ASSUME Shape, Standings, Next
    PROVE  RepoShape'
<1> USE DEF Shape, RepoShape, Inside, OnStack, repo
<1>1. CASE RefuseUnrunnableGates \/ ReadClosed
  BY <1>1 DEF RefuseUnrunnableGates, ReadClosed
<1>2. CASE ResolveRefs
  BY <1>2 DEF ResolveRefs
<1>3. CASE OpenStack
  BY <1>3 DEF OpenStack
<1>4. CASE MergeNext
  BY <1>4 DEF MergeNext
<1>5. CASE MergesDone
  BY <1>5 DEF MergesDone
<1>6. CASE Provision
  BY <1>6 DEF Provision
<1>7. CASE RunGate
  BY <1>7 DEF RunGate
<1>8. CASE GateGreen
  BY <1>8 DEF GateGreen
<1>9. CASE RetryGreen
  BY <1>9 DEF RetryGreen
<1>10. CASE RetryRed
  BY <1>10 DEF RetryRed
<1>11. CASE RunLandGate
  BY <1>11 DEF RunLandGate
<1>12. CASE Publish
  <2>1. tip' = tip \/ (tip' = [tip EXCEPT ![head] = @ \cup Here.tree] /\ Here.tree \in Trees)
    BY <1>12, StackInUse DEF Publish
  <2>2. UNCHANGED <<head, ref, pins, moves>>
    BY <1>12 DEF Publish
  <2>3. tip' \in [Branch \cup {Detached} -> Trees]
    <3>1. \A t, u \in Trees : t \cup u \in Trees
      BY DEF Trees
    <3> HIDE DEF RepoShape
    <3>2. tip \in [Branch \cup {Detached} -> Trees] /\ tip[head] \in Trees
      BY DEF RepoShape
    <3> QED
      BY <2>1, <3>1, <3>2
  <2> QED
    BY <2>2, <2>3
<1>13. CASE Blame
  BY <1>13 DEF Blame
<1>14. CASE Probe
  BY <1>14 DEF Probe
<1>15. CASE Recheck
  BY <1>15 DEF Recheck
<1>16. CASE ProbeDone
  BY <1>16 DEF ProbeDone
<1>17. CASE \E k \in DOMAIN stack : DisposeStack(k)
  BY <1>17 DEF DisposeStack
<1>18. CASE \E n \in Node : Pin(n)
  BY <1>18 DEF Pin, RaisedShape, Ways
<1>19. CASE End
  BY <1>19 DEF End
<1>20. CASE Others
  BY <1>20, OthersMove
<1> QED
  BY <1>1, <1>2, <1>3, <1>4, <1>5, <1>6, <1>7, <1>8, <1>9, <1>10, <1>11, <1>12, <1>13, <1>14,
     <1>15, <1>16, <1>17, <1>18, <1>19, <1>20
  DEF Next, Step, Others

(* And so do the step and what goes with it.                                *)
LEMMA StepWayShape ==
    ASSUME Shape, Standings, Judged, Next
    PROVE  WayShape'
<1> USE StepRigid, Bounds DEF Shape, WayShape, Goto, Raise, Throw, Inside, OnStack
<1>1. CASE RefuseUnrunnableGates \/ ReadClosed
  BY <1>1 DEF RefuseUnrunnableGates, ReadClosed
<1>2. CASE ResolveRefs
  BY <1>2, Lists DEF ResolveRefs, Sunk
<1>3. CASE OpenStack
  BY <1>3 DEF OpenStack
<1>4. CASE MergeNext
  BY <1>4 DEF MergeNext
<1>5. CASE MergesDone
  BY <1>5 DEF MergesDone
<1>6. CASE Provision
  BY <1>6 DEF Provision
<1>7. CASE RunGate
  BY <1>7, StackInUse, Answered DEF RunGate
<1>8. CASE GateGreen
  BY <1>8 DEF GateGreen
<1>9. CASE RetryGreen
  BY <1>9, Answered DEF RetryGreen
<1>10. CASE RetryRed
  BY <1>10, Answered DEF RetryRed
<1>11. CASE RunLandGate
  BY <1>11, Answered DEF RunLandGate
<1>12. CASE Publish
  BY <1>12 DEF Publish
<1>13. CASE Blame
  BY <1>13 DEF Blame
<1>14. CASE Probe
  BY <1>14 DEF Probe
<1>15. CASE Recheck
  BY <1>15 DEF Recheck
<1>16. CASE ProbeDone
  BY <1>16 DEF ProbeDone
<1>17. CASE \E k \in DOMAIN stack : DisposeStack(k)
  BY <1>17 DEF DisposeStack
<1>18. CASE \E n \in Node : Pin(n)
  BY <1>18 DEF Pin
<1>19. CASE End
  BY <1>19 DEF End
<1>20. CASE Others
  BY <1>20, OthersMove
<1> QED
  BY <1>1, <1>2, <1>3, <1>4, <1>5, <1>6, <1>7, <1>8, <1>9, <1>10, <1>11, <1>12, <1>13, <1>14,
     <1>15, <1>16, <1>17, <1>18, <1>19, <1>20
  DEF Next, Step, Others

(* What is raised is one of the ways a landing ends.                        *)
LEMMA StepRaisedShape ==
    ASSUME Shape, Standings, Next
    PROVE  RaisedShape'
<1> USE DEF Shape, RaisedShape, Ways, Goto, Raise, Throw, Inside, OnStack
<1>1. CASE RefuseUnrunnableGates \/ ReadClosed
  BY <1>1 DEF RefuseUnrunnableGates, ReadClosed
<1>2. CASE ResolveRefs
  BY <1>2 DEF ResolveRefs
<1>3. CASE OpenStack
  BY <1>3 DEF OpenStack
<1>4. CASE MergeNext
  BY <1>4 DEF MergeNext
<1>5. CASE MergesDone
  <2>1. Here.tree \in Trees /\ Here.conflicts \subseteq Node
    BY <1>5, StackInUse DEF MergesDone
  <2> QED
    BY <1>5, <2>1 DEF MergesDone, Shape
<1>6. CASE Provision
  BY <1>6 DEF Provision
<1>7. CASE RunGate
  BY <1>7 DEF RunGate
<1>8. CASE GateGreen
  BY <1>8 DEF GateGreen
<1>9. CASE RetryGreen
  BY <1>9 DEF RetryGreen
<1>10. CASE RetryRed
  BY <1>10 DEF RetryRed
<1>11. CASE RunLandGate
  <2>1. raised' = raised \/ raised' = [kind |-> "blocked"]
    BY <1>11 DEF RunLandGate
  <2> QED
    BY <2>1
<1>12. CASE Publish
  BY <1>12 DEF Publish
<1>13. CASE Blame
  BY <1>13 DEF Blame
<1>14. CASE Probe
  BY <1>14 DEF Probe
<1>15. CASE Recheck
  BY <1>15 DEF Recheck
<1>16. CASE ProbeDone
  BY <1>16 DEF ProbeDone
<1>17. CASE \E k \in DOMAIN stack : DisposeStack(k)
  BY <1>17 DEF DisposeStack
<1>18. CASE \E n \in Node : Pin(n)
  BY <1>18 DEF Pin
<1>19. CASE End
  BY <1>19 DEF End
<1>20. CASE Others
  BY <1>20, OthersMove DEF Shape
<1> QED
  BY <1>1, <1>2, <1>3, <1>4, <1>5, <1>6, <1>7, <1>8, <1>9, <1>10, <1>11, <1>12, <1>13, <1>14,
     <1>15, <1>16, <1>17, <1>18, <1>19, <1>20
  DEF Next, Step, Others

(* A stack is none, or whole.                                               *)
LEMMA StepStackShape ==
    ASSUME Shape, Standings, Sorted, Asked, Next
    PROVE  StackShape'
<1> USE StepRigid DEF Shape, StackShape, Inside, OnStack, trees
<1>1. CASE OpenStack
  <2> DEFINE r == [worktree |-> "live", tree |-> tip[head], todo |-> Stacked, conflicts |-> {},
                   setups |-> IF purpose = "land" /\ Gate = <<>> /\ landing.gates = <<>> THEN <<>>
                              ELSE SetupsFor(Stacked),
                   gate |-> Gate, asks |-> landing.gates, green |-> {}, red |-> FALSE]
  <2>1. /\ head \in Branch \cup {Detached} /\ tip[head] \in Trees
        /\ Stacked \in Seq(Node) /\ SetupsFor(Stacked) \in Seq(Setup) /\ <<>> \in Seq(Setup)
        /\ Gate \in Seq(Command) /\ landing.gates \in Seq(Command)
    BY <1>1, StackedLists, Lists DEF OpenStack, RepoShape
  <2>2. r \in Stacks
    BY <2>1 DEF Stacks
  <2>3. stack' = stack \/ HereBecomes(r)
    BY <1>1 DEF OpenStack
  <2>4. Kind \in {"land", "probe"}
    BY DEF Kind
  <2> QED
    BY <2>2, <2>3, <2>4 DEF HereBecomes
<1>2. CASE MergeNext
  <2>1. PICK k \in {"land", "probe"}, r \in Stacks \cup {NoStack} :
             stack' = stack \/ stack' = [stack EXCEPT ![k] = r]
    <3>1. Conflicted \in Stacks
      BY <1>2, StackInUse, CommitIsTree DEF MergeNext, Stacks, Conflicted
    <3>2. CommitOf(Head(Here.todo)) # None => Merged \in Stacks
      BY <1>2, StackInUse, CommitIsTree DEF MergeNext, Stacks, Merged
    <3>3. stack' = stack \/ HereBecomes(Conflicted) \/ HereBecomes(Merged)
      BY <1>2 DEF MergeNext, Conflicted, Merged
    <3> QED
      BY <3>1, <3>2, <3>3, StackInUse, <1>2 DEF MergeNext, HereBecomes
  <2> QED
    BY <2>1
<1>3. CASE Provision
  <2>1. PICK k \in {"land", "probe"}, r \in Stacks \cup {NoStack} :
             stack' = stack \/ stack' = [stack EXCEPT ![k] = r]
    <3>1. Here.setups # <<>> => Prepared \in Stacks
      BY <1>3, StackInUse DEF Provision, Stacks, Prepared
    <3>2. stack' = stack \/ HereBecomes(Prepared)
      BY <1>3 DEF Provision, Prepared
    <3> QED
      BY <3>1, <3>2, StackInUse, <1>3 DEF Provision, HereBecomes
  <2> QED
    BY <2>1
<1>4. CASE RunGate
  <2>1. PICK k \in {"land", "probe"}, r \in Stacks \cup {NoStack} :
             stack' = stack \/ stack' = [stack EXCEPT ![k] = r]
    <3>1. Passed \in Stacks
      BY <1>4, StackInUse DEF RunGate, Stacks, Passed
    <3>2. Failed \in Stacks
      BY <1>4, StackInUse DEF RunGate, Stacks, Failed
    <3>3. stack' = stack \/ HereBecomes(Passed) \/ HereBecomes(Failed)
      BY <1>4 DEF RunGate, Passed, Failed
    <3> QED
      BY <3>1, <3>2, <3>3, StackInUse, <1>4 DEF RunGate, HereBecomes
  <2> QED
    BY <2>1
<1>5. CASE RetryGreen
  <2>1. PICK k \in {"land", "probe"}, r \in Stacks \cup {NoStack} :
             stack' = stack \/ stack' = [stack EXCEPT ![k] = r]
    <3>1. Retried \in Stacks
      BY <1>5, StackInUse, RetryInGate DEF RetryGreen, Stacks, Retried
    <3>2. stack' = stack \/ HereBecomes(Retried)
      BY <1>5 DEF RetryGreen, Retried
    <3> QED
      BY <3>1, <3>2, StackInUse, <1>5 DEF RetryGreen, HereBecomes
  <2> QED
    BY <2>1
<1>6. CASE RunLandGate
  <2>1. PICK k \in {"land", "probe"}, r \in Stacks \cup {NoStack} :
             stack' = stack \/ stack' = [stack EXCEPT ![k] = r]
    <3>1. Granted \in Stacks
      BY <1>6, StackInUse DEF RunLandGate, Stacks, Granted
    <3>2. stack' = stack \/ HereBecomes(Granted)
      BY <1>6 DEF RunLandGate, Granted
    <3> QED
      BY <3>1, <3>2, StackInUse, <1>6 DEF RunLandGate, HereBecomes
  <2> QED
    BY <2>1
<1>7. CASE ProbeDone
  <2>1. stack["probe"] \in Stacks /\ [stack["probe"] EXCEPT !.worktree = "lost"] \in Stacks
    BY <1>7, StackInUse DEF ProbeDone, Here, Kind, Standings, Stacks
  <2> QED
    BY <1>7, <2>1 DEF ProbeDone, Dispose, LoseStack
<1>8. CASE \E k \in DOMAIN stack : DisposeStack(k)
  <2>1. PICK k \in {"land", "probe"} : DisposeStack(k)
    BY <1>8
  <2>2. stack[k] \in Stacks
    BY <2>1 DEF DisposeStack, NoStack
  <2>3. [stack[k] EXCEPT !.worktree = "lost"] \in Stacks
    BY <2>2 DEF Stacks
  <2> QED
    BY <2>1, <2>2, <2>3 DEF DisposeStack, Dispose, LoseStack
<1>9. CASE Others
  BY <1>9, OthersMove
<1>10. CASE RefuseUnrunnableGates \/ ReadClosed \/ ResolveRefs \/ MergesDone \/ GateGreen \/
          RetryRed \/ Publish \/ Blame \/ Probe \/ Recheck \/ (\E n \in Node : Pin(n)) \/
          End
  BY <1>10 DEF RefuseUnrunnableGates, ReadClosed, ResolveRefs, MergesDone, GateGreen,
     RetryRed, Publish, Blame, Probe, Recheck, Pin, End
<1> QED
  BY <1>1, <1>2, <1>3, <1>4, <1>5, <1>6, <1>7, <1>8, <1>9, <1>10
  DEF Next, Step, Others

(* What a probe teaches: what passed is the new context, whole; and the     *)
(* list's first item is the half, or the whole, of what was red.            *)
LEMMA Learnt ==
    ASSUME Shape, Sorted, at = "probed", purpose \in {"left", "right"}, NEW red \in BOOLEAN, Learn(red)
    PROVE  /\ goals' \in Seq(Goals) /\ knownGood' \in Seq(Sunk)
           /\ ToSet(knownGood') \cup Candidates(goals') = ToSet(knownGood) \cup Candidates(goals)
           /\ goals' # <<>> => \A g \in ToSet(Tail(goals')) : g.job = "rest"
           /\ knownGood' = knownGood \/ (~red /\ knownGood' = Stacked)
           /\ ToSet(knownGood) \subseteq ToSet(knownGood')
           /\ goals' # <<>> /\ Head(goals').job = "halve" =>
                 LET halved == ToSet(knownGood') \cup ToSet(Head(goals').cands)
                 IN \/ red /\ halved = ToSet(Stacked)
                    \/ /\ Head(goals).job = "halve" /\ goals # <<>>
                       /\ halved = ToSet(knownGood) \cup ToSet(Head(goals).cands)
<1> DEFINE cands == Head(goals).cands
           l == Left(cands)
           r == Right(cands)
           halve(s) == [job |-> "halve", cands |-> s]
           rest(s) == [job |-> "rest", cands |-> s]
           later == Tail(goals)
<1>1. /\ goals # <<>> /\ \A g \in ToSet(later) : g.job = "rest"
      /\ purpose = "left" => Head(goals).job = "halve" /\ Len(cands) > 1
  BY DEF Sorted, Bisecting
<1>2. goals \in Seq(Goals) /\ knownGood \in Seq(Sunk)
  BY DEF Shape, SortShape
<1>3. /\ Head(goals) \in Goals /\ later \in Seq(Goals)
      /\ ToSet(goals) = {Head(goals)} \cup ToSet(later)
  BY <1>1, <1>2, ToSetTail
<1>4. cands \in Seq(Sunk) /\ cands # <<>>
  BY <1>3 DEF Goals
<1>5. /\ l \in Seq(Sunk) /\ l # <<>> /\ r \in Seq(Sunk) /\ (purpose = "left" => r # <<>>)
      /\ ToSet(l) \cup ToSet(r) = ToSet(cands)
  <2> HIDE DEF cands
  <2> QED
    BY <1>1, <1>4, Halves
<1>6. Candidates(goals) = ToSet(cands) \cup Candidates(later)
  BY <1>3 DEF Candidates
<1>7. later # <<>> => Head(later).job = "rest" /\ \A g \in ToSet(Tail(later)) : g.job = "rest"
  <2> HIDE DEF later
  <2>1. later # <<>> => ToSet(later) = {Head(later)} \cup ToSet(Tail(later))
    BY <1>3, ToSetTail
  <2> QED
    BY <1>1, <2>1
<1>8. /\ purpose = "left" => Stacked = knownGood \o l
      /\ purpose = "right" => Stacked = knownGood \o cands
  BY DEF Stacked
<1>9. /\ knownGood \o l \in Seq(Sunk) /\ ToSet(knownGood \o l) = ToSet(knownGood) \cup ToSet(l)
      /\ knownGood \o cands \in Seq(Sunk)
      /\ ToSet(knownGood \o cands) = ToSet(knownGood) \cup ToSet(cands)
  <2> HIDE DEF cands, l
  <2> QED
    BY <1>2, <1>4, <1>5, ToSetConcat
<1>10. CASE purpose = "left" /\ ~red
  <2> DEFINE p == <<halve(r)>>
  <2>1. knownGood' = knownGood \o l /\ goals' = p \o later
    BY <1>10 DEF Learn
  <2> HIDE DEF l, r
  <2>2. halve(r) \in Goals /\ halve(r).cands = r
    BY <1>5, <1>10 DEF Goals
  <2> HIDE DEF later, cands, halve, rest
  <2>3. /\ p \in Seq(Goals) /\ p # <<>> /\ Head(p) = halve(r) /\ ToSet(p) = {halve(r)}
        /\ ToSet(Tail(p)) = {}
    BY <2>2, Single
  <2> HIDE DEF p
  <2>4. /\ /\ goals' \in Seq(Goals) /\ Head(goals') = halve(r)
        /\ ToSet(goals') = {halve(r)} \cup ToSet(later)
        /\ ToSet(Tail(goals')) = ToSet(later)
    <3>1. later \in Seq(Goals)
      BY <1>3
    <3>2. /\ p \o later \in Seq(Goals) /\ Head(p \o later) = Head(p)
          /\ ToSet(p \o later) = ToSet(p) \cup ToSet(later)
          /\ ToSet(Tail(p \o later)) = ToSet(Tail(p)) \cup ToSet(later)
      BY <2>3, <3>1, Before
    <3> QED
      BY <2>1, <2>3, <3>2
  <2>5. Candidates(goals') = ToSet(r) \cup Candidates(later)
    BY <2>2, <2>4 DEF Candidates
  <2> QED
    BY <1>1, <1>5, <1>6, <1>8, <1>9, <1>10, <2>1, <2>2, <2>4, <2>5 DEF cands
<1>11. CASE purpose = "left" /\ red
  <2> DEFINE p == <<halve(l), rest(r)>>
  <2>1. knownGood' = knownGood /\ goals' = p \o later
    BY <1>11 DEF Learn
  <2> HIDE DEF l, r
  <2>2. /\ halve(l) \in Goals /\ halve(l).cands = l
        /\ rest(r) \in Goals /\ rest(r).cands = r /\ rest(r).job = "rest"
    BY <1>5, <1>11 DEF Goals
  <2> HIDE DEF later, cands, halve, rest
  <2>3. /\ p \in Seq(Goals) /\ p # <<>> /\ Head(p) = halve(l)
        /\ ToSet(p) = {halve(l), rest(r)} /\ ToSet(Tail(p)) = {rest(r)}
    <3>1. \A x, y \in Goals :
             /\ <<x, y>> \in Seq(Goals) /\ <<x, y>> # <<>> /\ Head(<<x, y>>) = x
             /\ ToSet(<<x, y>>) = {x, y} /\ ToSet(Tail(<<x, y>>)) = {y}
      <4> TAKE x, y \in Goals
      <4>1. <<x, y>> \in Seq(Goals) /\ <<x, y>> # <<>> /\ Head(<<x, y>>) = x
        OBVIOUS
      <4>2. ToSet(<<x, y>>) = {x, y} /\ ToSet(Tail(<<x, y>>)) = {y}
        BY DEF ToSet
      <4> QED
        BY <4>1, <4>2, Zenon
    <3> QED
      BY <2>2, <3>1, Zenon
  <2> HIDE DEF p
  <2>4. /\ goals' \in Seq(Goals) /\ Head(goals') = halve(l)
        /\ ToSet(goals') = {halve(l), rest(r)} \cup ToSet(later)
        /\ ToSet(Tail(goals')) = {rest(r)} \cup ToSet(later)
    <3>1. later \in Seq(Goals)
      BY <1>3
    <3>2. /\ p \o later \in Seq(Goals) /\ Head(p \o later) = Head(p)
          /\ ToSet(p \o later) = ToSet(p) \cup ToSet(later)
          /\ ToSet(Tail(p \o later)) = ToSet(Tail(p)) \cup ToSet(later)
      BY <2>3, <3>1, Before
    <3> QED
      BY <2>1, <2>3, <3>2
  <2>5. Candidates(goals') = ToSet(l) \cup ToSet(r) \cup Candidates(later)
    BY <2>2, <2>4 DEF Candidates
  <2> QED
    BY <1>1, <1>2, <1>5, <1>6, <1>8, <1>9, <1>11, <2>1, <2>2, <2>4, <2>5
<1>12. CASE purpose = "right" /\ ~red
  <2>1. knownGood' = knownGood \o cands /\ goals' = later
    BY <1>12 DEF Learn
  <2> HIDE DEF later, cands
  <2> QED
    BY <1>3, <1>6, <1>7, <1>8, <1>9, <1>12, <2>1
<1>13. CASE purpose = "right" /\ red
  <2> DEFINE p == <<halve(cands)>>
  <2>1. knownGood' = knownGood /\ goals' = p \o later
    BY <1>13 DEF Learn
  <2> HIDE DEF cands
  <2>2. halve(cands) \in Goals /\ halve(cands).cands = cands
    BY <1>4 DEF Goals
  <2> HIDE DEF later, halve, rest
  <2>3. /\ p \in Seq(Goals) /\ p # <<>> /\ Head(p) = halve(cands)
        /\ ToSet(p) = {halve(cands)} /\ ToSet(Tail(p)) = {}
    BY <2>2, Single
  <2> HIDE DEF p
  <2>4. /\ goals' \in Seq(Goals) /\ Head(goals') = halve(cands)
        /\ ToSet(goals') = {halve(cands)} \cup ToSet(later) /\ ToSet(Tail(goals')) = ToSet(later)
    <3>1. later \in Seq(Goals)
      BY <1>3
    <3>2. /\ p \o later \in Seq(Goals) /\ Head(p \o later) = Head(p)
          /\ ToSet(p \o later) = ToSet(p) \cup ToSet(later)
          /\ ToSet(Tail(p \o later)) = ToSet(Tail(p)) \cup ToSet(later)
      BY <2>3, <3>1, Before
    <3> QED
      BY <2>1, <2>3, <3>2
  <2>5. Candidates(goals') = ToSet(cands) \cup Candidates(later)
    BY <2>2, <2>4 DEF Candidates
  <2> QED
    BY <1>1, <1>2, <1>6, <1>8, <1>9, <1>13, <2>1, <2>2, <2>4, <2>5
<1> QED
  BY <1>10, <1>11, <1>12, <1>13

(* The bisect's lists stay lists of sinks.                                  *)
LEMMA StepSortShape ==
    ASSUME Shape, Standings, Asked, Sorted, Next
    PROVE  SortShape'
<1> USE StepRigid DEF Shape, SortShape, Inside, OnStack, bisection
<1>1. CASE RetryRed
  <2> DEFINE g == [job |-> "halve", cands |-> Sinks]
  <2>1. Sinks \in Seq(Sunk) /\ Sinks # <<>>
    <3>1. Gate # <<>>
      BY <1>1 DEF RetryRed, Asked, ToSet
    <3> QED
      BY <3>1, Lists
  <2>2. knownGood' = knownGood /\ (culprits' = culprits \/ culprits' = Sunk)
    BY <1>1 DEF RetryRed, Sunk
  <2>3. goals' = goals \/ goals' = <<g>>
    BY <1>1 DEF RetryRed
  <2>4. g \in Goals
    BY <2>1 DEF Goals
  <2>5. <<g>> \in Seq(Goals)
    BY <2>4, Single
  <2> HIDE DEF g
  <2> QED
    BY <2>2, <2>3, <2>5
<1>2. CASE Blame
  <2>1. Head(goals) \in Goals /\ Tail(goals) \in Seq(Goals)
    BY <1>2 DEF Blame
  <2>2. ToSet(Head(goals).cands) \subseteq Sunk
    BY <2>1 DEF Goals, ToSet
  <2> QED
    BY <1>2, <2>1, <2>2 DEF Blame
<1>3. CASE ProbeDone
  <2>1. CASE UNCHANGED <<goals, knownGood>>
    BY <1>3, <2>1 DEF ProbeDone
  <2>2. CASE purpose # "recheck" /\ Learn(Here.red)
    <3>1. at = "probed" /\ purpose \in {"left", "right"} /\ Here.red \in BOOLEAN
      BY <1>3, <2>2, StackInUse DEF ProbeDone, Standings, WayShape
    <3> QED
      BY <1>3, <2>2, <3>1, Learnt DEF ProbeDone
  <2> QED
    BY <1>3, <2>1, <2>2 DEF ProbeDone
<1>4. CASE Others
  BY <1>4, OthersMove
<1>5. CASE RefuseUnrunnableGates \/ ReadClosed \/ ResolveRefs \/ OpenStack \/ MergeNext \/
          MergesDone \/ Provision \/ RunGate \/ GateGreen \/ RetryGreen \/ RunLandGate \/
          Publish \/ Probe \/ Recheck \/ (\E k \in DOMAIN stack : DisposeStack(k)) \/ (\E n
          \in Node : Pin(n)) \/ End
  BY <1>5 DEF RefuseUnrunnableGates, ReadClosed, ResolveRefs, OpenStack, MergeNext,
     MergesDone, Provision, RunGate, GateGreen, RetryGreen, RunLandGate, Publish, Probe,
     Recheck, DisposeStack, Pin, End
<1> QED
  BY <1>1, <1>2, <1>3, <1>4, <1>5
  DEF Next, Step, Others

(* A stack worked on stays where it was, and the other is not touched.      *)
LEMMA InPlace ==
    ASSUME Shape, Standings, at \in {"merge", "provision", "gate", "retry", "asks"}, purpose' = purpose,
           NEW r, r.worktree = Here.worktree, HereBecomes(r)
    PROVE  /\ Kind' = Kind /\ Here' = r /\ Live(Kind)
           /\ purpose # "land" => stack'["land"] = stack["land"]
           /\ purpose = "land" => stack'["probe"] = stack["probe"] /\ stack'["land"] = r
           /\ \A k \in {"land", "probe"} : stack'[k].worktree = stack[k].worktree
<1>1. Kind \in {"land", "probe"} /\ Kind' = Kind /\ Live(Kind)
  BY StackInUse DEF Kind
<1>2. stack' = [stack EXCEPT ![Kind] = r] /\ DOMAIN stack = {"land", "probe"}
  BY DEF HereBecomes, Shape, StackShape
<1> QED
  BY <1>1, <1>2 DEF Here, Kind

(* A merge is made, left out as a conflict, or ends the landing.            *)
LEMMA MergeNextDoes ==
    ASSUME MergeNext
    PROVE  /\ at = "merge" /\ Here.todo # <<>> /\ OnStack /\ UNCHANGED <<retried, flakes>>
           /\ \/ at' = "unwind" /\ raised'.kind \in {"catastrophic", "refused"} /\ stack' = stack
              \/ /\ at' = "merge" /\ raised' = raised
                 /\ HereBecomes(Conflicted)
              \/ /\ at' = "merge" /\ raised' = raised /\ CommitOf(Head(Here.todo)) # None
                 /\ HereBecomes(Merged)
  BY DEF MergeNext, Goto, Raise, Throw, Conflicted, Merged

(* A setup goes, or blocks the landing.                                     *)
LEMMA ProvisionDoes ==
    ASSUME Provision
    PROVE  /\ at = "provision" /\ OnStack /\ UNCHANGED <<retried, flakes>>
           /\ \/ at' = "unwind" /\ raised'.kind = "blocked" /\ stack' = stack
              \/ at' = "gate" /\ raised' = raised /\ stack' = stack
              \/ /\ at' = "provision" /\ raised' = raised
                 /\ Here.setups # <<>> /\ HereBecomes(Prepared)
  BY DEF Provision, Goto, Raise, Throw, Prepared

(* A smoke passes, fails to be retried, or ends the probe.                  *)
LEMMA RunGateDoes ==
    ASSUME RunGate
    PROVE  /\ at = "gate" /\ Here.gate # <<>> /\ OnStack /\ raised' = raised
           /\ \/ /\ at' = "gate" /\ retried' = retried /\ Answers(Head(Here.gate), FALSE)
                 /\ HereBecomes(Passed)
              \/ /\ at' = "retry" /\ purpose = "land" /\ retried' = Head(Here.gate)
                 /\ Answers(Head(Here.gate), TRUE) /\ stack' = stack
              \/ /\ at' = "probed" /\ purpose # "land" /\ retried' = retried
                 /\ Answers(Head(Here.gate), TRUE) /\ HereBecomes(Failed)
  BY DEF RunGate, Goto, Passed, Failed

(* The retry passes.                                                        *)
LEMMA RetryGreenDoes ==
    ASSUME RetryGreen
    PROVE  /\ at = "retry" /\ at' = "asks" /\ OnStack /\ UNCHANGED <<retried, raised>>
           /\ Answers(retried, FALSE) /\ HereBecomes(Retried)
  BY DEF RetryGreen, Goto, Retried

(* A gate of the operator's passes, or blocks the landing.                  *)
LEMMA RunLandGateDoes ==
    ASSUME RunLandGate
    PROVE  /\ at = "asks" /\ Here.asks # <<>> /\ OnStack /\ UNCHANGED retried
           /\ \/ /\ at' = "asks" /\ raised' = raised /\ Answers(Head(Here.asks), FALSE)
                 /\ HereBecomes(Granted)
              \/ /\ at' = "unwind" /\ raised' = [kind |-> "blocked"] /\ stack' = stack
                 /\ Answers(Head(Here.asks), TRUE)
  BY Zenon DEF RunLandGate, Goto, Raise, Throw, Granted

(* Every step leaves the stacks where its way on needs them.                *)
LEMMA StepStandings ==
    ASSUME Shape, Standings, Next
    PROVE  Standings'
<1> USE DEF Shape, StackShape, WayShape, Standings, Standing, Live, Bare, Goto, Raise, Throw,
        Inside, OnStack, trees
<1>1. CASE RefuseUnrunnableGates \/ ReadClosed
  BY <1>1 DEF RefuseUnrunnableGates, ReadClosed
<1>2. CASE ResolveRefs
  BY <1>2 DEF ResolveRefs
<1>3. CASE OpenStack
  BY <1>3 DEF OpenStack, Kind, HereBecomes
<1>4. CASE MergeNext
  <2>1. /\ at \in {"merge", "provision", "gate", "retry", "asks"} /\ OnStack /\ purpose' = purpose
        /\ worktrees' = worktrees
    BY <1>4, MergeNextDoes
  <2>2. Conflicted.worktree = Here.worktree
    BY <2>1, StackInUse DEF Stacks, Conflicted
  <2>3. Merged.worktree = Here.worktree
    BY <2>1, StackInUse DEF Stacks, Merged
  <2>4. stack' = stack \/ HereBecomes(Conflicted) \/ HereBecomes(Merged)
    BY <1>4, MergeNextDoes
  <2>5. \A k \in {"land", "probe"} : stack'[k].worktree = stack[k].worktree
    BY <2>1, <2>2, <2>3, <2>4, InPlace
  <2> QED
    BY <1>4, <2>1, <2>5, MergeNextDoes
<1>5. CASE MergesDone
  BY <1>5 DEF MergesDone
<1>6. CASE Provision
  <2>1. /\ at \in {"merge", "provision", "gate", "retry", "asks"} /\ OnStack /\ purpose' = purpose
        /\ worktrees' = worktrees
    BY <1>6, ProvisionDoes
  <2>2. Prepared.worktree = Here.worktree
    BY <2>1, StackInUse DEF Stacks, Prepared
  <2>3. stack' = stack \/ HereBecomes(Prepared)
    BY <1>6, ProvisionDoes
  <2>4. \A k \in {"land", "probe"} : stack'[k].worktree = stack[k].worktree
    BY <2>1, <2>2, <2>3, InPlace
  <2> QED
    BY <1>6, <2>1, <2>4, ProvisionDoes
<1>7. CASE RunGate
  <2>1. /\ at \in {"merge", "provision", "gate", "retry", "asks"} /\ OnStack /\ purpose' = purpose
        /\ worktrees' = worktrees
    BY <1>7, RunGateDoes
  <2>2. Passed.worktree = Here.worktree
    BY <2>1, StackInUse DEF Stacks, Passed
  <2>3. Failed.worktree = Here.worktree
    BY <2>1, StackInUse DEF Stacks, Failed
  <2>4. stack' = stack \/ HereBecomes(Passed) \/ HereBecomes(Failed)
    BY <1>7, RunGateDoes
  <2>5. \A k \in {"land", "probe"} : stack'[k].worktree = stack[k].worktree
    BY <2>1, <2>2, <2>3, <2>4, InPlace
  <2> QED
    BY <1>7, <2>1, <2>5, RunGateDoes
<1>8. CASE GateGreen
  BY <1>8 DEF GateGreen
<1>9. CASE RetryGreen
  <2>1. /\ at \in {"merge", "provision", "gate", "retry", "asks"} /\ OnStack /\ purpose' = purpose
        /\ worktrees' = worktrees
    BY <1>9, RetryGreenDoes
  <2>2. Retried.worktree = Here.worktree
    BY <2>1, StackInUse DEF Stacks, Retried
  <2>3. stack' = stack \/ HereBecomes(Retried)
    BY <1>9, RetryGreenDoes
  <2>4. \A k \in {"land", "probe"} : stack'[k].worktree = stack[k].worktree
    BY <2>1, <2>2, <2>3, InPlace
  <2> QED
    BY <1>9, <2>1, <2>4, RetryGreenDoes
<1>10. CASE RetryRed
  BY <1>10 DEF RetryRed
<1>11. CASE RunLandGate
  <2>1. /\ at \in {"merge", "provision", "gate", "retry", "asks"} /\ OnStack /\ purpose' = purpose
        /\ worktrees' = worktrees
    BY <1>11, RunLandGateDoes
  <2>2. Granted.worktree = Here.worktree
    BY <2>1, StackInUse DEF Stacks, Granted
  <2>3. stack' = stack \/ HereBecomes(Granted)
    BY <1>11, RunLandGateDoes
  <2>4. \A k \in {"land", "probe"} : stack'[k].worktree = stack[k].worktree
    BY <2>1, <2>2, <2>3, InPlace
  <2> QED
    BY <1>11, <2>1, <2>4, RunLandGateDoes
<1>12. CASE Publish
  BY <1>12 DEF Publish
<1>13. CASE Blame
  BY <1>13 DEF Blame
<1>14. CASE Probe
  BY <1>14 DEF Probe
<1>15. CASE Recheck
  BY <1>15 DEF Recheck
<1>16. CASE ProbeDone
  <2>1. stack["land"].worktree = "live" /\ stack["probe"].worktree = "live" /\ worktrees = 2
    BY <1>16 DEF ProbeDone
  <2>2. CASE /\ Dispose("probe") /\ at' \in {"bisect", "unwind"} /\ purpose' = "land"
             /\ (at' = "bisect" => raised' = raised)
    <3>1. stack'["probe"] = NoStack /\ stack'["land"] = stack["land"] /\ worktrees' = 1
      BY <2>1, <2>2 DEF Dispose
    <3> QED
      BY <1>16, <2>1, <2>2, <3>1 DEF ProbeDone, NoStack
  <2>3. CASE LoseStack("probe") /\ at' = "unwind" /\ raised'.kind = "catastrophic"
    <3>1. stack'["probe"].worktree = "lost" /\ stack'["land"] = stack["land"] /\ worktrees' = 2
      BY <2>1, <2>3 DEF LoseStack
    <3> QED
      BY <1>16, <2>1, <2>3, <3>1 DEF ProbeDone
  <2> QED
    BY <1>16, <2>2, <2>3 DEF ProbeDone
<1>17. CASE \E k \in DOMAIN stack : DisposeStack(k)
  <2>1. PICK k \in {"land", "probe"} : DisposeStack(k)
    BY <1>17
  <2>2. at = "unwind" /\ stack[k].worktree = "live" /\ purpose' = purpose /\ at' = "unwind"
    BY <2>1 DEF DisposeStack
  <2>3. CASE Dispose(k) /\ raised' = raised
    <3>1. /\ stack'[k] = NoStack /\ worktrees' = worktrees - 1
          /\ \A j \in {"land", "probe"} \ {k} : stack'[j] = stack[j]
      BY <2>3 DEF Dispose
    <3> QED
      BY <2>2, <2>3, <3>1 DEF NoStack
  <2>4. CASE LoseStack(k) /\ raised'.kind = "catastrophic"
    <3>1. /\ stack'[k].worktree = "lost" /\ worktrees' = worktrees
          /\ \A j \in {"land", "probe"} \ {k} : stack'[j] = stack[j]
      BY <2>4 DEF LoseStack
    <3> QED
      BY <2>2, <2>4, <3>1
  <2> QED
    BY <2>1, <2>3, <2>4 DEF DisposeStack
<1>18. CASE \E n \in Node : Pin(n)
  BY <1>18 DEF Pin
<1>19. CASE End
  BY <1>19 DEF End, Disposed
<1>20. CASE Others
  BY <1>20, OthersMove
<1> QED
  BY <1>1, <1>2, <1>3, <1>4, <1>5, <1>6, <1>7, <1>8, <1>9, <1>10, <1>11, <1>12, <1>13, <1>14,
     <1>15, <1>16, <1>17, <1>18, <1>19, <1>20
  DEF Next, Step, Others

(* A pin leaves a conflict, or its failure replaces it.                     *)
LEMMA PinDoes ==
    ASSUME Shape, \E n \in Node : Pin(n)
    PROVE  /\ at = "unwind" /\ at' = "unwind" /\ raised'.kind \in {"conflict", "catastrophic"}
           /\ UNCHANGED <<landing, repo, bySha, purpose, trees, retried, bisection, flakes, published>>
<1>1. PICK n \in Node : Pin(n)
  OBVIOUS
<1>2. raised \in [kind : {"conflict"}, stack : Trees, sinks : SUBSET Node]
  BY <1>1 DEF Pin, Shape, RaisedShape, Ways
<1>3. [raised EXCEPT !.sinks = @ \ {n}].kind = "conflict"
  BY <1>2
<1>4. raised' = [raised EXCEPT !.sinks = @ \ {n}] \/ raised' = [kind |-> "catastrophic"]
  BY <1>1 DEF Pin, Throw, Raise
<1>5. raised'.kind \in {"conflict", "catastrophic"}
  <2>1. CASE raised' = [raised EXCEPT !.sinks = @ \ {n}]
    BY <1>3, <2>1, Zenon
  <2>2. CASE raised' = [kind |-> "catastrophic"]
    BY <2>2
  <2> QED
    BY <1>4, <2>1, <2>2
<1> QED
  BY <1>1, <1>5 DEF Pin, Throw, Raise

(* What is green on the stack, and what is left to ask, is every gate.       *)
LEMMA StepAsked ==
    ASSUME Shape, Standings, Asked, Judged, Next
    PROVE  Asked'
<1> USE StepRigid DEF Asked, PublishedPassedTheGates, Live, OnStack, Inside, trees
<1>1. CASE OpenStack
  <2> DEFINE r == [worktree |-> "live", tree |-> tip[head], todo |-> Stacked, conflicts |-> {},
                   setups |-> IF purpose = "land" /\ Gate = <<>> /\ landing.gates = <<>> THEN <<>>
                              ELSE SetupsFor(Stacked),
                   gate |-> Gate, asks |-> landing.gates, green |-> {}, red |-> FALSE]
  <2>1. CASE at' = "unwind"
    <3>1. raised'.kind # "landed"
      BY <1>1, <2>1 DEF OpenStack, Goto, Raise, Throw
    <3> QED
      BY <2>1, <3>1
  <2>2. CASE at' = "merge" /\ HereBecomes(r)
    <3>1. r.asks = landing.gates /\ r.gate = Gate
      OBVIOUS
    <3> HIDE DEF r
    <3>2. /\ DOMAIN stack = {"land", "probe"} /\ (purpose = "land" => Kind = "land")
          /\ (purpose # "land" => Kind = "probe")
      BY DEF Shape, StackShape, Kind
    <3>3. /\ purpose = "land" => stack'["land"] = r
          /\ purpose # "land" => stack'["land"] = stack["land"]
      BY <2>2, <3>2 DEF HereBecomes
    <3>4. at = "build" /\ UNCHANGED <<landing, purpose, retried, published, raised>>
      BY <1>1, <2>2 DEF OpenStack, Goto, Raise, Throw
    <3> QED
      BY <2>2, <3>1, <3>3, <3>4 DEF Standings
  <2> QED
    BY <1>1, <2>1, <2>2 DEF OpenStack, Goto, Raise, Throw
<1>2. CASE MergeNext
  <2>1. CASE at' = "unwind"
    BY <1>2, <2>1, MergeNextDoes
  <2>2. CASE at' = "merge" /\ HereBecomes(Conflicted)
    <3> DEFINE r == Conflicted
    <3>1. at \in {"merge", "provision", "gate", "retry", "asks"} /\ purpose' = purpose
      BY <1>2, MergeNextDoes
    <3>2. /\ r.worktree = Here.worktree /\ r.green = Here.green /\ r.gate = Here.gate
          /\ r.asks = Here.asks
      BY <3>1, StackInUse DEF Stacks, Conflicted
    <3>3. HereBecomes(r)
      BY <2>2
    <3> HIDE DEF r
    <3>4. /\ Here = stack[Kind] /\ Here' = r
          /\ purpose # "land" => stack'["land"] = stack["land"]
          /\ purpose = "land" => stack'["land"] = r /\ Here = stack["land"]
          /\ \A k \in {"land", "probe"} : stack'[k].worktree = stack[k].worktree
      BY <3>1, <3>2, <3>3, InPlace DEF Here, Kind
    <3> QED
      BY <1>2, <2>2, <3>2, <3>4, MergeNextDoes
  <2>3. CASE at' = "merge" /\ HereBecomes(Merged)
    <3> DEFINE r == Merged
    <3>1. at \in {"merge", "provision", "gate", "retry", "asks"} /\ purpose' = purpose
      BY <1>2, MergeNextDoes
    <3>2. /\ r.worktree = Here.worktree /\ r.green = Here.green /\ r.gate = Here.gate
          /\ r.asks = Here.asks
      BY <3>1, StackInUse DEF Stacks, Merged
    <3>3. HereBecomes(r)
      BY <2>3
    <3> HIDE DEF r
    <3>4. /\ Here = stack[Kind] /\ Here' = r
          /\ purpose # "land" => stack'["land"] = stack["land"]
          /\ purpose = "land" => stack'["land"] = r /\ Here = stack["land"]
          /\ \A k \in {"land", "probe"} : stack'[k].worktree = stack[k].worktree
      BY <3>1, <3>2, <3>3, InPlace DEF Here, Kind
    <3> QED
      BY <1>2, <2>3, <3>2, <3>4, MergeNextDoes
  <2> QED
    BY <1>2, <2>1, <2>2, <2>3, MergeNextDoes
<1>3. CASE Provision
  <2>1. CASE at' = "unwind"
    BY <1>3, <2>1, ProvisionDoes
  <2>2. CASE at' = "gate" /\ stack' = stack
    BY <1>3, <2>2, ProvisionDoes
  <2>3. CASE at' = "provision" /\ HereBecomes(Prepared)
    <3> DEFINE r == Prepared
    <3>1. at \in {"merge", "provision", "gate", "retry", "asks"} /\ purpose' = purpose
      BY <1>3, ProvisionDoes
    <3>2. /\ r.worktree = Here.worktree /\ r.green = Here.green /\ r.gate = Here.gate
          /\ r.asks = Here.asks
      BY <3>1, StackInUse DEF Stacks, Prepared
    <3>3. HereBecomes(r)
      BY <2>3
    <3> HIDE DEF r
    <3>4. /\ Here = stack[Kind] /\ Here' = r
          /\ purpose # "land" => stack'["land"] = stack["land"]
          /\ purpose = "land" => stack'["land"] = r /\ Here = stack["land"]
          /\ \A k \in {"land", "probe"} : stack'[k].worktree = stack[k].worktree
      BY <3>1, <3>2, <3>3, InPlace DEF Here, Kind
    <3> QED
      BY <1>3, <2>3, <3>2, <3>4, ProvisionDoes
  <2> QED
    BY <1>3, <2>1, <2>2, <2>3, ProvisionDoes
<1>4. CASE RunGate
  <2>1. CASE at' = "gate" /\ HereBecomes(Passed)
    <3> DEFINE r == Passed
    <3>1. at \in {"merge", "provision", "gate", "retry", "asks"} /\ purpose' = purpose
      BY <1>4, RunGateDoes
    <3>2. /\ r.worktree = Here.worktree /\ r.green = Here.green \cup {Head(Here.gate)}
          /\ r.gate = Tail(Here.gate) /\ r.asks = Here.asks
      BY <3>1, StackInUse DEF Stacks, Passed
    <3>3. HereBecomes(r)
      BY <2>1
    <3> HIDE DEF r
    <3>4. /\ Here = stack[Kind] /\ Here' = r
          /\ purpose # "land" => stack'["land"] = stack["land"]
          /\ purpose = "land" => stack'["land"] = r /\ Here = stack["land"]
          /\ \A k \in {"land", "probe"} : stack'[k].worktree = stack[k].worktree
      BY <3>1, <3>2, <3>3, InPlace DEF Here, Kind
    <3>5. ToSet(Here.gate) = {Head(Here.gate)} \cup ToSet(Tail(Here.gate))
      BY <1>4, <3>1, StackInUse, ToSetTail, RunGateDoes
    <3> QED
      BY <1>4, <2>1, <3>2, <3>4, <3>5, RunGateDoes
  <2>2. CASE at' = "retry" /\ stack' = stack /\ retried' = Head(Here.gate) /\ purpose = "land"
    <3>1. at = "gate" /\ Here.gate # <<>> /\ Here.gate \in Seq(Command)
      BY <1>4, StackInUse, RunGateDoes
    <3>2. Head(Here.gate) \in ToSet(Here.gate)
      BY <3>1, ToSetTail
    <3>3. Head(Here.gate) \in ToSet(Gate) /\ None \notin ToSet(Gate)
      BY <3>1, <3>2, Lists DEF Shape, Judged
    <3> QED
      BY <1>4, <2>2, <3>3, RunGateDoes
  <2>3. CASE at' = "probed" /\ HereBecomes(Failed)
    <3> DEFINE r == Failed
    <3>1. at \in {"merge", "provision", "gate", "retry", "asks"} /\ purpose' = purpose
      BY <1>4, RunGateDoes
    <3>2. /\ r.worktree = Here.worktree /\ r.green = Here.green /\ r.gate = Here.gate
          /\ r.asks = Here.asks
      BY <3>1, StackInUse DEF Stacks, Failed
    <3>3. HereBecomes(r)
      BY <2>3
    <3> HIDE DEF r
    <3>4. /\ Here = stack[Kind] /\ Here' = r
          /\ purpose # "land" => stack'["land"] = stack["land"]
          /\ purpose = "land" => stack'["land"] = r /\ Here = stack["land"]
          /\ \A k \in {"land", "probe"} : stack'[k].worktree = stack[k].worktree
      BY <3>1, <3>2, <3>3, InPlace DEF Here, Kind
    <3> QED
      BY <1>4, <2>3, <3>2, <3>4, RunGateDoes
  <2> QED
    BY <1>4, <2>1, <2>2, <2>3, RunGateDoes
<1>5. CASE GateGreen
  <2>1. /\ at = "gate" /\ Here.gate = <<>> /\ at' = (IF purpose = "land" THEN "asks" ELSE "probed")
        /\ UNCHANGED <<landing, purpose, stack, retried, raised, published>>
    BY <1>5 DEF GateGreen, Goto
  <2>2. ToSet(Here.gate) = {}
    BY <2>1 DEF ToSet
  <2> QED
    BY <2>1, <2>2 DEF Here, Kind
<1>6. CASE RetryGreen
  <2>1. CASE HereBecomes(Retried)
    <3> DEFINE r == Retried
    <3>1. at \in {"merge", "provision", "gate", "retry", "asks"} /\ purpose' = purpose
      BY <1>6, RetryGreenDoes
    <3>2. /\ r.worktree = Here.worktree /\ r.green = Here.green \cup {retried}
          /\ r.gate = Here.gate /\ r.asks = Here.asks
      BY <3>1, StackInUse DEF Stacks, Retried
    <3>3. HereBecomes(r)
      BY <2>1
    <3> HIDE DEF r
    <3>4. /\ Here = stack[Kind] /\ Here' = r
          /\ purpose # "land" => stack'["land"] = stack["land"]
          /\ purpose = "land" => stack'["land"] = r /\ Here = stack["land"]
          /\ \A k \in {"land", "probe"} : stack'[k].worktree = stack[k].worktree
      BY <3>1, <3>2, <3>3, InPlace DEF Here, Kind
    <3> QED
      BY <1>6, <2>1, <3>2, <3>4, RetryGreenDoes
  <2> QED
    BY <1>6, <2>1, RetryGreenDoes
<1>7. CASE RetryRed
  BY <1>7 DEF RetryRed, Goto, Raise, Throw
<1>8. CASE RunLandGate
  <2>1. CASE at' = "unwind"
    BY <1>8, <2>1, RunLandGateDoes
  <2>2. CASE at' = "asks" /\ HereBecomes(Granted)
    <3> DEFINE r == Granted
    <3>1. at \in {"merge", "provision", "gate", "retry", "asks"} /\ purpose' = purpose
      BY <1>8, RunLandGateDoes
    <3>2. /\ r.worktree = Here.worktree /\ r.green = Here.green \cup {Head(Here.asks)}
          /\ r.gate = Here.gate /\ r.asks = Tail(Here.asks)
      BY <3>1, StackInUse DEF Stacks, Granted
    <3>3. HereBecomes(r)
      BY <2>2
    <3> HIDE DEF r
    <3>4. /\ Here = stack[Kind] /\ Here' = r
          /\ purpose # "land" => stack'["land"] = stack["land"]
          /\ purpose = "land" => stack'["land"] = r /\ Here = stack["land"]
          /\ \A k \in {"land", "probe"} : stack'[k].worktree = stack[k].worktree
      BY <3>1, <3>2, <3>3, InPlace DEF Here, Kind
    <3>5. ToSet(Here.asks) = {Head(Here.asks)} \cup ToSet(Tail(Here.asks))
      BY <1>8, <3>1, StackInUse, ToSetTail, RunLandGateDoes
    <3> QED
      BY <1>8, <2>2, <3>2, <3>4, <3>5, RunLandGateDoes
  <2> QED
    BY <1>8, <2>1, <2>2, RunLandGateDoes
<1>9. CASE Publish
  <2>1. /\ /\ at = "asks" /\ Here.asks = <<>> /\ at' = "unwind"
        /\ UNCHANGED <<landing, retried, stack>>
        /\ raised'.kind = "landed" => published' = Here
    BY <1>9 DEF Publish, Raise, Throw
  <2>2. ToSet(Here.asks) = {} /\ Here = stack["land"]
    BY <2>1 DEF ToSet, Here, Kind, Standings
  <2> QED
    BY <2>1, <2>2 DEF Standings
<1>10. CASE ProbeDone
  <2>1. CASE at' = "unwind"
    <3>1. raised'.kind # "landed"
      BY <1>10, <2>1 DEF ProbeDone, Goto, Raise, Throw
    <3> QED
      BY <2>1, <3>1
  <2>2. CASE at' = "bisect"
    <3>1. stack'["land"] = stack["land"] /\ stack'["land"].worktree = "live" /\ at = "probed"
      BY <1>10, <2>2 DEF ProbeDone, Dispose, LoseStack, Goto, Raise, Throw, Shape, StackShape,
         Standings
    <3>2. UNCHANGED <<landing, retried, raised, published>>
      BY <1>10, <2>2 DEF ProbeDone, Goto, Raise, Throw
    <3> QED
      BY <2>2, <3>1, <3>2
  <2> QED
    BY <1>10, <2>1, <2>2 DEF ProbeDone, Goto, Raise, Throw
<1>11. CASE \E k \in DOMAIN stack : DisposeStack(k)
  <2>1. PICK k \in DOMAIN stack : DisposeStack(k)
    BY <1>11
  <2>2. /\ at' = "unwind" /\ UNCHANGED <<landing, retried, published>>
        /\ raised' = raised \/ raised'.kind = "catastrophic"
    BY <2>1 DEF DisposeStack, Goto, Raise, Throw
  <2> QED
    BY <2>2
<1>12. CASE \E n \in Node : Pin(n)
  BY <1>12, PinDoes
<1>13. CASE Others
  BY <1>13, OthersMove
<1>14. CASE RefuseUnrunnableGates \/ ReadClosed \/ ResolveRefs \/ MergesDone
  BY <1>14 DEF RefuseUnrunnableGates, ReadClosed, ResolveRefs, MergesDone, Standings, Bare,
     Goto, Raise, Throw
<1>15. CASE Blame \/ Probe \/ Recheck \/ End
  BY <1>15 DEF Blame, Probe, Recheck, End, Goto, Raise, Throw, Standings
<1> QED
  BY <1>1, <1>2, <1>3, <1>4, <1>5, <1>6, <1>7, <1>8, <1>9, <1>10, <1>11, <1>12, <1>13, <1>14,
     <1>15
  DEF Next, Step, Others

(* While nobody else moves, what is stacked is made of the same commits.    *)
LEMMA SameWhole ==
    ASSUME UNCHANGED <<landing, ref, bySha, purpose, goals, knownGood, culprits>>
    PROVE  /\ Stacked' = Stacked /\ Whole' = Whole /\ Kind' = Kind
           /\ Here'.todo = Here.todo => Unmerged' = Unmerged
<1>1. \A n : CommitOf(n)' = CommitOf(n)
  BY DEF CommitOf
<1>2. Sinks' = Sinks
  BY DEF Sinks
<1>3. Good' = Good
  BY <1>2 DEF Good
<1>4. Stacked' = Stacked
  BY <1>2, <1>3 DEF Stacked
<1>5. Whole' = Whole
  BY <1>1, <1>4 DEF Whole, Composition
<1>6. Kind' = Kind
  BY DEF Kind
<1>7. Here'.todo = Here.todo => Unmerged' = Unmerged
  BY <1>1 DEF Unmerged
<1> QED
  BY <1>4, <1>5, <1>6, <1>7

(* What is merged is no longer to be merged.                                *)
LEMMA MergedIsOut ==
    ASSUME UNCHANGED <<landing, ref, bySha>>, Here.todo \in Seq(Node), Here.todo # <<>>,
           Here'.todo = Tail(Here.todo)
    PROVE  Unmerged = CommitOf(Head(Here.todo)) \cup Unmerged'
<1>1. \A n : CommitOf(n)' = CommitOf(n)
  BY DEF CommitOf
<1>2. ToSet(Here.todo) = {Head(Here.todo)} \cup ToSet(Tail(Here.todo))
  BY ToSetTail
<1> QED
  BY <1>1, <1>2 DEF Unmerged

(* A stack without conflicts stays on its way to the whole of it.           *)
LEMMA StepComposed ==
    ASSUME Shape, Standings, Sorted, Composed, Next
    PROVE  Composed'
<1> USE StepRigid DEF Composed, OnStack, Inside, trees, repo, bisection
<1>1. CASE OpenStack
  <2> DEFINE r == [worktree |-> "live", tree |-> tip[head], todo |-> Stacked, conflicts |-> {},
                   setups |-> IF purpose = "land" /\ Gate = <<>> /\ landing.gates = <<>> THEN <<>>
                              ELSE SetupsFor(Stacked),
                   gate |-> Gate, asks |-> landing.gates, green |-> {}, red |-> FALSE]
  <2>1. CASE at' = "unwind"
    BY <1>1, <2>1 DEF OpenStack
  <2>2. CASE at' = "merge" /\ HereBecomes(r)
    <3>1. r.tree = tip[head] /\ r.todo = Stacked /\ r.conflicts = {}
      OBVIOUS
    <3> HIDE DEF r
    <3>2. DOMAIN stack = {"land", "probe"} /\ Kind \in {"land", "probe"}
      BY DEF Shape, StackShape, Kind
    <3>3. /\ at = "build"
          /\ UNCHANGED <<landing, ref, bySha, purpose, goals, knownGood, culprits, head, tip, moves>>
      BY <1>1 DEF OpenStack
    <3>4. Here' = r
      <4>1. Kind' = Kind
        BY <3>3 DEF Kind
      <4> QED
        BY <2>2, <3>2, <4>1 DEF HereBecomes, Here
    <3>5. Stacked' = Stacked
      BY <3>3, SameWhole
    <3>6. (landing.base \cup Unmerged = Whole)'
      BY <3>1, <3>4, <3>5 DEF Unmerged, Whole, Composition
    <3> QED
      BY <2>2, <3>1, <3>3, <3>4, <3>6
  <2> QED
    BY <1>1, <2>1, <2>2 DEF OpenStack, Goto, Raise, Throw
<1>2. CASE MergeNext
  <2>1. CASE at' = "unwind"
    BY <1>2, <2>1, MergeNextDoes
  <2>2. CASE at' = "merge" /\ HereBecomes(Conflicted)
    <3> DEFINE r == Conflicted
    <3>1. at \in {"merge", "provision", "gate", "retry", "asks"} /\ purpose' = purpose
      BY <1>2, MergeNextDoes
    <3>2. r.worktree = Here.worktree /\ r.conflicts # {}
      BY <3>1, StackInUse DEF Stacks, Conflicted
    <3>3. HereBecomes(r)
      BY <2>2
    <3> HIDE DEF r
    <3>4. /\ Here = stack[Kind] /\ Here' = r
          /\ purpose # "land" => stack'["land"] = stack["land"]
          /\ purpose = "land" => stack'["land"] = r /\ Here = stack["land"]
          /\ \A k \in {"land", "probe"} : stack'[k].worktree = stack[k].worktree
      BY <3>1, <3>2, <3>3, InPlace DEF Here, Kind
    <3> QED
      BY <1>2, <2>2, <3>2, <3>4, MergeNextDoes
  <2>3. CASE at' = "merge" /\ HereBecomes(Merged)
    <3> DEFINE r == Merged
    <3>1. at \in {"merge", "provision", "gate", "retry", "asks"} /\ purpose' = purpose
      BY <1>2, MergeNextDoes
    <3>2. /\ r.worktree = Here.worktree /\ r.todo = Tail(Here.todo)
          /\ r.conflicts = Here.conflicts /\ r.tree = Here.tree \cup CommitOf(Head(Here.todo))
      BY <3>1, StackInUse DEF Stacks, Merged
    <3>3. HereBecomes(r)
      BY <2>3
    <3> HIDE DEF r
    <3>4. /\ Here = stack[Kind] /\ Here' = r
          /\ purpose # "land" => stack'["land"] = stack["land"]
          /\ purpose = "land" => stack'["land"] = r /\ Here = stack["land"]
          /\ \A k \in {"land", "probe"} : stack'[k].worktree = stack[k].worktree
      BY <3>1, <3>2, <3>3, InPlace DEF Here, Kind
    <3>5. Whole' = Whole /\ (Here'.todo = Here.todo => Unmerged' = Unmerged)
      BY <1>2, <3>1, SameWhole, MergeNextDoes DEF repo
    <3>6. Unmerged = CommitOf(Head(Here.todo)) \cup Unmerged'
      BY <1>2, <3>1, <3>2, <3>4, StackInUse, MergedIsOut, MergeNextDoes
    <3> QED
      BY <1>2, <2>3, <3>2, <3>4, <3>5, <3>6, MergeNextDoes
  <2> QED
    BY <1>2, <2>1, <2>2, <2>3, MergeNextDoes
<1>3. CASE MergesDone
  <2>1. Whole' = Whole /\ Kind' = Kind /\ Here' = Here /\ Unmerged' = Unmerged
    BY <1>3, SameWhole DEF MergesDone, Here, Kind
  <2> QED
    BY <1>3, <2>1 DEF MergesDone, Goto, Throw
<1>4. CASE Provision
  <2>1. CASE at' = "unwind"
    BY <1>4, <2>1, ProvisionDoes
  <2>2. CASE at' = "gate" /\ stack' = stack
    <3>1. Whole' = Whole /\ Kind' = Kind /\ Here' = Here /\ Unmerged' = Unmerged
      BY <1>4, <2>2, SameWhole, ProvisionDoes DEF Here, Kind
    <3> QED
      BY <1>4, <2>2, <3>1, ProvisionDoes
  <2>3. CASE at' = "provision" /\ HereBecomes(Prepared)
    <3> DEFINE r == Prepared
    <3>1. at \in {"merge", "provision", "gate", "retry", "asks"} /\ purpose' = purpose
      BY <1>4, ProvisionDoes
    <3>2. /\ r.worktree = Here.worktree /\ r.todo = Here.todo /\ r.conflicts = Here.conflicts
          /\ r.tree = Here.tree
      BY <3>1, StackInUse DEF Stacks, Prepared
    <3>3. HereBecomes(r)
      BY <2>3
    <3> HIDE DEF r
    <3>4. /\ Here = stack[Kind] /\ Here' = r
          /\ purpose # "land" => stack'["land"] = stack["land"]
          /\ purpose = "land" => stack'["land"] = r /\ Here = stack["land"]
          /\ \A k \in {"land", "probe"} : stack'[k].worktree = stack[k].worktree
      BY <3>1, <3>2, <3>3, InPlace DEF Here, Kind
    <3>5. Whole' = Whole /\ (Here'.todo = Here.todo => Unmerged' = Unmerged)
      BY <1>4, <3>1, SameWhole, ProvisionDoes DEF repo
    <3> QED
      BY <1>4, <2>3, <3>2, <3>4, <3>5, ProvisionDoes
  <2> QED
    BY <1>4, <2>1, <2>2, <2>3, ProvisionDoes
<1>5. CASE RunGate
  <2>1. CASE at' = "gate" /\ HereBecomes(Passed)
    <3> DEFINE r == Passed
    <3>1. at \in {"merge", "provision", "gate", "retry", "asks"} /\ purpose' = purpose
      BY <1>5, RunGateDoes
    <3>2. /\ r.worktree = Here.worktree /\ r.todo = Here.todo /\ r.conflicts = Here.conflicts
          /\ r.tree = Here.tree
      BY <3>1, StackInUse DEF Stacks, Passed
    <3>3. HereBecomes(r)
      BY <2>1
    <3> HIDE DEF r
    <3>4. /\ Here = stack[Kind] /\ Here' = r
          /\ purpose # "land" => stack'["land"] = stack["land"]
          /\ purpose = "land" => stack'["land"] = r /\ Here = stack["land"]
          /\ \A k \in {"land", "probe"} : stack'[k].worktree = stack[k].worktree
      BY <3>1, <3>2, <3>3, InPlace DEF Here, Kind
    <3>5. Whole' = Whole /\ (Here'.todo = Here.todo => Unmerged' = Unmerged)
      BY <1>5, <3>1, SameWhole, RunGateDoes DEF repo
    <3> QED
      BY <1>5, <2>1, <3>2, <3>4, <3>5, RunGateDoes
  <2>2. CASE at' = "retry" /\ stack' = stack
    <3>1. Whole' = Whole /\ Kind' = Kind /\ Here' = Here /\ Unmerged' = Unmerged
      BY <1>5, <2>2, SameWhole, RunGateDoes DEF Here, Kind
    <3> QED
      BY <1>5, <2>2, <3>1, RunGateDoes
  <2>3. CASE at' = "probed" /\ HereBecomes(Failed)
    <3> DEFINE r == Failed
    <3>1. at \in {"merge", "provision", "gate", "retry", "asks"} /\ purpose' = purpose
      BY <1>5, RunGateDoes
    <3>2. /\ r.worktree = Here.worktree /\ r.todo = Here.todo /\ r.conflicts = Here.conflicts
          /\ r.tree = Here.tree
      BY <3>1, StackInUse DEF Stacks, Failed
    <3>3. HereBecomes(r)
      BY <2>3
    <3> HIDE DEF r
    <3>4. /\ Here = stack[Kind] /\ Here' = r
          /\ purpose # "land" => stack'["land"] = stack["land"]
          /\ purpose = "land" => stack'["land"] = r /\ Here = stack["land"]
          /\ \A k \in {"land", "probe"} : stack'[k].worktree = stack[k].worktree
      BY <3>1, <3>2, <3>3, InPlace DEF Here, Kind
    <3>5. Whole' = Whole /\ (Here'.todo = Here.todo => Unmerged' = Unmerged)
      BY <1>5, <3>1, SameWhole, RunGateDoes DEF repo
    <3> QED
      BY <1>5, <2>3, <3>2, <3>4, <3>5, RunGateDoes
  <2> QED
    BY <1>5, <2>1, <2>2, <2>3, RunGateDoes
<1>6. CASE GateGreen
  <2>1. Whole' = Whole /\ Kind' = Kind /\ Here' = Here /\ Unmerged' = Unmerged
    BY <1>6, SameWhole DEF GateGreen, Here, Kind
  <2> QED
    BY <1>6, <2>1 DEF GateGreen, Goto
<1>7. CASE RetryGreen
  BY <1>7, RetryGreenDoes
<1>8. CASE RetryRed
  BY <1>8 DEF RetryRed, Goto, Raise, Throw
<1>9. CASE RunLandGate
  BY <1>9, RunLandGateDoes
<1>10. CASE Publish
  BY <1>10 DEF Publish, Raise, Throw
<1>11. CASE ProbeDone
  BY <1>11 DEF ProbeDone, Goto, Raise, Throw
<1>12. CASE \E k \in DOMAIN stack : DisposeStack(k)
  BY <1>12 DEF DisposeStack, Goto, Raise, Throw
<1>13. CASE \E n \in Node : Pin(n)
  BY <1>13 DEF Pin, Raise, Throw
<1>14. CASE Others
  <2>1. Here' = Here /\ moves' # 0 /\ at' = at
    BY <1>14, OthersMove DEF Here, Kind
  <2> QED
    BY <2>1
<1>15. CASE RefuseUnrunnableGates \/ ReadClosed \/ ResolveRefs
  BY <1>15 DEF RefuseUnrunnableGates, ReadClosed, ResolveRefs, Goto, Raise, Throw
<1>16. CASE Blame \/ Probe \/ Recheck \/ End
  BY <1>16 DEF Blame, Probe, Recheck, End, Goto, Raise, Throw
<1> QED
  BY <1>1, <1>2, <1>3, <1>4, <1>5, <1>6, <1>7, <1>8, <1>9, <1>10, <1>11, <1>12, <1>13, <1>14,
     <1>15, <1>16
  DEF Next, Step, Others

(* The same tree, the same answers.                                         *)
LEMMA SameReds ==
    ASSUME landing' = landing, Gate' = Gate, Here'.tree = Here.tree
    PROVE  Reds' = Reds
  BY DEF Reds, Red

(* What the gates still to run have not said is green.                      *)
LEMMA StepJudged ==
    ASSUME Shape, Standings, Judged, Next
    PROVE  Judged'
<1> USE StepRigid DEF Judged, OnStack, Inside, trees
<1>1. CASE OpenStack
  <2> DEFINE r == [worktree |-> "live", tree |-> tip[head], todo |-> Stacked, conflicts |-> {},
                   setups |-> IF purpose = "land" /\ Gate = <<>> /\ landing.gates = <<>> THEN <<>>
                              ELSE SetupsFor(Stacked),
                   gate |-> Gate, asks |-> landing.gates, green |-> {}, red |-> FALSE]
  <2>1. CASE at' = "unwind"
    BY <1>1, <2>1 DEF OpenStack
  <2>2. CASE at' = "merge" /\ HereBecomes(r)
    <3>1. r.gate = Gate /\ r.red = FALSE
      OBVIOUS
    <3> HIDE DEF r
    <3>2. DOMAIN stack = {"land", "probe"} /\ Kind \in {"land", "probe"} /\ Kind' = Kind
      BY <1>1 DEF Shape, StackShape, Kind, OpenStack
    <3>3. Here' = r
      BY <2>2, <3>2 DEF HereBecomes, Here
    <3> QED
      BY <2>2, <3>1, <3>3
  <2> QED
    BY <1>1, <2>1, <2>2 DEF OpenStack, Goto, Raise, Throw
<1>2. CASE MergeNext
  <2>1. CASE at' = "unwind"
    BY <1>2, <2>1, MergeNextDoes
  <2>2. CASE at' = "merge" /\ HereBecomes(Conflicted)
    <3> DEFINE r == Conflicted
    <3>1. at \in {"merge", "provision", "gate", "retry", "asks"} /\ purpose' = purpose
      BY <1>2, MergeNextDoes
    <3>2. r.worktree = Here.worktree /\ r.gate = Here.gate /\ r.red = Here.red
      BY <3>1, StackInUse DEF Stacks, Conflicted
    <3>3. HereBecomes(r)
      BY <2>2
    <3> HIDE DEF r
    <3>4. /\ Here = stack[Kind] /\ Here' = r
          /\ purpose # "land" => stack'["land"] = stack["land"]
          /\ purpose = "land" => stack'["land"] = r /\ Here = stack["land"]
          /\ \A k \in {"land", "probe"} : stack'[k].worktree = stack[k].worktree
      BY <3>1, <3>2, <3>3, InPlace DEF Here, Kind
    <3> QED
      BY <1>2, <2>2, <3>2, <3>4, MergeNextDoes
  <2>3. CASE at' = "merge" /\ HereBecomes(Merged)
    <3> DEFINE r == Merged
    <3>1. at \in {"merge", "provision", "gate", "retry", "asks"} /\ purpose' = purpose
      BY <1>2, MergeNextDoes
    <3>2. r.worktree = Here.worktree /\ r.gate = Here.gate /\ r.red = Here.red
      BY <3>1, StackInUse DEF Stacks, Merged
    <3>3. HereBecomes(r)
      BY <2>3
    <3> HIDE DEF r
    <3>4. /\ Here = stack[Kind] /\ Here' = r
          /\ purpose # "land" => stack'["land"] = stack["land"]
          /\ purpose = "land" => stack'["land"] = r /\ Here = stack["land"]
          /\ \A k \in {"land", "probe"} : stack'[k].worktree = stack[k].worktree
      BY <3>1, <3>2, <3>3, InPlace DEF Here, Kind
    <3> QED
      BY <1>2, <2>3, <3>2, <3>4, MergeNextDoes
  <2> QED
    BY <1>2, <2>1, <2>2, <2>3, MergeNextDoes
<1>3. CASE MergesDone
  <2>1. Here' = Here
    BY <1>3 DEF MergesDone, Here, Kind
  <2> QED
    BY <1>3, <2>1 DEF MergesDone, Goto, Throw
<1>4. CASE Provision
  <2>1. CASE at' = "unwind"
    BY <1>4, <2>1, ProvisionDoes
  <2>2. CASE at' = "gate" /\ stack' = stack
    <3>1. Here' = Here
      BY <1>4, <2>2, ProvisionDoes DEF Here, Kind
    <3>2. Reds' \subseteq ToSet(Gate)
      BY DEF Reds
    <3> QED
      BY <1>4, <2>2, <3>1, <3>2, ProvisionDoes
  <2>3. CASE at' = "provision" /\ HereBecomes(Prepared)
    <3> DEFINE r == Prepared
    <3>1. at \in {"merge", "provision", "gate", "retry", "asks"} /\ purpose' = purpose
      BY <1>4, ProvisionDoes
    <3>2. r.worktree = Here.worktree /\ r.gate = Here.gate /\ r.red = Here.red /\ r.tree = Here.tree
      BY <3>1, StackInUse DEF Stacks, Prepared
    <3>3. HereBecomes(r)
      BY <2>3
    <3> HIDE DEF r
    <3>4. /\ Here = stack[Kind] /\ Here' = r
          /\ purpose # "land" => stack'["land"] = stack["land"]
          /\ purpose = "land" => stack'["land"] = r /\ Here = stack["land"]
          /\ \A k \in {"land", "probe"} : stack'[k].worktree = stack[k].worktree
      BY <3>1, <3>2, <3>3, InPlace DEF Here, Kind
    <3> QED
      BY <1>4, <2>3, <3>2, <3>4, ProvisionDoes
  <2> QED
    BY <1>4, <2>1, <2>2, <2>3, ProvisionDoes
<1>5. CASE RunGate
  <2>1. CASE at' = "gate" /\ Answers(Head(Here.gate), FALSE) /\ HereBecomes(Passed)
    <3> DEFINE r == Passed
    <3>1. at \in {"merge", "provision", "gate", "retry", "asks"} /\ purpose' = purpose
      BY <1>5, RunGateDoes
    <3>2. /\ r.worktree = Here.worktree /\ r.gate = Tail(Here.gate) /\ r.red = Here.red
          /\ r.tree = Here.tree
      BY <3>1, StackInUse DEF Stacks, Passed
    <3>3. HereBecomes(r)
      BY <2>1
    <3> HIDE DEF r
    <3>4. /\ Here = stack[Kind] /\ Here' = r
          /\ purpose # "land" => stack'["land"] = stack["land"]
          /\ purpose = "land" => stack'["land"] = r /\ Here = stack["land"]
          /\ \A k \in {"land", "probe"} : stack'[k].worktree = stack[k].worktree
      BY <3>1, <3>2, <3>3, InPlace DEF Here, Kind
    <3>5. Reds' = Reds
      BY <3>2, <3>4, SameReds
    <3>6. ToSet(Here.gate) = {Head(Here.gate)} \cup ToSet(Tail(Here.gate))
      BY <1>5, <3>1, StackInUse, ToSetTail, RunGateDoes
    <3>7. flakes' = 0 => flakes = 0 /\ Head(Here.gate) \notin Reds
      BY <2>1, Answered DEF Shape, WayShape, Reds
    <3> QED
      BY <1>5, <2>1, <3>2, <3>4, <3>5, <3>6, <3>7, RunGateDoes
  <2>2. CASE at' = "retry"
    BY <2>2
  <2>3. CASE at' = "probed" /\ Answers(Head(Here.gate), TRUE) /\ HereBecomes(Failed)
    <3> DEFINE r == Failed
    <3>1. at \in {"merge", "provision", "gate", "retry", "asks"} /\ purpose' = purpose
      BY <1>5, RunGateDoes
    <3>2. r.worktree = Here.worktree /\ r.red = TRUE /\ r.tree = Here.tree
      BY <3>1, StackInUse DEF Stacks, Failed
    <3>3. HereBecomes(r)
      BY <2>3
    <3> HIDE DEF r
    <3>4. /\ Here = stack[Kind] /\ Here' = r
          /\ purpose # "land" => stack'["land"] = stack["land"]
          /\ purpose = "land" => stack'["land"] = r /\ Here = stack["land"]
          /\ \A k \in {"land", "probe"} : stack'[k].worktree = stack[k].worktree
      BY <3>1, <3>2, <3>3, InPlace DEF Here, Kind
    <3>5. Reds' = Reds
      BY <3>2, <3>4, SameReds
    <3>6. ToSet(Here.gate) = {Head(Here.gate)} \cup ToSet(Tail(Here.gate))
      BY <1>5, <3>1, StackInUse, ToSetTail, RunGateDoes
    <3>7. flakes' = 0 => Head(Here.gate) \in Reds
      <4>1. Head(Here.gate) \in ToSet(Gate)
        BY <1>5, <3>6, RunGateDoes
      <4> QED
        BY <2>3, <4>1, Answered DEF Shape, WayShape, Reds
    <3> QED
      BY <1>5, <2>3, <3>2, <3>4, <3>5, <3>7, RunGateDoes
  <2> QED
    BY <1>5, <2>1, <2>2, <2>3, RunGateDoes
<1>6. CASE GateGreen
  <2>1. Here' = Here
    BY <1>6 DEF GateGreen, Here, Kind
  <2>2. Reds' = Reds
    BY <2>1, SameReds
  <2>3. ToSet(Here.gate) = {} /\ Here.red \in BOOLEAN
    BY <1>6, StackInUse DEF GateGreen, ToSet
  <2> QED
    BY <1>6, <2>1, <2>2, <2>3 DEF GateGreen, Goto
<1>7. CASE RetryGreen
  BY <1>7, RetryGreenDoes
<1>8. CASE RetryRed
  BY <1>8 DEF RetryRed, Goto, Raise, Throw
<1>9. CASE RunLandGate
  BY <1>9, RunLandGateDoes
<1>10. CASE Publish
  BY <1>10 DEF Publish, Raise, Throw
<1>11. CASE ProbeDone
  BY <1>11 DEF ProbeDone, Goto, Raise, Throw
<1>12. CASE \E n \in Node : Pin(n)
  BY <1>12, PinDoes
<1>13. CASE Others
  <2>1. Here' = Here /\ flakes' = flakes /\ at' = at
    BY <1>13, OthersMove DEF Here, Kind
  <2>2. Reds' = Reds
    BY <2>1, SameReds
  <2> QED
    BY <2>1, <2>2
<1>14. CASE RefuseUnrunnableGates \/ ReadClosed \/ ResolveRefs
  BY <1>14 DEF RefuseUnrunnableGates, ReadClosed, ResolveRefs, Goto, Raise, Throw
<1>15. CASE Blame \/ Probe \/ Recheck
  BY <1>15 DEF Blame, Probe, Recheck, Goto, Raise, Throw
<1>16. CASE (\E k \in DOMAIN stack : DisposeStack(k)) \/ End
  BY <1>16 DEF DisposeStack, End, Goto, Raise, Throw
<1> QED
  BY <1>1, <1>2, <1>3, <1>4, <1>5, <1>6, <1>7, <1>8, <1>9, <1>10, <1>11, <1>12, <1>13, <1>14,
     <1>15, <1>16
  DEF Next, Step, Others

(* No sink is lost by the bisect, and it probes what it should.             *)
LEMMA StepSorted ==
    ASSUME Shape, Standings, Asked, Sorted, Next
    PROVE  Sorted'
<1> USE StepRigid DEF Sorted, Bisecting, Inside
<1>1. CASE RetryRed
  <2> DEFINE g == [job |-> "halve", cands |-> Sinks]
  <2>1. /\ at = "retry" /\ purpose = "land" /\ purpose' = "land" /\ knownGood' = <<>>
        /\ knownGood = <<>> /\ culprits = {}
        /\ (at' = "unwind" \/ (at' = "bisect" /\ culprits' = {} /\ goals' = <<g>>))
    BY <1>1 DEF RetryRed, Standings, Goto, Raise, Throw
  <2>2. g \in {g} /\ g.cands = Sinks
    OBVIOUS
  <2> HIDE DEF g
  <2>3. ToSet(<<g>>) = {g} /\ ToSet(Tail(<<g>>)) = {} /\ ToSet(<<>>) = {}
    <3>1. ToSet(<<>>) = {}
      BY DEF ToSet
    <3> QED
      BY <2>2, <3>1, Single
  <2>4. Candidates(<<g>>) = Sunk
    BY <2>2, <2>3 DEF Candidates, Sunk
  <2> QED
    BY <2>1, <2>3, <2>4
<1>2. CASE Blame
  <2>1. /\ /\ at = "bisect" /\ at' = "bisect" /\ goals # <<>> /\ goals' = Tail(goals)
        /\ purpose' = purpose
        /\ knownGood' = knownGood /\ culprits' = culprits \cup ToSet(Head(goals).cands)
    BY <1>2 DEF Blame, Goto
  <2>2. goals \in Seq(Goals) /\ purpose = "land"
    BY <2>1 DEF Shape, SortShape, Standings
  <2>3. /\ ToSet(goals) = {Head(goals)} \cup ToSet(Tail(goals)) /\ Tail(goals) \in Seq(Goals)
        /\ Tail(goals) # <<>> => ToSet(Tail(goals)) = {Head(Tail(goals))} \cup ToSet(Tail(Tail(goals)))
    BY <2>1, <2>2, ToSetTail
  <2>4. Candidates(goals) = ToSet(Head(goals).cands) \cup Candidates(goals')
    BY <2>1, <2>3 DEF Candidates
  <2> QED
    BY <2>1, <2>2, <2>3, <2>4
<1>3. CASE Probe
  <2>1. /\ /\ at = "bisect" /\ at' = "build" /\ goals # <<>>
        /\ UNCHANGED <<goals, knownGood, culprits>>
        /\ Head(goals).job = "rest" \/ Len(Head(goals).cands) > 1
        /\ purpose' = IF Head(goals).job = "halve" THEN "left" ELSE "right"
    BY <1>3 DEF Probe, Goto, bisection
  <2>2. Head(goals) \in Goals
    BY <2>1, ToSetTail DEF Shape, SortShape
  <2>3. Head(goals).job \in {"halve", "rest"}
    BY <2>2 DEF Goals
  <2> QED
    BY <2>1, <2>3
<1>4. CASE Recheck
  <2>1. CASE at' = "unwind"
    BY <2>1
  <2>2. CASE at' = "build" /\ Good # <<>>
    <3>1. /\ at = "bisect" /\ goals = <<>> /\ UNCHANGED <<landing, goals, knownGood, culprits>>
          /\ purpose' = "recheck"
      BY <1>4, <2>2 DEF Recheck, Raise, Throw, bisection
    <3>2. Good' = Good
      BY <3>1 DEF Good
    <3> QED
      BY <2>2, <3>1, <3>2
  <2> QED
    BY <1>4, <2>1, <2>2 DEF Recheck, Goto, Raise, Throw
<1>5. CASE ProbeDone
  <2>1. CASE at' = "unwind"
    BY <2>1
  <2>2. CASE at' = "bisect" /\ Learn(Here.red)
    <3>1. at = "probed" /\ purpose \in {"left", "right"} /\ Here.red \in BOOLEAN
      BY <1>5, <2>2, StackInUse DEF ProbeDone, Standings, Shape, WayShape, Goto, Raise, Throw
    <3>2. culprits' = culprits /\ purpose' = "land"
      BY <1>5, <2>2 DEF ProbeDone, Goto, Raise, Throw
    <3>3. /\ ToSet(knownGood') \cup Candidates(goals') = ToSet(knownGood) \cup Candidates(goals)
          /\ goals' # <<>> => \A g \in ToSet(Tail(goals')) : g.job = "rest"
      BY <2>2, <3>1, Learnt
    <3> QED
      BY <2>2, <3>1, <3>2, <3>3
  <2> QED
    BY <1>5, <2>1, <2>2 DEF ProbeDone, Goto, Raise, Throw
<1>6. CASE \E n \in Node : Pin(n)
  BY <1>6, PinDoes
<1>7. CASE Others
  <2>1. UNCHANGED <<at, landing, purpose, goals, knownGood, culprits>>
    BY <1>7, OthersMove DEF bisection
  <2>2. Good' = Good
    BY <2>1 DEF Good
  <2> QED
    BY <2>1, <2>2
<1>8. CASE RefuseUnrunnableGates \/ ReadClosed \/ ResolveRefs
  BY <1>8 DEF RefuseUnrunnableGates, ReadClosed, ResolveRefs, Goto, Raise, Throw, bisection,
     Standings
<1>9. CASE OpenStack \/ MergeNext \/ MergesDone \/ Provision \/ RunGate \/ GateGreen \/
          RetryGreen \/ RunLandGate \/ Publish
  <2>1. /\ at # "bisect" /\ at' # "bisect" /\ at \notin {"unwind", "ended"}
        /\ UNCHANGED <<landing, purpose, goals, knownGood, culprits>>
    BY <1>9 DEF OpenStack, MergeNext, MergesDone, Provision, RunGate, GateGreen, RetryGreen,
       RunLandGate, Publish, OnStack, Goto, Raise, Throw, bisection
  <2>2. Good' = Good
    BY <2>1 DEF Good
  <2> QED
    BY <2>1, <2>2
<1>10. CASE (\E k \in DOMAIN stack : DisposeStack(k)) \/ End
  BY <1>10 DEF DisposeStack, End, Goto, Raise, Throw
<1> QED
  BY <1>1, <1>2, <1>3, <1>4, <1>5, <1>6, <1>7, <1>8, <1>9, <1>10
  DEF Next, Step, Others

(* A branch that moves is counted, and so is a wrong answer.                *)
LEMMA StepMoves ==
    ASSUME Shape, Standings, Asked, Next
    PROVE  (moves' = 0 => moves = 0 /\ ref' = ref) /\ (flakes' = 0 => flakes = 0)
<1> USE DEF Inside, OnStack, repo, Shape
<1>1. CASE RunGate
  <2>1. UNCHANGED <<moves, ref>>
    BY <1>1, RunGateDoes
  <2>2. PICK red \in BOOLEAN : Answers(Head(Here.gate), red)
    BY <1>1, RunGateDoes
  <2> QED
    BY <2>1, <2>2, Answered DEF WayShape
<1>2. CASE RetryGreen
  BY <1>2, Answered, RetryGreenDoes DEF WayShape
<1>3. CASE RetryRed
  BY <1>3, Answered DEF RetryRed, WayShape
<1>4. CASE RunLandGate
  <2>1. UNCHANGED <<moves, ref>>
    BY <1>4, RunLandGateDoes
  <2>2. PICK red \in BOOLEAN : Answers(Head(Here.asks), red)
    BY <1>4, RunLandGateDoes
  <2> QED
    BY <2>1, <2>2, Answered DEF WayShape
<1>5. CASE \E n \in Node : Pin(n)
  BY <1>5, PinDoes
<1>6. CASE Others
  BY <1>6, OthersMove
<1>7. CASE RefuseUnrunnableGates \/ ReadClosed \/ ResolveRefs \/ OpenStack \/ MergeNext \/
          MergesDone \/ Provision \/ GateGreen
  BY <1>7 DEF RefuseUnrunnableGates, ReadClosed, ResolveRefs, OpenStack, MergeNext,
     MergesDone, Provision, GateGreen
<1>8. CASE Publish \/ Blame \/ Probe \/ Recheck \/ ProbeDone
  BY <1>8 DEF Publish, Blame, Probe, Recheck, ProbeDone
<1>9. CASE (\E k \in DOMAIN stack : DisposeStack(k)) \/ End
  BY <1>9 DEF DisposeStack, End
<1> QED
  BY <1>1, <1>2, <1>3, <1>4, <1>5, <1>6, <1>7, <1>8, <1>9
  DEF Next, Step, Others

(* So a landing that is steady was steady, over the same branches.          *)
LEMMA StaysSteady ==
    ASSUME Shape, Standings, Asked, Next, Steady'
    PROVE  Steady /\ moves = 0 /\ flakes = 0 /\ flakes' = 0 /\ UNCHANGED <<landing, ref>>
<1>1. moves' = 0 /\ flakes' = 0
  BY DEF Steady
<1>2. moves = 0 /\ flakes = 0 /\ UNCHANGED <<landing, ref>> /\ Gate' = Gate
  BY <1>1, StepMoves, StepRigid
<1> QED
  BY <1>1, <1>2 DEF Steady

(* The same branches, the same red sets.                                    *)
LEMMA SameRedSets ==
    ASSUME UNCHANGED <<landing, ref, bySha>>
    PROVE  RedSets' = RedSets
<1>1. Sunk' = Sunk /\ Gate' = Gate
  BY Rigid
<1> QED
  BY <1>1 DEF RedSets, GateRed, Red, CommitOf

(* A steady gate stays red when more is stacked.                            *)
LEMMA MoreIsRedder ==
    ASSUME Shape, Steady, NEW ids \in RedSets, NEW more \in SUBSET Sunk, ids \subseteq more
    PROVE  more \in RedSets
<1>1. PICK i \in DOMAIN Gate : Red(Gate[i], landing.base \cup UNION {CommitOf(n) : n \in ids})
  BY DEF RedSets, GateRed
<1>2. Gate[i] \in Command /\ \A r \in landing.truth[Gate[i]] : r.lacks = {}
  BY Lists DEF Steady, Shape
<1>3. Red(Gate[i], landing.base \cup UNION {CommitOf(n) : n \in more})
  BY <1>1, <1>2 DEF Red
<1> QED
  BY <1>3 DEF RedSets, GateRed

(* The whole of a stack is red when it is a red set of sinks.               *)
LEMMA WholeIsRed ==
    ASSUME Shape, Stacked \in Seq(Sunk)
    PROVE  ToSet(Stacked) \in RedSets <=> \E c \in ToSet(Gate) : Red(c, Whole)
<1>1. ToSet(Stacked) \in SUBSET Sunk
  BY DEF ToSet
<1>2. GateRed(ToSet(Stacked)) <=> \E c \in ToSet(Gate) : Red(c, Whole)
  BY DEF GateRed, Whole, Composition, ToSet
<1> QED
  BY <1>1, <1>2 DEF RedSets

(* What a steady probe answers is so of what it stacked.                    *)
LEMMA ProbedRightly ==
    ASSUME Shape, Standings, Composed, Judged, Sorted, Steady, at \in {"retry", "probed"}
    PROVE  /\ Stacked \in Seq(Sunk) /\ Here.tree = Whole
           /\ at = "probed" => (Here.red <=> ToSet(Stacked) \in RedSets)
<1>1. Stacked \in Seq(Sunk)
  BY StackedLists
<1>2. moves = 0 /\ flakes = 0
  BY DEF Steady
<1>3. Here.todo = <<>> /\ Here.conflicts = {} /\ Here.tree \cup Unmerged = Whole
  BY <1>2 DEF Composed
<1>4. Unmerged = {}
  BY <1>3 DEF Unmerged, ToSet
<1>5. Here.tree = Whole
  BY <1>3, <1>4
<1>6. at = "probed" => (Here.red <=> \E c \in ToSet(Gate) : Red(c, Whole))
  BY <1>2, <1>5 DEF Judged, Reds
<1> QED
  BY <1>1, <1>5, <1>6, WholeIsRed

(* So is the red answer to a retry.                                         *)
LEMMA RetriedRightly ==
    ASSUME Shape, Standings, Asked, Composed, Judged, Sorted, Steady, RetryRed, flakes' = 0
    PROVE  Sunk \in RedSets
<1>1. at = "retry" /\ Answers(retried, TRUE) /\ retried \in ToSet(Gate) /\ purpose = "land"
  BY DEF RetryRed, Asked, Standings
<1>2. Red(retried, Here.tree)
  BY <1>1, Answered DEF Shape, WayShape
<1>3. Here.tree = Whole /\ Stacked \in Seq(Sunk) /\ Stacked = Sinks
  BY <1>1, ProbedRightly DEF Stacked
<1> QED
  BY <1>1, <1>2, <1>3, WholeIsRed DEF Sunk

(* What is to be sorted are sinks.                                          *)
LEMMA SinksToSort ==
    ASSUME Shape
    PROVE  /\ ToSet(knownGood) \subseteq Sunk /\ culprits \subseteq Sunk
           /\ goals # <<>> => /\ Head(goals) \in Goals /\ Head(goals).cands \in Seq(Sunk)
                              /\ ToSet(Head(goals).cands) \subseteq Sunk
<1>1. ToSet(knownGood) \subseteq Sunk /\ culprits \subseteq Sunk
  BY DEF Shape, SortShape, ToSet
<1>2. ASSUME goals # <<>>
      PROVE  /\ Head(goals) \in Goals /\ Head(goals).cands \in Seq(Sunk)
             /\ ToSet(Head(goals).cands) \subseteq Sunk
  <2>1. Head(goals) \in Goals
    BY <1>2, ToSetTail DEF Shape, SortShape
  <2>2. Head(goals).cands \in Seq(Sunk)
    BY <2>1 DEF Goals
  <2>3. \A s \in Seq(Sunk) : ToSet(s) \subseteq Sunk
    BY DEF ToSet
  <2> QED
    BY <2>1, <2>2, <2>3
<1> QED
  BY <1>1, <1>2

(* What the bisect believes stays so.                                       *)
LEMMA StepHalved ==
    ASSUME Shape, Standings, Asked, Composed, Judged, Sorted, Halved, Next, Steady'
    PROVE  Halved'
<1> USE StaysSteady DEF Halved, Bisecting, Inside
<1>1. CASE RetryRed
  <2> DEFINE g == [job |-> "halve", cands |-> Sinks]
  <2>1. /\ knownGood' = <<>> /\ bySha' = bySha
        /\ at' = "unwind" \/ (at' = "bisect" /\ culprits' = {} /\ goals' = <<g>>)
    BY <1>1 DEF RetryRed, Standings, Sorted, Goto, Raise, Throw
  <2>2. RedSets' = RedSets /\ Sunk \in RedSets
    BY <1>1, <2>1, SameRedSets, RetriedRightly
  <2>3. g \in {g} /\ g.cands = Sinks
    OBVIOUS
  <2> HIDE DEF g
  <2>4. Head(<<g>>) = g /\ ToSet(<<>>) = {}
    <3>1. ToSet(<<>>) = {}
      BY DEF ToSet
    <3> QED
      BY <2>3, <3>1, Single
  <2> QED
    BY <2>1, <2>2, <2>3, <2>4 DEF Sunk
<1>2. CASE Blame
  <2> DEFINE cands == Head(goals).cands
  <2>1. /\ at = "bisect" /\ goals # <<>> /\ goals' = Tail(goals) /\ UNCHANGED <<knownGood, bySha>>
        /\ culprits' = culprits \cup ToSet(cands)
        /\ Head(goals).job = "halve" /\ Len(cands) = 1
    BY <1>2 DEF Blame
  <2>2. RedSets' = RedSets
    BY <2>1, SameRedSets
  <2>3. cands \in Seq(Sunk)
    BY <2>1, SinksToSort
  <2>4. \A n \in ToSet(cands) : ToSet(cands) = {n}
    <3> HIDE DEF cands
    <3>1. ToSet(cands) = {cands[1]}
      BY <2>1, <2>3 DEF ToSet
    <3> QED
      BY <3>1
  <2>5. goals' # <<>> => Head(goals').job # "halve"
    <3>1. goals \in Seq(Goals) /\ Tail(goals) \in Seq(Goals)
      BY <2>1, ToSetTail DEF Shape, SortShape
    <3>2. goals' # <<>> => Head(goals') \in ToSet(Tail(goals))
      BY <2>1, <3>1, ToSetTail
    <3>3. \A x \in ToSet(Tail(goals)) : x.job = "rest"
      BY <2>1 DEF Sorted
    <3> QED
      BY <3>2, <3>3
  <2> QED
    BY <2>1, <2>2, <2>4, <2>5
<1>3. CASE ProbeDone
  <2>1. CASE at' = "unwind"
    BY <2>1
  <2>2. CASE at' = "bisect" /\ Learn(Here.red)
    <3>1. /\ at = "probed" /\ purpose \in {"left", "right"} /\ Here.red \in BOOLEAN
          /\ UNCHANGED <<bySha, culprits>>
      BY <1>3, <2>2, StackInUse DEF ProbeDone, Standings, Shape, WayShape, Goto, Raise, Throw
    <3>2. RedSets' = RedSets
      BY <3>1, SameRedSets
    <3>3. Here.red <=> ToSet(Stacked) \in RedSets
      BY <3>1, ProbedRightly
    <3>4. /\ knownGood' = knownGood \/ (~Here.red /\ knownGood' = Stacked)
          /\ knownGood' \in Seq(Sunk) /\ ToSet(knownGood) \subseteq ToSet(knownGood')
          /\ goals' # <<>> /\ Head(goals').job = "halve" =>
               LET halved == ToSet(knownGood') \cup ToSet(Head(goals').cands)
               IN \/ Here.red /\ halved = ToSet(Stacked)
                  \/ /\ Head(goals).job = "halve" /\ goals # <<>>
                     /\ halved = ToSet(knownGood) \cup ToSet(Head(goals).cands)
      BY <2>2, <3>1, Learnt
    <3>5. ToSet(knownGood') \subseteq Sunk /\ culprits \subseteq Sunk
      BY <3>4, SinksToSort DEF ToSet
    <3>6. \A n \in culprits : ToSet(knownGood') \cup {n} \in RedSets
      <4> TAKE n \in culprits
      <4>1. ToSet(knownGood) \cup {n} \in RedSets
        BY <3>1
      <4> QED
        BY <3>4, <3>5, <4>1, MoreIsRedder
    <3> QED
      BY <3>1, <3>2, <3>3, <3>4, <3>6
  <2> QED
    BY <1>3, <2>1, <2>2 DEF ProbeDone, Goto, Raise, Throw
<1>4. CASE \E n \in Node : Pin(n)
  BY <1>4, PinDoes
<1>5. CASE Others
  <2>1. UNCHANGED <<at, bySha, purpose, goals, knownGood, culprits>>
    BY <1>5, OthersMove DEF bisection
  <2>2. RedSets' = RedSets
    BY <2>1, SameRedSets
  <2> QED
    BY <2>1, <2>2
<1>6. CASE RefuseUnrunnableGates \/ ReadClosed \/ ResolveRefs
  BY <1>6 DEF RefuseUnrunnableGates, ReadClosed, ResolveRefs, Goto, Raise, Throw, Standings
<1>7. CASE OpenStack \/ MergeNext \/ MergesDone \/ Provision \/ RunGate \/ GateGreen \/
          RetryGreen \/ RunLandGate \/ Publish
  <2>1. /\ at # "bisect" /\ at' # "bisect" /\ at \notin {"unwind", "ended"}
        /\ UNCHANGED <<bySha, purpose, goals, knownGood, culprits>>
    BY <1>7 DEF OpenStack, MergeNext, MergesDone, Provision, RunGate, GateGreen, RetryGreen,
       RunLandGate, Publish, OnStack, Goto, Raise, Throw, bisection
  <2>2. RedSets' = RedSets
    BY <2>1, SameRedSets
  <2> QED
    BY <2>1, <2>2
<1>8. CASE (\E k \in DOMAIN stack : DisposeStack(k)) \/ End
  BY <1>8 DEF DisposeStack, End, Goto, Raise, Throw
<1>9. CASE Probe \/ Recheck
  <2>1. at = "bisect" /\ UNCHANGED <<bySha, goals, knownGood, culprits>>
    BY <1>9 DEF Probe, Recheck, bisection
  <2>2. RedSets' = RedSets
    BY <2>1, SameRedSets
  <2> QED
    BY <2>1, <2>2
<1> QED
  BY <1>1, <1>2, <1>3, <1>4, <1>5, <1>6, <1>7, <1>8, <1>9
  DEF Next, Step, Others

(* While steady, nothing the bisect holds good is guilty: it would make red *)
(* what is green.                                                           *)
LEMMA TheGoodAreInnocent ==
    ASSUME Halved, Steady, Bisecting
    PROVE  ToSet(knownGood) \cap culprits = {}
<1> SUFFICES ASSUME NEW n \in ToSet(knownGood), n \in culprits PROVE FALSE
  OBVIOUS
<1>1. ToSet(knownGood) \cup {n} \in RedSets /\ ToSet(knownGood) \cup {n} = ToSet(knownGood)
  BY DEF Halved
<1>2. knownGood # <<>>
  BY DEF ToSet
<1> QED
  BY <1>1, <1>2 DEF Halved

(* When the list is empty, every sink is guilty or held good.               *)
LEMMA AllSorted ==
    ASSUME Shape, Sorted, Halved, Steady, Bisecting, goals = <<>>
    PROVE  Sunk \ culprits = ToSet(knownGood)
<1>1. Candidates(goals) = {}
  BY DEF Candidates, ToSet
<1>2. Sunk = ToSet(knownGood) \cup culprits
  BY <1>1 DEF Sorted
<1> QED
  BY <1>2, TheGoodAreInnocent

(* A landing names the guilty, all of them, or is not steady.               *)
LEMMA StepConvicted ==
    ASSUME Shape, Standings, Asked, Composed, Judged, Sorted, Halved, Convicted, Next
    PROVE  Convicted'
<1> USE StepRigid DEF Convicted, Inside
<1>1. CASE RetryRed
  <2>1. CASE raised' = raised
    BY <1>1, <2>1 DEF RetryRed, Standings
  <2>2. CASE Len(Sinks) = 1 /\ culprits' = Sunk /\ raised'.kind = "culprits" /\ bySha' = bySha
    <3>1. \A n \in Sunk : Sunk = {n}
      <4>1. Sinks \in Seq(Node)
        BY Lists DEF Shape
      <4>2. Sunk = {Sinks[1]}
        BY <2>2, <4>1 DEF Sunk, ToSet
      <4> QED
        BY <4>2
    <3>2. Steady' => Sunk \in RedSets /\ RedSets' = RedSets
      BY <1>1, <2>2, StaysSteady, SameRedSets, RetriedRightly
    <3> QED
      BY <2>2, <3>1, <3>2
  <2> QED
    BY <1>1, <2>1, <2>2 DEF RetryRed, Goto, Raise, Throw, Sunk
<1>2. CASE Recheck
  <2>1. CASE raised' = raised
    BY <1>2, <2>1 DEF Recheck, Standings
  <2>2. CASE Good = <<>> /\ raised'.kind = "culprits"
    <3>1. at = "bisect" /\ goals = <<>> /\ UNCHANGED <<bySha, culprits>>
      BY <1>2 DEF Recheck, bisection
    <3>2. ToSet(Good) = {} /\ ToSet(Good) = Sunk \ culprits /\ culprits \subseteq Sunk
      BY <2>2, <3>1, StackedLists, SinksToSort DEF ToSet
    <3>3. ASSUME Steady'
          PROVE  RedSets' = RedSets /\ \A n \in culprits : {n} \in RedSets
      <4>1. Steady /\ RedSets' = RedSets /\ Bisecting
        BY <3>1, <3>3, StaysSteady, SameRedSets DEF Bisecting
      <4>2. ToSet(knownGood) = {}
        BY <3>1, <3>2, <4>1, AllSorted
      <4> QED
        BY <4>1, <4>2 DEF Halved
    <3> QED
      BY <2>2, <3>1, <3>2, <3>3
  <2> QED
    BY <1>2, <2>1, <2>2 DEF Recheck, Goto, Raise, Throw
<1>3. CASE ProbeDone
  <2>1. CASE raised' = raised
    BY <1>3, <2>1 DEF ProbeDone, Standings
  <2>2. CASE raised'.kind = "catastrophic"
    BY <2>2
  <2>3. CASE purpose = "recheck" /\ raised'.kind = (IF Here.red THEN "incoherent" ELSE "culprits")
    <3>1. at = "probed" /\ UNCHANGED <<bySha, culprits>>
      BY <1>3 DEF ProbeDone
    <3>2. ToSet(Stacked) = Sunk \ culprits /\ Stacked = Good
      BY <2>3, <3>1, StackedLists DEF Stacked
    <3>3. ASSUME Steady'
          PROVE  /\ RedSets' = RedSets /\ ~Here.red
                 /\ Sunk \ culprits \notin RedSets
                 /\ \A n \in culprits : (Sunk \ culprits) \cup {n} \in RedSets
      <4>1. Steady /\ RedSets' = RedSets /\ Bisecting
        BY <2>3, <3>1, <3>3, StaysSteady, SameRedSets DEF Bisecting
      <4>2. goals = <<>> /\ Good # <<>>
        BY <2>3, <4>1 DEF Sorted
      <4>3. Sunk \ culprits = ToSet(knownGood)
        BY <4>1, <4>2, AllSorted
      <4>4. knownGood # <<>>
        <5>1. Good \in Seq(Sunk)
          BY <3>1, StackedLists
        <5>2. Head(Good) \in ToSet(Good)
          BY <4>2, <5>1, ToSetTail
        <5> QED
          BY <3>2, <4>3, <5>2 DEF ToSet
      <4>5. /\ Sunk \ culprits \notin RedSets
            /\ \A n \in culprits : (Sunk \ culprits) \cup {n} \in RedSets
        BY <4>1, <4>3, <4>4 DEF Halved
      <4>6. Here.red <=> ToSet(Stacked) \in RedSets
        BY <3>1, <4>1, ProbedRightly
      <4> QED
        BY <3>2, <4>1, <4>5, <4>6
    <3> QED
      BY <2>3, <3>1, <3>3
  <2> QED
    BY <1>3, <2>1, <2>2, <2>3 DEF ProbeDone, Goto, Raise, Throw
<1>4. CASE \E k \in DOMAIN stack : DisposeStack(k)
  <2>1. UNCHANGED <<bySha, culprits>> /\ (raised' = raised \/ raised'.kind = "catastrophic")
    BY <1>4 DEF DisposeStack, Goto, Raise, Throw, bisection
  <2>2. Steady' => Steady /\ RedSets' = RedSets
    BY <2>1, StaysSteady, SameRedSets
  <2> QED
    BY <2>1, <2>2
<1>5. CASE \E n \in Node : Pin(n)
  BY <1>5, PinDoes
<1>6. CASE End
  <2>1. UNCHANGED <<bySha, culprits, raised>>
    BY <1>6 DEF End, Goto, bisection
  <2>2. Steady' => Steady /\ RedSets' = RedSets
    BY <2>1, StaysSteady, SameRedSets
  <2> QED
    BY <2>1, <2>2
<1>7. CASE Others
  <2>1. raised' = raised /\ moves' # 0
    BY <1>7, OthersMove
  <2> QED
    BY <2>1 DEF Steady
<1>8. CASE RefuseUnrunnableGates \/ ReadClosed \/ ResolveRefs \/ OpenStack \/ MergesDone \/
          GateGreen \/ Publish \/ Blame \/ Probe
  <2>1. /\ at \notin {"unwind", "ended"}
        /\ (raised' = raised \/ raised'.kind \notin {"culprits", "incoherent"})
    BY <1>8 DEF RefuseUnrunnableGates, ReadClosed, ResolveRefs, OpenStack, MergesDone, GateGreen,
       Publish, Blame, Probe, Goto, Raise, Throw
  <2> QED
    BY <2>1 DEF Standings
<1>9. CASE MergeNext \/ Provision \/ RunGate \/ RetryGreen \/ RunLandGate
  <2>1. at \notin {"unwind", "ended"}
    BY <1>9, MergeNextDoes, ProvisionDoes, RunGateDoes, RetryGreenDoes, RunLandGateDoes
  <2>2. CASE MergeNext \/ Provision
    BY <2>1, <2>2, MergeNextDoes, ProvisionDoes DEF Standings
  <2>3. CASE RunGate \/ RetryGreen
    BY <2>1, <2>3, RunGateDoes, RetryGreenDoes DEF Standings
  <2>4. CASE RunLandGate
    <3>1. raised' = raised \/ raised'.kind = "blocked"
      <4>1. raised' = raised \/ raised' = [kind |-> "blocked"]
        BY <2>4, RunLandGateDoes
      <4> QED
        BY <4>1
    <3> QED
      BY <2>1, <3>1 DEF Standings
  <2> QED
    BY <1>9, <2>2, <2>3, <2>4
<1> QED
  BY <1>1, <1>2, <1>3, <1>4, <1>5, <1>6, <1>7, <1>8, <1>9
  DEF Next, Step, Others

-----------------------------------------------------------------------------
(* The invariant holds                                                     *)

(* A landing begins in it.                                                  *)
LEMMA InitInvariant ==
    ASSUME Init
    PROVE  IInv
<1> USE DEF Init
<1>1. landing \in Landings /\ Command = DOMAIN landing.truth
  BY DEF Command
<1>2. landing.head \in Branch \cup {Detached} /\ landing.base \in Trees
  BY <1>1, LandAssumption DEF Trees, Detached
<1>3. RepoShape
  <2>1. \A n \in Node : Ancestors({n}) \in Trees
    BY <1>1, Lists
  <2> QED
    BY <1>2, <2>1, Bounds DEF RepoShape
<1>4. WayShape
  BY Bounds DEF WayShape
<1>5. RaisedShape
  BY DEF RaisedShape, Ways, NotRaised
<1>6. StackShape
  BY DEF StackShape
<1>7. SortShape
  BY DEF SortShape
<1>8. Standings
  BY DEF Standings, Standing, Live, Bare, NoStack, NotRaised
<1>9. Asked
  BY DEF Asked, PublishedPassedTheGates, NotRaised, Live, NoStack
<1>10. Composed
  BY <1>2 DEF Composed
<1>11. Judged
  BY DEF Judged
<1>12. Sorted /\ Halved /\ Convicted
  BY DEF Sorted, Halved, Bisecting, Convicted, NotRaised
<1> QED
  BY <1>1, <1>3, <1>4, <1>5, <1>6, <1>7, <1>8, <1>9, <1>10, <1>11, <1>12 DEF IInv, Shape

(* A step that changes nothing changes nothing of it.                       *)
LEMMA StutterInvariant ==
    ASSUME IInv, UNCHANGED vars
    PROVE  IInv'
<1> USE DEF vars, repo, trees, bisection
<1>1. /\ Sinks' = Sinks /\ Sunk' = Sunk /\ Gate' = Gate /\ Command' = Command /\ Setup' = Setup
      /\ Stacks' = Stacks /\ Goals' = Goals
  BY Rigid
<1>2. Whole' = Whole /\ Kind' = Kind /\ Unmerged' = Unmerged /\ Here' = Here
  BY SameWhole DEF Here, Kind
<1>3. Reds' = Reds /\ RedSets' = RedSets /\ Steady' = Steady
  BY <1>1, <1>2, SameReds, SameRedSets DEF Steady
<1>4. Good' = Good
  BY <1>1 DEF Good
<1>5. Shape'
  BY <1>1 DEF IInv, Shape, RepoShape, WayShape, RaisedShape, StackShape, SortShape
<1>6. Standings' /\ Asked'
  BY <1>1 DEF IInv, Standings, Standing, Live, Bare, Asked, PublishedPassedTheGates
<1>7. Composed' /\ Judged'
  BY <1>1, <1>2, <1>3 DEF IInv, Composed, Judged
<1>8. Sorted' /\ Halved' /\ Convicted'
  BY <1>1, <1>3, <1>4 DEF IInv, Sorted, Bisecting, Halved, Convicted
<1> QED
  BY <1>5, <1>6, <1>7, <1>8 DEF IInv

(* Each part of it is kept by the lemma of that name.                       *)
LEMMA StepInvariant ==
    ASSUME IInv, Next
    PROVE  IInv'
<1>1. Shape /\ Standings /\ Asked /\ Composed /\ Judged /\ Sorted /\ Halved /\ Convicted
  BY DEF IInv
<1>2. landing' \in Landings
  BY <1>1, StepRigid DEF Shape
<1>3. Shape'
  BY <1>1, <1>2, StepRepoShape, StepWayShape, StepRaisedShape, StepStackShape, StepSortShape DEF
     Shape
<1>4. Standings' /\ Asked' /\ Composed' /\ Judged'
  BY <1>1, StepStandings, StepAsked, StepComposed, StepJudged
<1>5. Sorted' /\ Convicted'
  BY <1>1, StepSorted, StepConvicted
<1>6. Steady' => Halved'
  BY <1>1, StepHalved
<1>7. Halved'
  BY <1>6 DEF Halved
<1> QED
  BY <1>3, <1>4, <1>5, <1>7 DEF IInv

(* The invariant of a landing.                                              *)
THEOREM Invariant == Spec => []IInv
<1>1. Init => IInv
  BY InitInvariant
<1>2. IInv /\ [Next]_vars => IInv'
  BY StepInvariant, StutterInvariant
<1> QED
  BY <1>1, <1>2, PTL DEF Spec

-----------------------------------------------------------------------------
(* What it gives                                                           *)

(* Every variable keeps its shape.                                          *)
THEOREM TypeCorrect == Spec => []TypeOK
<1>1. IInv => TypeOK
  <2> SUFFICES ASSUME IInv PROVE TypeOK
    OBVIOUS
  <2>1. Shape
    BY DEF IInv
  <2>2. \A k \in DOMAIN stack : stack[k].worktree \in {"none", "live", "lost"}
    BY <2>1 DEF Shape, StackShape, Stacks, NoStack
  <2>3. knownGood \in Seq(Node) /\ culprits \subseteq ToSet(Sinks)
    <3>1. Sunk \subseteq Node
      BY <2>1, Lists DEF Shape
    <3> QED
      BY <2>1, <3>1 DEF Shape, SortShape, Sunk
  <2>4. \A i \in DOMAIN goals : goals[i].job \in {"halve", "rest"} /\ goals[i].cands # <<>>
    <3>1. \A i \in DOMAIN goals : goals[i] \in Goals
      BY <2>1 DEF Shape, SortShape
    <3> QED
      BY <3>1 DEF Goals
  <2>5. raised.kind \in Ways \cup {"conflict"}
    BY <2>1 DEF Shape, RaisedShape
  <2> QED
    BY <2>1, <2>2, <2>3, <2>4, <2>5 DEF TypeOK, Shape, RepoShape, WayShape, Ways
<1> QED
  BY <1>1, Invariant, PTL

(* A published stack passed the gates, but for a smoke it was retried for.  *)
THEOREM PublishedPassedTheGatesHolds == Spec => []PublishedPassedTheGates
<1>1. IInv => PublishedPassedTheGates
  BY DEF IInv, Asked
<1> QED
  BY <1>1, Invariant, PTL

(* Whatever the sinks, the gates and the halves: when nobody moved anything *)
(* and no gate erred, the bisect names the guilty and nobody else.          *)
THEOREM CulpritsAreGuiltyHolds == Spec => []CulpritsAreGuilty
<1>1. IInv => CulpritsAreGuilty
  <2> SUFFICES ASSUME IInv PROVE CulpritsAreGuilty
    OBVIOUS
  <2>1. Convicted /\ culprits \subseteq Sunk
    BY DEF IInv, Shape, SortShape
  <2>2. \A ids \in SUBSET Sunk : ids \in RedSets <=> GateRed(ids)
    BY DEF RedSets
  <2> QED
    BY <2>1, <2>2 DEF Convicted, CulpritsAreGuilty, Sunk
<1> QED
  BY <1>1, Invariant, PTL

(* No worktree outlives the landing, but one git would not remove.          *)
THEOREM NothingLeftBehindHolds == Spec => []NothingLeftBehind
<1>1. IInv => NothingLeftBehind
  <2> SUFFICES ASSUME IInv, at = "ended" PROVE NothingLeftBehind
    BY DEF NothingLeftBehind
  <2> DEFINE lost == {k \in DOMAIN stack : stack[k].worktree = "lost"}
  <2>1. Standings /\ DOMAIN stack = {"land", "probe"}
    BY DEF IInv, Shape, StackShape
  <2>2. /\ /\ stack["land"].worktree \in {"none", "lost"}
        /\ stack["probe"].worktree \in {"none", "lost"}
    BY DEF IInv, Shape, StackShape, Stacks, NoStack, Standings, Live
  <2>3. worktrees = Cardinality(lost)
    <3>1. Cardinality({}) = 0 /\ \A k : Cardinality({k}) = 1
      BY FS_EmptySet, FS_Singleton
    <3>2. Cardinality({"land", "probe"}) = 2
      <4>1. ASSUME NEW x, NEW y, x # y PROVE Cardinality({x, y}) = 2
        <5>1. IsFiniteSet({x}) /\ Cardinality({x}) = 1 /\ y \notin {x}
          BY <4>1, FS_Singleton
        <5>2. Cardinality({x} \cup {y}) = Cardinality({x}) + 1
          BY <5>1, FS_AddElement
        <5>3. {x} \cup {y} = {x, y}
          OBVIOUS
        <5>4. Cardinality({x, y}) = Cardinality({x}) + 1
          BY <5>2, <5>3, Zenon
        <5> QED
          BY <5>1, <5>4
      <4> QED
        BY <4>1
    <3>3. CASE stack["land"].worktree = "none" /\ stack["probe"].worktree = "none"
      <4>1. lost = {}
        BY <2>1, <3>3
      <4> QED
        BY <2>1, <3>1, <3>3, <4>1 DEF Standings, Standing
    <3>4. CASE stack["land"].worktree = "lost" /\ stack["probe"].worktree = "none"
      <4>1. lost = {"land"}
        BY <2>1, <3>4
      <4>2. worktrees = 1
        BY <2>1, <3>4 DEF Standings, Standing
      <4>3. Cardinality({"land"}) = 1
        BY <3>1
      <4> QED
        BY <4>1, <4>2, <4>3, Zenon
    <3>5. CASE stack["land"].worktree = "none" /\ stack["probe"].worktree = "lost"
      <4>1. lost = {"probe"}
        BY <2>1, <3>5
      <4>2. worktrees = 1
        BY <2>1, <3>5 DEF Standings, Standing
      <4>3. Cardinality({"probe"}) = 1
        BY <3>1
      <4> QED
        BY <4>1, <4>2, <4>3, Zenon
    <3>6. CASE stack["land"].worktree = "lost" /\ stack["probe"].worktree = "lost"
      <4>1. lost = {"land", "probe"}
        BY <2>1, <3>6
      <4> QED
        BY <2>1, <3>2, <3>6, <4>1 DEF Standings, Standing
    <3> QED
      BY <2>2, <3>3, <3>4, <3>5, <3>6
  <2>4. lost # {} => raised.kind = "catastrophic"
    BY <2>1 DEF Standings
  <2> QED
    BY <2>3, <2>4 DEF NothingLeftBehind
<1> QED
  BY <1>1, Invariant, PTL

(* What the landing itself puts on a branch is the stack its gates ran on.  *)
THEOREM OnlyGatedTreesArePublishedHolds == Spec => OnlyGatedTreesArePublished
<1> DEFINE Gated == moves' = moves => \A b \in DOMAIN tip : tip'[b] # tip[b] => tip'[b] = stack.land.tree
<1>1. IInv /\ [Next]_vars => [Gated]_tip
  <2> SUFFICES ASSUME IInv, Next, moves' = moves, tip' # tip,
                      NEW b \in DOMAIN tip, tip'[b] # tip[b]
               PROVE  tip'[b] = stack.land.tree
    BY DEF vars, repo
  <2>1. Shape /\ Standings
    BY DEF IInv
  <2>2. Publish
    <3>1. ~Others
      BY <2>1, OthersMove
    <3>2. RefuseUnrunnableGates \/ ReadClosed \/ ResolveRefs \/ OpenStack \/ MergeNext \/ MergesDone => FALSE
      BY DEF RefuseUnrunnableGates, ReadClosed, ResolveRefs, OpenStack, MergeNext, MergesDone,
         Inside, OnStack, repo
    <3>3. Provision \/ GateGreen \/ RetryGreen \/ RetryRed => FALSE
      BY DEF Provision, GateGreen, RetryGreen, RetryRed, Inside, OnStack, repo
    <3>4. RunGate \/ RunLandGate => FALSE
      BY RunGateDoes, RunLandGateDoes DEF Inside, OnStack, repo
    <3>5. Blame \/ Probe \/ Recheck \/ ProbeDone => FALSE
      BY DEF Blame, Probe, Recheck, ProbeDone, Inside, repo
    <3>6. ~(\E k \in DOMAIN stack : DisposeStack(k)) /\ ~(\E n \in Node : Pin(n)) /\ ~End
      BY DEF DisposeStack, Pin, End, Inside, repo
    <3> QED
      BY <3>1, <3>2, <3>3, <3>4, <3>5, <3>6 DEF Next, Step, Others
  <2>3. purpose = "land" /\ Here = stack["land"] /\ Here.tree \in Trees
    BY <2>1, <2>2, StackInUse DEF Publish, Standings, Here, Kind
  <2>4. /\ tip[head] \subseteq Here.tree \/ Here.tree \subseteq tip[head]
        /\ tip' = [tip EXCEPT ![head] = @ \cup Here.tree]
    BY <2>2 DEF Publish
  <2>5. b = head /\ tip'[b] = tip[b] \cup Here.tree
    BY <2>4
  <2>6. tip[head] \subseteq Here.tree
    BY <2>4, <2>5
  <2> QED
    BY <2>3, <2>5, <2>6
<1>2. Spec => [][Gated]_tip
  BY <1>1, Invariant, PTL DEF Spec
<1> QED
  BY <1>2 DEF OnlyGatedTreesArePublished

-----------------------------------------------------------------------------
(* What a node stands on                                                   *)

(* A plan has no more nodes than places.                                    *)
LEMMA NodesFit == IsFiniteSet(Node) /\ Cardinality(Node) \in Nat /\ Cardinality(Node) <= Len(Order)
<1> DEFINE places == 1..Len(Order)
<1>1. Len(Order) \in Nat /\ Order \in Seq(Node)
  BY LandAssumption
<1>2. IsFiniteSet(places) /\ Cardinality(places) = Len(Order)
  <2>1. 1 \in Int /\ Len(Order) \in Int
    BY <1>1
  <2> QED
    BY <1>1, <2>1, FS_Interval
<1>3. Order \in Surjection(places, Node)
  <2>1. Order \in [places -> Node]
    BY <1>1
  <2>2. \A n \in Node : \E i \in places : Order[i] = n
    BY <1>1 DEF Node, ToSet
  <2> QED
    BY <2>1, <2>2 DEF Surjection
<1>4. IsFiniteSet(Node) /\ Cardinality(Node) <= Cardinality(places)
  BY <1>2, <1>3, FS_Surjection
<1> QED
  BY <1>2, <1>4, FS_CardinalityType

(* Each round that is not the last finds a node more, and no plan has more  *)
(* nodes than rounds: the ancestors stand on nothing but themselves.        *)
LEMMA AncestorsComplete ==
    ASSUME NEW S, S \subseteq Node
    PROVE  S \subseteq Ancestors(S) /\ \A n \in Ancestors(S) : Needs[n] \subseteq Ancestors(S)
<1> DEFINE done(q) == \A n \in q : Needs[n] \subseteq q
<1>1. PICK f : /\ f[0] = S /\ Ancestors(S) = f[Len(Order)]
               /\ \A m \in 0..Len(Order) : m < Len(Order) =>
                     f[m + 1] = f[m] \cup UNION {Needs[n] : n \in f[m]}
  BY Climb
<1>2. Len(Order) \in Nat
  BY LandAssumption
<1> DEFINE G == {m \in 0..Len(Order) : /\ S \subseteq f[m] /\ f[m] \subseteq Node
                                       /\ done(f[m]) \/ Cardinality(f[m]) > m}
<1>3. 0 \in G
  <2>1. CASE S = {}
    BY <1>1, <1>2, <2>1
  <2>2. CASE S # {}
    <3>1. IsFiniteSet(S) /\ Cardinality(S) \in Nat
      BY NodesFit, FS_Subset, FS_CardinalityType
    <3>2. Cardinality(S) > 0
      BY <2>2, <3>1, FS_EmptySet
    <3> QED
      BY <1>1, <1>2, <3>2
  <2> QED
    BY <2>1, <2>2
<1>4. ASSUME NEW m \in 0..Len(Order), m \in G, m < Len(Order)
      PROVE  m + 1 \in G
  <2> DEFINE p == f[m]
             q == f[m + 1]
  <2>1. q = p \cup UNION {Needs[n] : n \in p} /\ S \subseteq p /\ p \subseteq Node
    BY <1>1, <1>4
  <2>2. (done(p) \/ Cardinality(p) > m) /\ m \in Nat /\ m + 1 \in 0..Len(Order)
    BY <1>2, <1>4
  <2> HIDE DEF p, q
  <2>3. q \subseteq Node /\ S \subseteq q /\ p \subseteq q
    BY <2>1, LandAssumption
  <2>4. done(q) \/ Cardinality(q) > m + 1
    <3>1. CASE done(p)
      <4>1. q = p
        BY <2>1, <3>1
      <4> QED
        BY <3>1, <4>1
    <3>2. CASE ~done(p)
      <4>1. PICK x \in q : x \notin p
        BY <2>1, <3>2
      <4>2. IsFiniteSet(p) /\ IsFiniteSet(q) /\ Cardinality(p) \in Nat /\ Cardinality(q) \in Nat
        BY <2>1, <2>3, NodesFit, FS_Subset, FS_CardinalityType
      <4>3. Cardinality(p) < Cardinality(q)
        BY <2>3, <4>1, <4>2, FS_Subset
      <4> QED
        BY <2>2, <3>2, <4>2, <4>3
    <3> QED
      BY <3>1, <3>2
  <2> QED
    BY <2>2, <2>3, <2>4 DEF q
<1>5. 0..Len(Order) \subseteq G
  <2> HIDE DEF G
  <2> QED
    BY <1>2, <1>3, <1>4, UpTo
<1>6. Len(Order) \in G
  BY <1>2, <1>5
<1>7. S \subseteq Ancestors(S) /\ Ancestors(S) \subseteq Node
  BY <1>1, <1>6
<1>8. Cardinality(Ancestors(S)) \in Nat /\ Cardinality(Ancestors(S)) <= Len(Order)
  <2>1. IsFiniteSet(Ancestors(S)) /\ Cardinality(Ancestors(S)) <= Cardinality(Node)
    BY <1>7, NodesFit, FS_Subset
  <2> QED
    BY <1>2, <2>1, NodesFit, FS_CardinalityType
<1>9. done(Ancestors(S))
  BY <1>1, <1>2, <1>6, <1>8
<1> QED
  BY <1>7, <1>9

(* What stands under a closed node stands on what is under closed nodes.    *)
LEMMA AncestorsOfAncestors ==
    ASSUME NEW C, C \subseteq Node, NEW n \in Ancestors(C)
    PROVE  Ancestors({n}) \subseteq Ancestors(C)
<1>1. \A m \in Ancestors(C) : Needs[m] \subseteq Ancestors(C)
  BY AncestorsComplete
<1> QED
  BY <1>1, AncestorsWithin

-----------------------------------------------------------------------------
(* Only what was verified lands                                            *)

(* The repository is changed by others, and by the landing only where it    *)
(* publishes.                                                               *)
LEMMA RepoStands ==
    ASSUME Next, ~Others, ~Publish
    PROVE  UNCHANGED <<head, tip, ref, moves>>
<1> USE DEF Inside, OnStack, repo
<1>1. CASE RefuseUnrunnableGates \/ ReadClosed \/ ResolveRefs \/ OpenStack \/ MergeNext \/ MergesDone
  BY <1>1 DEF RefuseUnrunnableGates, ReadClosed, ResolveRefs, OpenStack, MergeNext, MergesDone
<1>2. CASE Provision \/ GateGreen \/ RetryGreen \/ RetryRed
  BY <1>2 DEF Provision, GateGreen, RetryGreen, RetryRed
<1>3. CASE RunGate \/ RunLandGate
  BY <1>3, RunGateDoes, RunLandGateDoes
<1>4. CASE Blame \/ Probe \/ Recheck \/ ProbeDone
  BY <1>4 DEF Blame, Probe, Recheck, ProbeDone
<1>5. CASE (\E k \in DOMAIN stack : DisposeStack(k)) \/ (\E n \in Node : Pin(n)) \/ End
  BY <1>5 DEF DisposeStack, Pin, End
<1> QED
  BY <1>1, <1>2, <1>3, <1>4, <1>5 DEF Next, Step, Others

(* A landing has landed by publishing, and in no other way.                 *)
LEMMA LandedByPublishing ==
    ASSUME Shape, Next, ~Others, ~Publish, raised'.kind = "landed"
    PROVE  raised' = raised /\ published' = published
<1> USE DEF OnStack, Goto, Raise, Throw
<1>1. CASE RefuseUnrunnableGates \/ ReadClosed \/ ResolveRefs \/ OpenStack \/ MergesDone
  BY <1>1 DEF RefuseUnrunnableGates, ReadClosed, ResolveRefs, OpenStack, MergesDone
<1>2. CASE MergeNext \/ Provision
  BY <1>2, MergeNextDoes, ProvisionDoes
<1>3. CASE RunGate \/ RunLandGate
  <2>1. published' = published /\ (raised' = raised \/ raised' = [kind |-> "blocked"])
    BY <1>3, RunGateDoes, RunLandGateDoes
  <2>2. raised' # [kind |-> "blocked"]
    OBVIOUS
  <2> QED
    BY <2>1, <2>2
<1>4. CASE GateGreen \/ RetryGreen \/ RetryRed
  <2>1. CASE GateGreen
    BY <2>1 DEF GateGreen
  <2>2. CASE RetryGreen
    BY <2>2, RetryGreenDoes
  <2>3. CASE RetryRed
    <3>1. published' = published /\ (raised' = raised \/ raised' = [kind |-> "culprits"])
      BY <2>3 DEF RetryRed
    <3>2. raised' # [kind |-> "culprits"]
      OBVIOUS
    <3> QED
      BY <3>1, <3>2
  <2> QED
    BY <1>4, <2>1, <2>2, <2>3
<1>5. CASE Blame \/ Probe \/ Recheck
  BY <1>5 DEF Blame, Probe, Recheck
<1>6. CASE ProbeDone
  BY <1>6 DEF ProbeDone
<1>7. CASE (\E k \in DOMAIN stack : DisposeStack(k)) \/ End
  BY <1>7 DEF DisposeStack, End
<1>8. CASE \E n \in Node : Pin(n)
  BY <1>8, PinDoes
<1> QED
  BY <1>1, <1>2, <1>3, <1>4, <1>5, <1>6, <1>7, <1>8 DEF Next, Step, Others

(* Setups and gates leave every tree as it was.                             *)
LEMMA SameTrees ==
    ASSUME Shape, Standings, at \in {"provision", "gate", "retry", "asks"},
           NEW r \in {Prepared, Passed, Failed, Retried, Granted}, HereBecomes(r)
    PROVE  \A k \in {"land", "probe"} : Live(k)' => Live(k) /\ stack'[k].tree = stack[k].tree
<1>1. Here \in Stacks /\ Kind \in {"land", "probe"}
  BY StackInUse
<1>2. r.worktree = Here.worktree /\ r.tree = Here.tree
  BY <1>1 DEF Stacks, Prepared, Passed, Failed, Retried, Granted
<1>3. DOMAIN stack = {"land", "probe"} /\ stack' = [stack EXCEPT ![Kind] = r] /\ Here = stack[Kind]
  BY DEF Shape, StackShape, HereBecomes, Here
<1> QED
  BY <1>1, <1>2, <1>3 DEF Live

(* A stack's tree is made when the stack is opened, and where it merges.    *)
LEMMA TreesStand ==
    ASSUME Shape, Standings, Next, ~Others, ~OpenStack, ~MergeNext
    PROVE  /\ at' # "merge"
           /\ \A k \in {"land", "probe"} : Live(k)' => Live(k) /\ stack'[k].tree = stack[k].tree
<1> USE DEF Goto, Raise, Throw, OnStack, trees
<1>0. stack' = stack => \A k \in {"land", "probe"} : Live(k)' => Live(k) /\ stack'[k].tree = stack[k].tree
  BY DEF Live
<1>1. CASE RefuseUnrunnableGates \/ ReadClosed \/ ResolveRefs \/ MergesDone
  BY <1>0, <1>1 DEF RefuseUnrunnableGates, ReadClosed, ResolveRefs, MergesDone
<1>2. CASE Provision
  BY <1>0, <1>2, ProvisionDoes, SameTrees
<1>3. CASE RunGate
  BY <1>0, <1>3, RunGateDoes, SameTrees
<1>4. CASE RetryGreen
  BY <1>4, RetryGreenDoes, SameTrees
<1>5. CASE RunLandGate
  BY <1>0, <1>5, RunLandGateDoes, SameTrees
<1>6. CASE GateGreen \/ RetryRed \/ Publish
  BY <1>0, <1>6 DEF GateGreen, RetryRed, Publish
<1>7. CASE Blame \/ Probe \/ Recheck
  BY <1>0, <1>7 DEF Blame, Probe, Recheck
<1>8. CASE ProbeDone \/ (\E k \in DOMAIN stack : DisposeStack(k))
  <2>1. at' # "merge"
    BY <1>8 DEF ProbeDone, DisposeStack
  <2>2. PICK k \in DOMAIN stack : Dispose(k) \/ LoseStack(k)
    BY <1>8 DEF ProbeDone, DisposeStack, Shape, StackShape
  <2>3. DOMAIN stack = {"land", "probe"} /\ \A j \in {"land", "probe"} : stack[j] \in Stacks \cup {NoStack}
    BY DEF Shape, StackShape
  <2>4. CASE Dispose(k)
    BY <2>1, <2>3, <2>4 DEF Dispose, NoStack, Live
  <2>5. CASE LoseStack(k)
    <3>1. stack' = [stack EXCEPT ![k] = [stack[k] EXCEPT !.worktree = "lost"]]
      BY <2>5 DEF LoseStack
    <3>2. [stack[k] EXCEPT !.worktree = "lost"].worktree = "lost"
      BY <2>3 DEF Stacks, NoStack
    <3> QED
      BY <2>1, <2>3, <3>1, <3>2 DEF Live
  <2> QED
    BY <2>2, <2>4, <2>5
<1>9. CASE (\E n \in Node : Pin(n)) \/ End
  BY <1>0, <1>9 DEF Pin, End
<1> QED
  BY <1>1, <1>2, <1>3, <1>4, <1>5, <1>6, <1>7, <1>8, <1>9 DEF Next, Step, Others

(* What may be on a branch once the landing has published.                  *)
Allowed(tree) == tree \cap Node \subseteq landing.base \cup Ancestors(landing.closed)

(* The sinks are verified before anything is stacked, and a branch or a     *)
(* stack holds what the target held, and what sinks stand on.               *)
Vouched ==
    /\ at \notin {"start", "unwind", "ended"} => Sunk \subseteq Ancestors(landing.closed)
    /\ \A n \in Node : ref[n] # None => ref[n] \cap Node \subseteq Ancestors({n})
    /\ at \notin {"unwind", "ended"} =>
          /\ \A b \in Branch \cup {Detached} : tip[b] \cap Node \subseteq landing.base
          /\ \A k \in {"land", "probe"} : Live(k) => Allowed(stack[k].tree)
    /\ at = "merge" => ToSet(Here.todo) \subseteq Sunk
    /\ raised.kind = "landed" => Allowed(published.tree)

(* What a sink's branch holds is verified with the sink.                    *)
LEMMA SinkIsVouched ==
    ASSUME Shape, Vouched, at \notin {"start", "unwind", "ended"}, NEW n \in Sunk, CommitOf(n) # None
    PROVE  CommitOf(n) \cap Node \subseteq Ancestors(landing.closed)
<1>1. n \in Node /\ landing.closed \subseteq Node
  BY Lists, LandAssumption DEF Shape
<1>2. n \in Ancestors(landing.closed)
  BY DEF Vouched
<1>3. Ancestors({n}) \subseteq Ancestors(landing.closed)
  BY <1>1, <1>2, AncestorsOfAncestors
<1>4. CommitOf(n) \cap Node \subseteq Ancestors({n})
  BY <1>1 DEF CommitOf, Vouched
<1> QED
  BY <1>3, <1>4

(* Nobody else puts a node on a branch that it does not belong to.          *)
LEMMA OthersVouched ==
    ASSUME Shape, Vouched, Others
    PROVE  Vouched'
<1> USE DEF Shape, RepoShape
<1>1. /\ UNCHANGED <<landing, bySha, at, purpose, trees, raised, published>>
      /\ Sunk' = Sunk /\ Here' = Here
  BY OthersMove, Rigid DEF Here, Kind, trees
<1>2. Edit \notin Node
  BY LandAssumption
<1>3. \A n \in Node : ref'[n] # None => ref'[n] \cap Node \subseteq Ancestors({n})
  <2>1. CASE UNCHANGED ref
    BY <2>1 DEF Vouched
  <2>2. CASE \E n \in Node : NodeBranchMoves(n)
    BY <1>2, <2>2 DEF NodeBranchMoves, Vouched
  <2> QED
    BY <2>1, <2>2 DEF Others, OperatorCommits, OperatorChecksOut
<1>4. ASSUME at \notin {"unwind", "ended"}
      PROVE  \A b \in Branch \cup {Detached} : tip'[b] \cap Node \subseteq landing.base
  <2>1. CASE OperatorCommits
    BY <1>2, <1>4, <2>1 DEF OperatorCommits, Vouched
  <2>2. CASE \E b \in Branch \cup {Detached} : OperatorChecksOut(b)
    BY <1>4, <2>2 DEF OperatorChecksOut, Vouched
  <2>3. CASE \E n \in Node : NodeBranchMoves(n)
    BY <1>4, <2>3 DEF NodeBranchMoves, Vouched
  <2> QED
    BY <2>1, <2>2, <2>3 DEF Others
<1> QED
  BY <1>1, <1>3, <1>4 DEF Vouched, Allowed, Live, trees

(* Opening a stack begins it at the branch, with sinks to merge.            *)
LEMMA OpenVouched ==
    ASSUME Shape, Standings, Sorted, Vouched, OpenStack
    PROVE  Vouched'
<1>1. /\ at = "build" /\ UNCHANGED <<landing, head, tip, ref, bySha, purpose>>
      /\ Sunk' = Sunk /\ Kind' = Kind
  BY Rigid DEF OpenStack, Inside, repo, Kind
<1>2. CASE at' = "unwind"
  <2>1. raised'.kind # "landed"
    BY <1>2 DEF OpenStack, Goto, Raise, Throw
  <2> QED
    BY <1>1, <1>2, <2>1 DEF Vouched
<1>3. CASE at' = "merge"
  <2>1. PICK r : /\ r.worktree = "live" /\ r.tree = tip[head] /\ r.todo = Stacked
                 /\ stack' = [stack EXCEPT ![Kind] = r]
    BY <1>3 DEF OpenStack, HereBecomes, Raise, Throw
  <2>2. DOMAIN stack = {"land", "probe"} /\ Kind \in {"land", "probe"} /\ Here' = r
    BY <1>1, <2>1 DEF Shape, StackShape, Kind, Here
  <2>3. raised' = raised /\ raised.kind = "none"
    BY <1>1, <1>3 DEF OpenStack, Goto, Raise, Throw, Standings
  <2>4. ToSet(Stacked) \subseteq Sunk
    <3>1. Stacked \in Seq(Sunk)
      BY <1>1, StackedLists
    <3> QED
      BY <3>1 DEF ToSet
  <2>5. Allowed(tip[head])
    BY <1>1 DEF Vouched, Allowed, Shape, RepoShape
  <2>6. \A k \in {"land", "probe"} : Live(k)' => Allowed(stack'[k].tree)
    BY <1>1, <2>1, <2>2, <2>5 DEF Vouched, Live
  <2> QED
    BY <1>1, <1>3, <2>1, <2>2, <2>3, <2>4, <2>6 DEF Vouched, Allowed
<1> QED
  BY <1>2, <1>3 DEF OpenStack, Goto, Raise, Throw

(* A merge puts a sink's branch on the stack, and no more.                  *)
LEMMA MergeVouched ==
    ASSUME Shape, Standings, Vouched, MergeNext
    PROVE  Vouched'
<1> USE MergeNextDoes DEF OnStack, Inside, repo
<1>1. /\ at = "merge" /\ UNCHANGED <<landing, head, tip, ref, bySha, purpose>>
      /\ Sunk' = Sunk /\ Here.todo # <<>>
  BY Rigid
<1>2. CASE at' = "unwind"
  BY <1>1, <1>2 DEF Vouched
<1>3. ASSUME at' = "merge", raised' = raised,
             NEW r, HereBecomes(r), r.worktree = Here.worktree, r.todo = Tail(Here.todo),
             Allowed(r.tree)
      PROVE  Vouched'
  <2>1. Here' = r /\ Kind \in {"land", "probe"} /\ stack' = [stack EXCEPT ![Kind] = r] /\ Live(Kind)
    BY <1>1, <1>3, InPlace, StackInUse DEF HereBecomes
  <2>2. DOMAIN stack = {"land", "probe"}
    BY DEF Shape, StackShape
  <2>3. \A k \in {"land", "probe"} : Live(k)' => Allowed(stack'[k].tree)
    BY <1>1, <1>3, <2>1, <2>2 DEF Vouched, Live
  <2>4. ToSet(Tail(Here.todo)) \subseteq ToSet(Here.todo)
    <3>1. Here.todo \in Seq(Node)
      BY <1>1, StackInUse
    <3> QED
      BY <1>1, <3>1, ToSetTail
  <2>5. raised.kind = "none"
    BY <1>1 DEF Standings
  <2> QED
    BY <1>1, <1>3, <2>1, <2>3, <2>4, <2>5 DEF Vouched, Allowed
<1>4. Here \in Stacks /\ Allowed(Here.tree)
  BY <1>1, StackInUse DEF Vouched, Here
<1>5. CASE at' = "merge" /\ HereBecomes(Conflicted)
  <2>1. /\ Conflicted.worktree = Here.worktree /\ Conflicted.todo = Tail(Here.todo)
        /\ Conflicted.tree = Here.tree
    BY <1>4 DEF Stacks, Conflicted
  <2> QED
    BY <1>3, <1>4, <1>5, <2>1
<1>6. CASE at' = "merge" /\ HereBecomes(Merged) /\ CommitOf(Head(Here.todo)) # None
  <2> DEFINE n == Head(Here.todo)
  <2>1. n \in Sunk
    <3>1. Here.todo \in Seq(Node)
      BY <1>1, StackInUse
    <3>2. n \in ToSet(Here.todo)
      BY <1>1, <3>1, ToSetTail
    <3> QED
      BY <1>1, <3>2 DEF Vouched
  <2>2. CommitOf(n) \cap Node \subseteq Ancestors(landing.closed)
    BY <1>1, <1>6, <2>1, SinkIsVouched
  <2>3. /\ Merged.worktree = Here.worktree /\ Merged.todo = Tail(Here.todo)
        /\ Merged.tree = Here.tree \cup CommitOf(n)
    BY <1>4 DEF Stacks, Merged
  <2>4. Allowed(Merged.tree)
    BY <1>4, <2>2, <2>3 DEF Allowed
  <2> QED
    BY <1>3, <1>6, <2>3, <2>4
<1> QED
  BY <1>2, <1>5, <1>6

(* The landing publishes the stack it has gated.                            *)
LEMMA PublishVouched ==
    ASSUME Shape, Standings, Vouched, Publish
    PROVE  Vouched'
<1>1. /\ at = "asks" /\ at' = "unwind" /\ UNCHANGED <<landing, ref, bySha>> /\ raised.kind = "none"
      /\ Sunk' = Sunk
  BY Rigid DEF Publish, Raise, Throw, Standings
<1>2. Allowed(Here.tree)
  BY <1>1 DEF Vouched, Standings, Here, Kind
<1>3. raised'.kind = "landed" => published' = Here
  BY DEF Publish, Raise, Throw
<1> QED
  BY <1>1, <1>2, <1>3 DEF Vouched, Allowed

(* The landing goes on to stack its sinks once they are all verified.       *)
LEMMA VerifiedFirst ==
    ASSUME Shape, Vouched, Next, ~Others, at' \notin {"start", "unwind", "ended"}
    PROVE  at # "unwind" /\ at # "ended" /\ Sunk \subseteq Ancestors(landing.closed)
<1> USE DEF Goto, Raise, Throw
<1>1. at # "unwind" /\ at # "ended"
  <2>1. CASE at \in {"unwind", "ended"}
    <3>1. (\E k \in DOMAIN stack : DisposeStack(k)) \/ (\E n \in Node : Pin(n)) \/ End
      <4>1. ~MergeNext /\ ~Provision /\ ~RunGate /\ ~RetryGreen /\ ~RunLandGate
        BY <2>1, MergeNextDoes, ProvisionDoes, RunGateDoes, RetryGreenDoes, RunLandGateDoes
      <4>2. /\ ~RefuseUnrunnableGates /\ ~ReadClosed /\ ~ResolveRefs /\ ~OpenStack /\ ~MergesDone
            /\ ~GateGreen /\ ~RetryRed /\ ~Publish /\ ~Blame /\ ~Probe /\ ~Recheck /\ ~ProbeDone
        BY <2>1 DEF RefuseUnrunnableGates, ReadClosed, ResolveRefs, OpenStack, MergesDone,
           GateGreen, RetryRed, Publish, Blame, Probe, Recheck, ProbeDone
      <4> QED
        BY <4>1, <4>2 DEF Next, Step, Others
    <3> QED
      BY <3>1 DEF DisposeStack, Pin, End
  <2> QED
    BY <2>1
<1>2. CASE at # "start"
  BY <1>1, <1>2 DEF Vouched
<1>3. CASE at = "start"
  <2>1. ReadClosed
    <3>1. ~MergeNext /\ ~Provision /\ ~RunGate /\ ~RetryGreen /\ ~RunLandGate
      BY <1>3, MergeNextDoes, ProvisionDoes, RunGateDoes, RetryGreenDoes, RunLandGateDoes
    <3>2. /\ ~RefuseUnrunnableGates /\ ~ResolveRefs /\ ~OpenStack /\ ~MergesDone
          /\ ~GateGreen /\ ~RetryRed /\ ~Publish /\ ~Blame /\ ~Probe /\ ~Recheck /\ ~ProbeDone
      BY <1>3 DEF RefuseUnrunnableGates, ResolveRefs, OpenStack, MergesDone,
         GateGreen, RetryRed, Publish, Blame, Probe, Recheck, ProbeDone
    <3>3. ~(\E k \in DOMAIN stack : DisposeStack(k)) /\ ~(\E n \in Node : Pin(n)) /\ ~End
      BY <1>3 DEF DisposeStack, Pin, End
    <3> QED
      BY <3>1, <3>2, <3>3 DEF Next, Step, Others
  <2>2. Scope \subseteq Ancestors(landing.closed)
    BY <2>1 DEF ReadClosed, SeedClosure
  <2>3. Sunk \subseteq Scope
    BY Lists DEF Shape, Scope, Sunk
  <2> QED
    BY <1>3, <1>1, <2>2, <2>3
<1> QED
  BY <1>2, <1>3

(* No step brings anything unverified in.                                   *)
LEMMA StepVouched ==
    ASSUME Shape, Standings, Sorted, Vouched, Next
    PROVE  Vouched'
<1>1. CASE Others
  BY <1>1, OthersVouched
<1>2. CASE OpenStack
  BY <1>2, OpenVouched
<1>3. CASE MergeNext
  BY <1>3, MergeVouched
<1>4. CASE Publish
  BY <1>4, PublishVouched
<1>5. CASE ~Others /\ ~OpenStack /\ ~MergeNext /\ ~Publish
  <2>1. UNCHANGED <<landing, head, tip, ref>> /\ Sunk' = Sunk
    BY <1>5, RepoStands, StepRigid
  <2>2. /\ at' # "merge"
        /\ \A k \in {"land", "probe"} : Live(k)' => Live(k) /\ stack'[k].tree = stack[k].tree
    BY <1>5, TreesStand
  <2>3. at' \notin {"start", "unwind", "ended"} =>
           at # "unwind" /\ at # "ended" /\ Sunk \subseteq Ancestors(landing.closed)
    BY <1>5, VerifiedFirst
  <2>4. at' # "start"
    <3>1. ~MergeNext /\ (Provision \/ RunGate \/ RetryGreen \/ RunLandGate => at' # "start")
      BY <1>5, ProvisionDoes, RunGateDoes, RetryGreenDoes, RunLandGateDoes
    <3>2. RefuseUnrunnableGates \/ ReadClosed \/ ResolveRefs \/ MergesDone \/ GateGreen \/ RetryRed => at' # "start"
      BY DEF RefuseUnrunnableGates, ReadClosed, ResolveRefs, MergesDone, GateGreen, RetryRed,
         Goto, Raise, Throw
    <3>3. Blame \/ Probe \/ Recheck \/ ProbeDone \/ (\E n \in Node : Pin(n)) \/ End => at' # "start"
      BY DEF Blame, Probe, Recheck, ProbeDone, Pin, End, Goto, Raise, Throw
    <3>4. (\E k \in DOMAIN stack : DisposeStack(k)) => at' # "start"
      BY DEF DisposeStack, Goto, Raise, Throw
    <3> QED
      BY <1>5, <3>1, <3>2, <3>3, <3>4 DEF Next, Step, Others
  <2>5. raised'.kind = "landed" => raised' = raised /\ published' = published
    BY <1>5, LandedByPublishing
  <2>6. at' \notin {"unwind", "ended"} => at \notin {"unwind", "ended"}
    BY <2>3, <2>4
  <2> QED
    BY <2>1, <2>2, <2>3, <2>4, <2>5, <2>6 DEF Vouched, Allowed
<1> QED
  BY <1>1, <1>2, <1>3, <1>4, <1>5

(* A landing begins with the branches of the plan's own nodes.              *)
LEMMA InitVouched == Init => Vouched
  BY DEF Init, Vouched, NotRaised, NoStack, Live

(* Whatever moves while it works, and whatever its gates answer, a landing  *)
(* puts nothing on the branch that was not there or is not verified.        *)
THEOREM OnlyVerifiedLandsHolds == Spec => []OnlyVerifiedLands
<1>1. IInv /\ Vouched /\ [Next]_vars => Vouched'
  <2>1. ASSUME IInv, Vouched, UNCHANGED vars PROVE Vouched'
    <3>1. Sunk' = Sunk /\ Here' = Here
      BY <2>1, Rigid DEF vars, trees, Here, Kind
    <3> QED
      BY <2>1, <3>1 DEF vars, trees, repo, Vouched, Allowed, Live
  <2> QED
    BY <2>1, StepVouched DEF IInv
<1>2. Vouched => OnlyVerifiedLands
  BY DEF Vouched, Allowed, OnlyVerifiedLands, SeedClosure
<1> QED
  BY <1>1, <1>2, InitVouched, Invariant, PTL DEF Spec

-----------------------------------------------------------------------------
(* The pins of a landing complete its stack                                *)

(* What the sinks come to, put together on the target, and that a tree does *)
(* not hold both sides of a clash, unless the target did.                   *)
AllOfIt == landing.base \cup UNION {Ancestors({n}) : n \in Sunk}
Apart(tree) == \A p \in landing.clash : p \subseteq tree => p \subseteq landing.base

(* A stack being merged: a stacked sink is still to be merged, left out, or *)
(* on it; one that is left out clashes with what is on it.  A probe leaves  *)
(* nothing out, for the stack it probes did not.                            *)
Merging ==
    /\ landing.base \subseteq Here.tree /\ Here.tree \subseteq AllOfIt /\ Apart(Here.tree)
    /\ ToSet(Here.todo) \subseteq Sunk /\ Here.conflicts \subseteq Sunk
    /\ \A n \in ToSet(Stacked) :
          n \in ToSet(Here.todo) \/ n \in Here.conflicts \/ Ancestors({n}) \subseteq Here.tree
    /\ \A n \in Here.conflicts : \E p \in landing.clash :
          p \subseteq Ancestors({n}) \cup Here.tree /\ ~(p \subseteq landing.base)
    /\ purpose # "land" => Here.conflicts = {}

(* The whole stack has been merged, once, without a conflict.               *)
Cleared ==
    /\ at \notin {"start", "resolve", "unwind", "ended"}
    /\ at \in {"build", "merge"} => purpose # "land"

(* A landing on its way to pin its conflicts, and what it has pinned.       *)
Pinned == {n \in Node : pins[n] # None}
Refused == raised.sinks \cup Pinned
Pinning ==
    /\ Refused \subseteq Sunk
    /\ \A n \in Pinned : pins[n] = raised.stack
    /\ \A n \in Refused : ~(Ancestors({n}) \subseteq raised.stack)
    /\ \A n \in Sunk \ Refused : Ancestors({n}) \subseteq raised.stack

(* What a landing knows of its clashes while nobody else moves anything.    *)
Clashing ==
    /\ at \notin {"unwind", "ended"} => pins = [n \in Node |-> None]
    /\ at = "ended" /\ raised.kind = "conflict" => raised.sinks = {}
    /\ moves = 0 =>
          /\ ref = [n \in Node |-> Ancestors({n})]
          /\ at = "merge" => Merging
          /\ Cleared => Apart(AllOfIt)
          /\ raised.kind = "conflict" => Pinning

(* Then a node's commit is what it stands on.                               *)
LEMMA CommitIsAncestors ==
    ASSUME Shape, Clashing, moves = 0
    PROVE  /\ \A n \in Node : CommitOf(n) = Ancestors({n}) /\ CommitOf(n) \in Trees /\ CommitOf(n) # None
           /\ Composition(Sunk) = AllOfIt
<1>1. \A n \in Node : CommitOf(n) = Ancestors({n})
  BY DEF Clashing, CommitOf
<1>2. Sunk \subseteq Node
  BY Lists DEF Shape
<1>3. \A n \in Node : Ancestors({n}) \in Trees
  BY Lists DEF Shape
<1>4. \A n \in Node : Ancestors({n}) # None
  BY <1>3, LandAssumption DEF Trees
<1> QED
  BY <1>1, <1>2, <1>3, <1>4 DEF Composition, AllOfIt

(* A clash has two sides, and no more.                                      *)
LEMMA TwoSides ==
    ASSUME NEW p, NEW x \in p, NEW y \in p, x # y, Cardinality(p) = 2, IsFiniteSet(p)
    PROVE  p = {x, y}
<1>1. IsFiniteSet(p \ {x}) /\ Cardinality(p \ {x}) = 1
  BY FS_RemoveElement
<1>2. IsFiniteSet((p \ {x}) \ {y}) /\ Cardinality((p \ {x}) \ {y}) = 0
  BY <1>1, FS_RemoveElement
<1>3. (p \ {x}) \ {y} = {}
  BY <1>2, FS_EmptySet
<1> QED
  BY <1>3

(* A commit that conflicts with a tree has one side of a clash, which the   *)
(* tree lacks, and the tree has the other.                                  *)
LEMMA ConflictIsClash ==
    ASSUME landing \in Landings, NEW c, NEW tree, Conflicts(c, tree)
    PROVE  \E p \in landing.clash : p \subseteq c \cup tree /\ ~(p \subseteq tree)
<1>1. PICK p \in landing.clash : p \cap (c \ tree) # {} /\ p \cap (tree \ c) # {}
  BY DEF Conflicts
<1>2. PICK x \in p, y \in p : x \in c \ tree /\ y \in tree \ c
  BY <1>1
<1>3. p \subseteq Node \cup {Edit} /\ Cardinality(p) = 2
  BY LandAssumption
<1>4. IsFiniteSet(p)
  <2>1. IsFiniteSet(Node \cup {Edit})
    BY NodesFit, FS_AddElement
  <2> QED
    BY <1>3, <2>1, FS_Subset
<1>5. p = {x, y}
  BY <1>2, <1>3, <1>4, TwoSides
<1> QED
  BY <1>2, <1>5

(* Merging a commit that does not conflict brings no clash together.        *)
LEMMA MergedApart ==
    ASSUME ClashesApart, landing \in Landings, NEW n \in Node, NEW tree, Apart(tree),
           ~Conflicts(Ancestors({n}), tree)
    PROVE  Apart(tree \cup Ancestors({n}))
<1> SUFFICES ASSUME NEW p \in landing.clash, p \subseteq tree \cup Ancestors({n}), ~(p \subseteq landing.base)
             PROVE  FALSE
  BY DEF Apart
<1>1. ~(p \subseteq tree)
  BY DEF Apart
<1>2. ~(p \subseteq Ancestors({n}))
  BY DEF ClashesApart
<1>3. p \cap (Ancestors({n}) \ tree) # {} /\ p \cap (tree \ Ancestors({n})) # {}
  BY <1>1, <1>2
<1> QED
  BY <1>3 DEF Conflicts

(* A stack is opened with nothing on it but the target.                     *)
LEMMA OpenClashing ==
    ASSUME Shape, Standings, Sorted, Composed, Clashing, OpenStack
    PROVE  Clashing'
<1>1. /\ at = "build" /\ UNCHANGED <<landing, head, tip, ref, bySha, purpose, moves, pins>>
      /\ UNCHANGED <<goals, knownGood, culprits>> /\ Sunk' = Sunk /\ Kind' = Kind
  BY Rigid DEF OpenStack, Inside, repo, Kind
<1>2. CASE at' = "unwind"
  <2>1. raised'.kind # "conflict"
    BY <1>2 DEF OpenStack, Goto, Raise, Throw
  <2> QED
    BY <1>1, <1>2, <2>1 DEF Clashing, Cleared
<1>3. CASE at' = "merge"
  <2>1. PICK r : /\ r.worktree = "live" /\ r.tree = tip[head] /\ r.todo = Stacked
                 /\ r.conflicts = {} /\ stack' = [stack EXCEPT ![Kind] = r]
    BY <1>3 DEF OpenStack, HereBecomes, Raise, Throw
  <2>2. Here' = r
    BY <1>1, <2>1 DEF Shape, StackShape, Kind, Here
  <2>3. raised' = raised /\ raised.kind = "none"
    BY <1>1, <1>3 DEF OpenStack, Goto, Raise, Throw, Standings
  <2>4. ToSet(Stacked) \subseteq Sunk /\ Stacked' = Stacked
    <3>1. Stacked \in Seq(Sunk)
      BY <1>1, StackedLists
    <3> QED
      BY <1>1, <3>1, SameWhole DEF ToSet
  <2>5. moves = 0 => tip[head] = landing.base
    BY <1>1 DEF Composed
  <2>6. moves = 0 => Merging'
    BY <1>1, <2>1, <2>2, <2>4, <2>5 DEF Merging, Apart, AllOfIt
  <2>7. Cleared' => Cleared
    BY <1>1, <1>3 DEF Cleared
  <2> QED
    BY <1>1, <1>3, <2>3, <2>6, <2>7 DEF Clashing, Apart, AllOfIt
<1> QED
  BY <1>2, <1>3 DEF OpenStack, Goto, Raise, Throw

(* A merge either puts a sink on the stack or finds the clash it leaves it  *)
(* out for, and a probe finds none.                                         *)
LEMMA MergeClashing ==
    ASSUME ClashesApart, Shape, Standings, Clashing, MergeNext
    PROVE  Clashing'
<1> USE MergeNextDoes DEF OnStack, Inside, repo
<1>1. /\ at = "merge" /\ UNCHANGED <<landing, head, tip, ref, bySha, purpose, moves, pins>>
      /\ UNCHANGED <<goals, knownGood, culprits>> /\ Sunk' = Sunk /\ Here.todo # <<>> /\ Kind' = Kind
  <2>1. /\ at = "merge" /\ UNCHANGED <<landing, head, tip, ref, bySha, purpose, moves, pins>>
        /\ UNCHANGED <<goals, knownGood, culprits>> /\ Here.todo # <<>>
    BY DEF bisection
  <2>2. Sunk' = Sunk
    BY <2>1, Rigid
  <2>3. Kind' = Kind
    BY <2>1 DEF Kind
  <2> QED
    BY <2>1, <2>2, <2>3
<1>2. CASE at' = "unwind"
  BY <1>1, <1>2 DEF Clashing, Cleared
<1> DEFINE n == Head(Here.todo)
<1>3. /\ Here \in Stacks /\ Here.todo \in Seq(Node)
      /\ ToSet(Here.todo) = {n} \cup ToSet(Tail(Here.todo)) /\ n \in Node
  <2>1. Here \in Stacks /\ Here.todo \in Seq(Node)
    BY <1>1, StackInUse
  <2> QED
    BY <1>1, <2>1, ToSetTail
<1>4. landing \in Landings /\ Stacked' = Stacked
  BY <1>1, SameWhole DEF Shape
<1>5. ASSUME at' = "merge", raised' = raised,
             NEW r, HereBecomes(r), r.worktree = Here.worktree, r.todo = Tail(Here.todo),
             moves = 0 =>
                \/ /\ Conflicts(Ancestors({n}), Here.tree)
                   /\ r.conflicts = Here.conflicts \cup {n} /\ r.tree = Here.tree
                \/ /\ ~Conflicts(Ancestors({n}), Here.tree)
                   /\ r.conflicts = Here.conflicts /\ r.tree = Here.tree \cup Ancestors({n})
      PROVE  Clashing'
  <2>1. Here' = r /\ raised.kind = "none"
    BY <1>1, <1>5, InPlace DEF Standings
  <2>2. ASSUME moves = 0 PROVE Merging'
    <3>1. Merging
      BY <1>1, <2>2 DEF Clashing
    <3>2. n \in Sunk
      BY <1>3, <3>1 DEF Merging
    <3>3. CASE /\ Conflicts(Ancestors({n}), Here.tree)
               /\ r.conflicts = Here.conflicts \cup {n} /\ r.tree = Here.tree
      <4>1. PICK p \in landing.clash : p \subseteq Ancestors({n}) \cup Here.tree /\ ~(p \subseteq Here.tree)
        BY <1>4, <3>3, ConflictIsClash
      <4>2. ~(p \subseteq landing.base)
        BY <3>1, <4>1 DEF Merging
      <4>3. purpose = "land"
        <5>1. ASSUME purpose # "land" PROVE FALSE
          <6>1. Apart(AllOfIt)
            BY <1>1, <2>2, <5>1 DEF Clashing, Cleared
          <6>2. Ancestors({n}) \cup Here.tree \subseteq AllOfIt
            BY <3>1, <3>2 DEF Merging, AllOfIt
          <6> QED
            BY <4>1, <4>2, <6>1, <6>2 DEF Apart
        <5> QED
          BY <5>1
      <4>4. \A m \in r.conflicts : \E q \in landing.clash :
               q \subseteq Ancestors({m}) \cup r.tree /\ ~(q \subseteq landing.base)
        BY <3>1, <3>3, <4>1, <4>2 DEF Merging
      <4>5. \A m \in ToSet(Stacked) :
               m \in ToSet(r.todo) \/ m \in r.conflicts \/ Ancestors({m}) \subseteq r.tree
        BY <1>3, <1>5, <3>1, <3>3 DEF Merging
      <4>6. /\ landing.base \subseteq r.tree /\ r.tree \subseteq AllOfIt /\ Apart(r.tree)
            /\ ToSet(r.todo) \subseteq Sunk /\ r.conflicts \subseteq Sunk
        BY <1>3, <1>5, <3>1, <3>2, <3>3 DEF Merging
      <4> QED
        BY <1>1, <1>4, <2>1, <4>3, <4>4, <4>5, <4>6 DEF Merging, Apart, AllOfIt
    <3>4. CASE /\ ~Conflicts(Ancestors({n}), Here.tree)
               /\ r.conflicts = Here.conflicts /\ r.tree = Here.tree \cup Ancestors({n})
      <4>1. Apart(r.tree)
        BY <1>3, <1>4, <3>1, <3>4, MergedApart DEF Merging
      <4>2. \A m \in r.conflicts : \E q \in landing.clash :
               q \subseteq Ancestors({m}) \cup r.tree /\ ~(q \subseteq landing.base)
        BY <3>1, <3>4 DEF Merging
      <4>3. \A m \in ToSet(Stacked) :
               m \in ToSet(r.todo) \/ m \in r.conflicts \/ Ancestors({m}) \subseteq r.tree
        BY <1>3, <1>5, <3>1, <3>4 DEF Merging
      <4>4. /\ landing.base \subseteq r.tree /\ r.tree \subseteq AllOfIt
            /\ ToSet(r.todo) \subseteq Sunk /\ r.conflicts \subseteq Sunk
            /\ purpose # "land" => r.conflicts = {}
        BY <1>3, <1>5, <3>1, <3>2, <3>4 DEF Merging, AllOfIt
      <4> QED
        BY <1>1, <1>4, <2>1, <4>1, <4>2, <4>3, <4>4 DEF Merging, Apart, AllOfIt
    <3> QED
      BY <1>5, <2>2, <3>3, <3>4
  <2>3. Cleared' => Cleared
    BY <1>1, <1>5 DEF Cleared
  <2> QED
    BY <1>1, <1>5, <2>1, <2>2, <2>3 DEF Clashing, Apart, AllOfIt
<1>6. moves = 0 => CommitOf(n) = Ancestors({n}) /\ CommitOf(n) # None
  BY <1>3, CommitIsAncestors
<1>7. CASE at' = "merge"
  <2>1. PICK r : /\ HereBecomes(r)
                 /\ \/ /\ r = Conflicted /\ Conflicts(CommitOf(n), Here.tree)
                    \/ /\ r = Merged /\ ~Conflicts(CommitOf(n), Here.tree)
    BY <1>7 DEF MergeNext, Conflicted, Merged, Raise, Throw
  <2>2. /\ Conflicted.worktree = Here.worktree /\ Conflicted.todo = Tail(Here.todo)
        /\ Conflicted.tree = Here.tree /\ Conflicted.conflicts = Here.conflicts \cup {n}
    BY <1>3 DEF Stacks, Conflicted
  <2>3. /\ Merged.worktree = Here.worktree /\ Merged.todo = Tail(Here.todo)
        /\ Merged.tree = Here.tree \cup CommitOf(n) /\ Merged.conflicts = Here.conflicts
    BY <1>3 DEF Stacks, Merged
  <2> QED
    BY <1>5, <1>6, <1>7, <2>1, <2>2, <2>3
<1> QED
  BY <1>2, <1>7

(* A stack that left sinks out has the landing refused and them pinned; one *)
(* that left none out holds all of it.                                      *)
LEMMA MergesDoneClashing ==
    ASSUME Shape, Standings, Composed, Clashing, MergesDone
    PROVE  Clashing'
<1>1. /\ at = "merge" /\ UNCHANGED <<landing, head, tip, ref, bySha, purpose, moves, pins, stack>>
      /\ Sunk' = Sunk /\ Here.todo = <<>> /\ raised.kind = "none"
  BY Rigid DEF MergesDone, OnStack, Inside, repo, trees, Standings
<1>2. ASSUME moves = 0 PROVE Merging /\ ref = [n \in Node |-> Ancestors({n})]
  BY <1>1, <1>2 DEF Clashing
<1>3. ToSet(Here.todo) = {}
  BY <1>1 DEF ToSet
<1>4. CASE Here.conflicts = {}
  <2>1. at' = "provision" /\ raised' = raised
    BY <1>4 DEF MergesDone, Goto
  <2>2. ASSUME moves = 0 PROVE Apart(AllOfIt)
    <3>1. CASE purpose = "land"
      <4>1. Here.tree = Composition(Sunk)
        <5>1. Here.tree \cup Unmerged = Composition(ToSet(Stacked))
          BY <1>1, <1>4, <2>2 DEF Composed, Whole
        <5>2. Unmerged = {} /\ ToSet(Stacked) = Sunk
          BY <1>3, <3>1 DEF Unmerged, Stacked, Sunk
        <5> QED
          BY <5>1, <5>2
      <4> QED
        BY <1>2, <2>2, <4>1, CommitIsAncestors DEF Merging
    <3>2. CASE purpose # "land"
      BY <1>1, <2>2, <3>2 DEF Clashing, Cleared
    <3> QED
      BY <3>1, <3>2
  <2> QED
    BY <1>1, <1>2, <2>1, <2>2 DEF Clashing, Apart, AllOfIt
<1>5. CASE Here.conflicts # {}
  <2>1. at' = "unwind" /\ raised' = [kind |-> "conflict", stack |-> Here.tree, sinks |-> Here.conflicts]
    BY <1>5 DEF MergesDone, Throw
  <2>2. raised'.stack = Here.tree /\ raised'.sinks = Here.conflicts
    BY <2>1
  <2>3. Pinned' = {}
    BY <1>1 DEF Clashing, Pinned
  <2>4. ASSUME moves = 0 PROVE Pinning'
    <3>1. Merging /\ purpose = "land"
      BY <1>2, <1>5, <2>4 DEF Merging
    <3>2. ToSet(Stacked) = Sunk
      BY <3>1 DEF Stacked, Sunk
    <3>3. ASSUME NEW n \in Here.conflicts PROVE ~(Ancestors({n}) \subseteq Here.tree)
      <4>1. PICK p \in landing.clash : p \subseteq Ancestors({n}) \cup Here.tree /\ ~(p \subseteq landing.base)
        BY <3>1, <3>3 DEF Merging
      <4> QED
        BY <3>1, <4>1 DEF Merging, Apart
    <3>4. \A n \in Sunk \ Here.conflicts : Ancestors({n}) \subseteq Here.tree
      BY <1>3, <3>1, <3>2 DEF Merging
    <3>5. Here.conflicts \subseteq Sunk
      BY <3>1 DEF Merging
    <3> QED
      BY <1>1, <2>2, <2>3, <3>3, <3>4, <3>5 DEF Pinning, Refused
  <2> QED
    BY <1>1, <1>2, <2>1, <2>4 DEF Clashing, Cleared
<1> QED
  BY <1>4, <1>5

(* A pin is one sink fewer to pin.                                          *)
LEMMA PinClashing ==
    ASSUME Shape, Clashing, NEW n \in Node, Pin(n)
    PROVE  Clashing'
<1>1. /\ at = "unwind" /\ at' = "unwind" /\ UNCHANGED <<landing, ref, moves>> /\ Sunk' = Sunk
      /\ raised.kind = "conflict" /\ n \in raised.sinks
  BY Rigid DEF Pin, Throw, Raise, repo
<1>2. raised \in [kind : {"conflict"}, stack : Trees, sinks : SUBSET Node]
  BY <1>1 DEF Shape, RaisedShape, Ways
<1>3. CASE raised' = [kind |-> "catastrophic"]
  BY <1>1, <1>3 DEF Clashing, Cleared
<1>4. CASE pins' = [pins EXCEPT ![n] = raised.stack] /\ raised' = [raised EXCEPT !.sinks = @ \ {n}]
  <2>1. raised'.stack = raised.stack /\ raised'.sinks = raised.sinks \ {n}
    BY <1>2, <1>4
  <2>2. raised.stack # None
    BY <1>2, LandAssumption DEF Trees
  <2>3. Pinned' = Pinned \cup {n} /\ pins'[n] = raised.stack /\ \A m \in Node \ {n} : pins'[m] = pins[m]
    BY <1>4, <2>2 DEF Pinned, Shape, RepoShape
  <2>4. Refused' = Refused
    BY <1>1, <2>1, <2>3 DEF Refused
  <2>5. moves = 0 => Pinning'
    BY <1>1, <2>1, <2>3, <2>4 DEF Clashing, Pinning, Pinned
  <2> QED
    BY <1>1, <2>5 DEF Clashing, Cleared
<1> QED
  BY <1>3, <1>4 DEF Pin, Throw, Raise

(* No other step pins, refuses for a conflict, or goes on to stack before   *)
(* the whole stack was merged.                                              *)
LEMMA NothingElsePins ==
    ASSUME Shape, Standings, Next, ~Others, ~OpenStack, ~MergeNext, ~MergesDone, \A n \in Node : ~Pin(n)
    PROVE  /\ pins' = pins
           /\ raised'.kind = "conflict" => raised' = raised
           /\ Cleared' => Cleared
           /\ at' \notin {"unwind", "ended"} => at \notin {"unwind", "ended"}
           /\ at' = "ended" /\ raised'.kind = "conflict" => raised'.sinks = {}
<1> USE DEF Goto, Raise, Throw, Cleared, Inside, OnStack
<1>1. CASE RefuseUnrunnableGates
  BY <1>1 DEF RefuseUnrunnableGates
<1>2. CASE ReadClosed
  BY <1>2 DEF ReadClosed
<1>3. CASE ResolveRefs
  BY <1>3 DEF ResolveRefs, Standings
<1>4. CASE Provision
  BY <1>4, ProvisionDoes
<1>5. CASE RunGate
  BY <1>5, RunGateDoes
<1>6. CASE RetryGreen
  BY <1>6, RetryGreenDoes
<1>7. CASE RunLandGate
  <2>1. /\ pins' = pins /\ at = "asks" /\ at' \in {"asks", "unwind"}
        /\ raised' = raised \/ raised' = [kind |-> "blocked"]
    BY <1>7, RunLandGateDoes
  <2>2. [kind |-> "blocked"].kind # "conflict"
    OBVIOUS
  <2> QED
    BY <2>1, <2>2
<1>8. CASE GateGreen
  BY <1>8 DEF GateGreen
<1>9. CASE RetryRed
  BY <1>9 DEF RetryRed
<1>10. CASE Publish
  BY <1>10 DEF Publish
<1>11. CASE Blame \/ Probe \/ Recheck
  BY <1>11 DEF Blame, Probe, Recheck
<1>12. CASE ProbeDone
  BY <1>12 DEF ProbeDone
<1>13. CASE (\E k \in DOMAIN stack : DisposeStack(k)) \/ End
  BY <1>13 DEF DisposeStack, End
<1> QED
  BY <1>1, <1>2, <1>3, <1>4, <1>5, <1>6, <1>7, <1>8, <1>9, <1>10, <1>11, <1>12, <1>13
  DEF Next, Step, Others

(* Every step keeps what the landing knows of its clashes.                  *)
LEMMA StepClashing ==
    ASSUME ClashesApart, IInv, Clashing, Next
    PROVE  Clashing'
<1> USE DEF IInv
<1>1. CASE Others
  <2>1. UNCHANGED <<at, pins, raised>> /\ moves' # 0
    BY <1>1, OthersMove
  <2> QED
    BY <2>1 DEF Clashing
<1>2. CASE OpenStack
  BY <1>2, OpenClashing
<1>3. CASE MergeNext
  BY <1>3, MergeClashing
<1>4. CASE MergesDone
  BY <1>4, MergesDoneClashing
<1>5. CASE \E n \in Node : Pin(n)
  BY <1>5, PinClashing
<1>6. CASE ~Others /\ ~OpenStack /\ ~MergeNext /\ ~MergesDone /\ \A n \in Node : ~Pin(n)
  <2>1. /\ pins' = pins /\ (raised'.kind = "conflict" => raised' = raised) /\ (Cleared' => Cleared)
        /\ at' \notin {"unwind", "ended"} => at \notin {"unwind", "ended"}
        /\ at' = "ended" /\ raised'.kind = "conflict" => raised'.sinks = {}
    BY <1>6, NothingElsePins
  <2>2. at' # "merge" /\ landing' = landing /\ Sunk' = Sunk
    BY <1>6, TreesStand, StepRigid
  <2>3. moves' = 0 => moves = 0 /\ ref' = ref
    BY StepMoves
  <2> QED
    BY <2>1, <2>2, <2>3 DEF Clashing, Apart, AllOfIt, Pinning, Pinned, Refused
<1> QED
  BY <1>1, <1>2, <1>3, <1>4, <1>5, <1>6

(* A landing begins with nothing pinned.                                    *)
LEMMA InitClashing == Init => Clashing
  BY DEF Init, Clashing, NotRaised, Cleared

(* When nobody else moves anything and no node's branch has both sides of a *)
(* clash, the conflicts of a landing are pinned at one stack, which they do *)
(* not fit on and which holds every other sink.                             *)
THEOREM PinsCompleteTheStackHolds ==
    ASSUME ClashesApart
    PROVE  Spec => []PinsCompleteTheStack
<1>1. IInv /\ Clashing /\ [Next]_vars => Clashing'
  <2>1. ASSUME IInv, Clashing, UNCHANGED vars PROVE Clashing'
    <3>1. /\ UNCHANGED <<landing, ref, at, purpose, stack, raised, pins, moves>> /\ Sunk' = Sunk
          /\ Here' = Here /\ Stacked' = Stacked
      BY <2>1, Rigid, SameWhole DEF vars, trees, repo, bisection, Here, Kind
    <3> QED
      BY <2>1, <3>1 DEF Clashing, Cleared, Merging, Apart, AllOfIt, Pinning, Pinned, Refused
  <2> QED
    BY <2>1, StepClashing
<1>2. IInv /\ Clashing => PinsCompleteTheStack
  <2> SUFFICES ASSUME IInv, Clashing, at = "ended", raised.kind = "conflict", moves = 0,
                      NEW n \in Pinned
               PROVE  /\ n \in Sunk /\ ~(ref[n] \subseteq pins[n])
                      /\ \A m \in Sunk \ Pinned : CommitOf(m) \subseteq pins[n]
    BY DEF PinsCompleteTheStack, Pinned, Sunk
  <2>1. Pinning /\ raised.sinks = {} /\ ref = [m \in Node |-> Ancestors({m})]
    BY DEF Clashing
  <2>2. Refused = Pinned /\ Sunk \subseteq Node
    BY <2>1, Lists DEF Refused, IInv, Shape
  <2>3. n \in Sunk /\ n \in Node /\ pins[n] = raised.stack /\ ~(Ancestors({n}) \subseteq raised.stack)
    BY <2>1, <2>2 DEF Pinning
  <2>4. \A m \in Sunk \ Pinned : CommitOf(m) \subseteq raised.stack
    <3>1. \A m \in Node : CommitOf(m) = Ancestors({m})
      BY CommitIsAncestors DEF IInv
    <3> QED
      BY <2>1, <2>2, <3>1 DEF Pinning
  <2> QED
    BY <2>1, <2>3, <2>4
<1> QED
  BY <1>1, <1>2, InitClashing, Invariant, PTL DEF Spec

=============================================================================
