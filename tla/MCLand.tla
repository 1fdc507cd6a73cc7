------------------------------- MODULE MCLand -------------------------------
(* Land over four sinks on one root, every answer a shared suite can give   *)
(* about one or two of them, and smokes that only their own sink satisfies. *)
EXTENDS Land

CONSTANTS root, a, b, c, d, main, other

Plan == <<root, a, b, c, d>>
PlanNeeds == [n \in Node |-> IF n = root THEN {} ELSE {root}]
Sunk == {a, b, c, d}
Branches == {main, other}

Has(S) == [has |-> S, lacks |-> {}]
Mends(n, m) == [has |-> {n}, lacks |-> {m}]

(* One or two ways for the suite to be red: one sink, a pair, the base      *)
(* itself, another's commit, a sink without the one that mends it.          *)
Reds == {Has({n}) : n \in Sunk} \cup {Has(p) : p \in {{a, b}, {a, d}, {c, d}}} \cup {Has({}), Has({Edit}), Mends(c, a)}
Suites == {{}} \cup {{r, s} : r, s \in Reds}

Truth(suite) == [unit |-> suite, map |-> {Has({a, b, c, d})},
                 b_test |-> {Mends(root, b)}, d_test |-> {Mends(root, d)}, bd_test |-> {Has({b, d})},
                 pipe |-> {}]
All(x) == [n \in Node |-> x]

Whole(suite) ==
    [named |-> None, head |-> main, smoke |-> All("unit"), setup |-> All("install"), gates |-> <<>>, sha |-> TRUE,
     closed |-> Node, base |-> {}, truth |-> Truth(suite), clash |-> {}]

Suited == {[Whole(s) EXCEPT !.setup = All(None)] : s \in Suites}
Provisioned == {Whole({Has({n})}) : n \in {a, d}}
Gated == {[Whole({}) EXCEPT !.gates = <<"map">>, !.closed = C, !.named = N, !.smoke = S] :
             C \in {Node, Node \ {d}, Node \ {b}}, N \in {None, <<b, a, b>>}, S \in {All("unit"), All(None)}}
Piped == {[Whole({}) EXCEPT !.gates = <<"map", "pipe">>], [Whole({}) EXCEPT !.head = "detached"]}
Clashing == {[Whole({}) EXCEPT !.clash = C, !.base = B, !.setup = All(None)] :
                C \in {{{a, b}}, {{a, c}, {b, d}}, {{a, Edit}}}, B \in {{}, {root, a}}}
(* a breaks the suite; b and d have smokes that only their own work passes. *)
OwnSmokes == {[Whole({Has({a})}) EXCEPT !.smoke = [n \in Node |->
                 IF n = b THEN "b_test" ELSE IF n = d THEN "d_test" ELSE "unit"], !.sha = FALSE]}

(* The suite is green; b's smoke is red on any composition with d.          *)
TwoSmokes == {[Whole({}) EXCEPT !.smoke = [n \in Node |-> IF n = b THEN "bd_test" ELSE "unit"]]}

(* What PinsCompleteTheStack is proved from, true of every landing above.   *)
ASSUME NobodySettledAClash == ClashesApart

AllLandings == Suited \cup Provisioned \cup Gated \cup Piped \cup Clashing \cup OwnSmokes
=============================================================================
