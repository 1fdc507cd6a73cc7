------------------------------ MODULE MCHistory -----------------------------
(* History over two nodes: a chain, under either ledger, and two sinks.     *)
EXTENDS History

CONSTANTS a, b, p, q

Plan == <<a, b>>
Chain == [n \in Node |-> IF n = b THEN {a} ELSE {}]
Sinks == [n \in Node |-> {}]

World(ledger, nodes, needs, audited, smokes, sources, commits, kept, pinned, edited, moved) ==
    [ledger |-> ledger, nodes |-> nodes, needs |-> needs, audited |-> audited,
     smoke |-> smokes[1], smokes |-> ToSet(smokes), sources |-> sources,
     commits |-> commits, keeps |-> kept, pins |-> pinned, edits |-> edited, moves |-> moved]

(* A node alone, kept, resumed, re-audited and asked something new, with a  *)
(* smoke or without; a chain, with one edit or one ref moved by hand; an    *)
(* audited first node under tend; two sinks and a chain, pinned and         *)
(* rebuilt; and two plans of one node id.                                   *)
AllWorlds ==
    {World("git", {a}, Sinks, {a}, <<1, 2, 0>>, {p}, 3, 2, 0, 1, 0),
     World("git", {a}, Sinks, {a}, <<0, 1>>, {p}, 3, 2, 0, 1, 0),
     World("git", {a, b}, Chain, {b}, <<1, 2>>, {p}, 3, 1, 0, 1, 0),
     World("git", {a, b}, Chain, {b}, <<1>>, {p}, 3, 1, 0, 0, 1),
     World("tend", {a, b}, Chain, {a}, <<0, 1>>, {p}, 2, 1, 0, 1, 0),
     World("git", {a, b}, Sinks, {}, <<1, 0>>, {p}, 5, 0, 1, 0, 0),
     World("git", {a, b}, Chain, {}, <<1, 0>>, {p}, 5, 0, 1, 0, 0),
     World("git", {a}, Sinks, {a}, <<1, 2>>, {p, q}, 2, 1, 0, 1, 0)}

(* One node, one close, one edit.                                           *)
Edited == {World("git", {a}, Sinks, {}, <<1, 2>>, {p}, 1, 0, 0, 1, 0)}

TwoSources == {p, q}
=============================================================================
