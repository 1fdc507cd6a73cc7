------------------------------ MODULE MCRunNode ------------------------------
(* RunNode over one node of each kind of work, and the options that change   *)
(* what its ladder does.                                                     *)
EXTENDS RunNode

CONSTANTS claude, codex, grok

Prompted == [work |-> <<"prompt">>, setup |-> TRUE, smoke |-> TRUE, provider |-> claude,
             auditor |-> grok, onDead |-> "resume", maxAttempts |-> 2]
Commanded == [Prompted EXCEPT !.work = <<"command">>, !.auditor = NoProvider, !.setup = FALSE]
(* Two cycles of red and green: a seal may lie behind a later red phase. *)
Cycles == [Prompted EXCEPT !.work = <<"red", "impl", "green", "red", "green">>,
                           !.setup = FALSE, !.smoke = FALSE, !.auditor = NoProvider,
                           !.maxAttempts = 3]
RedLast == [Cycles EXCEPT !.work = <<"red">>, !.maxAttempts = 2]
SelfAudited == [Prompted EXCEPT !.auditor = claude]
Unretried == [Prompted EXCEPT !.onDead = "fail", !.maxAttempts = 0]

AllNodes == {Prompted, Commanded, Cycles, RedLast, SelfAudited, Unretried}

Plain == [fallback |-> codex, seal |-> 0, resumed |-> FALSE, settle |-> TRUE, runner |-> "umbel"]

UmbelOptions ==
    {Plain,
     [Plain EXCEPT !.fallback = NoProvider, !.settle = FALSE],
     [Plain EXCEPT !.fallback = claude],
     [Plain EXCEPT !.fallback = grok],
     [Plain EXCEPT !.seal = 1, !.resumed = TRUE],
     [Plain EXCEPT !.resumed = TRUE]}

DirectOptions == {[Plain EXCEPT !.runner = "direct"]}
EveryOption == UmbelOptions \cup DirectOptions
=============================================================================
