----------------------------- MODULE MCWorktree -----------------------------
(* Worktree on two paths: one that is delivered and one under a             *)
(* never-delivery directory.                                                *)
EXTENDS Worktree, TLC

CONSTANTS code, scratch

Repo(rules, quotes) == [ignored |-> rules, quoted |-> quotes]
Kinds == {Repo({}, {}), Repo({code}, {}), Repo({}, {code})}
SomeBases == {code :> "base" @@ scratch :> "none", code :> "none" @@ scratch :> "base"}
MayLeave == code :> {"none", "work", "refused"} @@ scratch :> {"work"}

(* A node audited after its smoke, one a later run takes up again, two with *)
(* phases (tried twice; taken up again), one that is a command.             *)
Shape(kind, setup, smoke, audit, fresh, most) ==
    [kind |-> kind, setup |-> setup, smoke |-> smoke, audit |-> audit, fresh |-> fresh,
     maxAttempts |-> most]
Some == {Shape("prompt", FALSE, TRUE, TRUE, TRUE, 2), Shape("prompt", FALSE, TRUE, FALSE, FALSE, 1),
         Shape("phased", FALSE, TRUE, FALSE, TRUE, 2), Shape("phased", FALSE, FALSE, FALSE, FALSE, 1),
         Shape("command", TRUE, FALSE, FALSE, TRUE, 2)}
=============================================================================
