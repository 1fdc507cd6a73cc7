# pleach in TLA+

pleach runs a plan: a directed acyclic graph of nodes, each of which is worked
on by a coding agent (or a shell command) in a git worktree of its own, put
through gates, audited by another provider, committed to `node/<id>`, and
finally landed on a branch. This directory models the parts of it whose
correctness depends on the order in which things happen, checks them with TLC on
small instances, and proves with TLAPS for every instance what those checks say of
safety: of the run lock, `pleach clean`, the scheduler, a node's ladder and its worktree, a
landing, and the history of runs over one repository.

Paths below are relative to the repository root (`src/loop/run-plan.ts` and so
on). `PROJECT.json` lists every run, mutant, theorem and hazard, and maps each
definition to the lines it models.

## 1. The system

| component | source | state it keeps | operations |
|---|---|---|---|
| run and landing lock, drain marker | `seams/lock.ts`, `seams/clean.ts` | a lock file holding a pid, a stop marker beside it | acquire (create, inspect, take over, retry), release, requestStop, stopRequested, clearStop |
| reaping | `faces/cli.ts` (verbClean), `seams/clean.ts`, `core/reap.ts` | none of its own: it reads locks, the journal, the session list and the worktree list | look for locks, unlink stale ones, read the unreaped sessions, reap each and journal it, list and remove worktrees |
| run scheduler | `loop/run-plan.ts`, `core/scope.ts`, `core/reload.ts` | the fate sets `closed failed blocked aborted partial`, `inflight`, the scope, the plan in force, `started`, the rebuild groups | reload, choose and launch, race, settle (commit, verdict, emit, quarantine, dispose, receipt, dual close), final stop check |
| run startup | `loop/run-plan.ts` | what earlier runs left: branches, receipts, quarantines, pins | applyAcceptanceEvolution, seedClosure, resolveBaseRef, resumeFrom |
| node conductor | `loop/run-node.ts`, `loop/run-work.ts`, `loop/settle.ts`, `core/backoff.ts` | attempt counter, provider in force, worktree in hand, last sealed red phase, live worker, re-audit count | isolate, setup, spawn, phases with red/green gates and seals, command work, provider-error re-runs, recast, settle window, marker, hygiene, smoke, audit |
| landing | `loop/land.ts` | the stack worktree, land gates, pins | closure check, stack, gates with a retry, bisect, publish |
| isolation | `seams/isolate.ts` | worktrees (files, index, HEAD) and their refs | isolate with its merges, changedFiles, recordTree and restoreTree, stage, seal, snapshot, commitVerified, dispose |
| worker adapters | `adapters/umbel.ts`, `adapters/direct-cli.ts` | a session | spawn, prompt, wait, kill |
| ledger adapters | `adapters/tend.ts`, `adapters/git.ts` | external | emitVerdict, closed set |
| receipts and journal | `seams/receipts.ts`, `seams/journal.ts` | append-only files | append, write |
| re-adjudication | `loop/audit-node.ts` | none of its own | audit a quarantined tree |
| receipt verification | `loop/receipt-verify.ts` | none | search git history by patch-id |
| validation, casting, hygiene scans, classification, narration, CLI | `core/*`, `faces/*` | none | pure functions and I/O |

**How they interact.** `runPlan` takes the lock and calls `runUnderLock`, whose
loop launches `runOne(node)` promises up to the cap and waits on
`Promise.race`. A `runOne` calls `runNode`, which drives a worktree, a worker and
the gates through *seams* (interfaces in `deps.ts`), and answers with a
verdict; `settle` then commits, tells the ledger, keeps or disposes of the tree
and writes the receipt. An operator's `pleach stop` writes a marker that the
loop reads before each launch; an interrupt fires an `AbortSignal` every seam
sees. `land` works under a lock of its own and leaves *pins* that a
later run's startup turns into rebuild groups. `clean` takes from the ground whatever
a killed run left there, and knows a live run only by its lock.

**What is hard about it.** The program is one thread, so everything interesting
happens across an `await`: a launch is decided before the stop marker is
read and made after it; the pid is written after the lock file exists; the
holder is inspected, asked for liveness and unlinked in three steps; a dozen
awaits separate a verdict from the end of its settle, any of which may reject
while other nodes run; retries, re-runs, recasts, backoffs and re-audits nest,
each with its own budget, over a tree that sometimes survives and sometimes
does not. And separate processes meet over the lock file, any of which may be
killed between two steps.

**What makes each component correct.**

- lock: one conductor per plan; a dead conductor never blocks the next; the
  acquire ladder ends; a drain reaches the run it was meant for and no other.
- scheduler: a node starts only on closed dependencies with their worktrees
  gone; a node has one fate; `done` is told only of a committed branch; no tree is
  disposed of with its work lost; the cap holds; a reload never touches a started
  node; rebuild groups go in plan order; the run ends, with nothing in flight.
- node: `done` means every declared gate passed on this tree after the worker's
  last turn; a seal stands for the tree in hand only; attempts, workers and trees are
  bounded and accounted for; the auditor is never the builder; an abort is an
  abort; the node settles.
- landing: what is published passed every gate on the very stack published; a
  refusal names a culprit that really fails; the branch only moves forward.
- worktree: what is committed is what the gates judged; what a failed gate wrote is in
  no commit; a tree goes only when its work is kept or the miss is journaled.
- reaping: a live run loses nothing; what a dead one leaves can be found.
- startup: what a changed acceptance invalidates is rebuilt with all that
  stands on it; a resume stands on the tree its receipt vouches for.

## 2. Plan

| order | module | models | state |
|---|---|---|---|
| 1 | `RunLock` | the lock protocol and the drain marker between processes | modelled, checked, safety proved |
| 2 | `DagRun` | what a run promises, abstractly | the refinement target of `Scheduler` |
| 3 | `Scheduler` | the loop and every node's settle | modelled and checked; all its safety proved (`SchedulerProofs`), with the refinement (`SchedulerImplements`) |
| 4 | `RunNode` | one node's ladder | modelled and checked; all its safety proved (`RunNodeProofs`) |
| 5 | `Worktree` | what one node's ladder does to the files, the index and HEAD of its worktree | modelled and checked; all its invariants proved (`WorktreeProofs`) |
| 6 | `Clean` | `pleach clean` beside the runs it must leave alone: `RunLock` extended with a run's worktree, session and journal lines | modelled, checked, safety proved (`CleanProofs`) |
| 7 | `Land` | one landing: closure check, stack, gates, retry, bisect, publish and pins, against an operator and runs that move branches | modelled and checked; all its safety proved (`LandProofs`) |
| 8 | `History` | many runs, re-audits and landings over one repository: acceptance evolution and its cascade, seedClosure, resume, kills between a commit and its receipt | modelled and checked; all its safety proved (`HistoryProofs`) |
| 9 | `Pleach` | `RunLock` around `Scheduler`, and `RunNode` in place of `Scheduler!Return`: today the latter two meet in `OutcomesAreEarned` | not written |
| 10 | `Adapters` | a worker session of each adapter: poll, classification, abort and kill, of which `RunNode` today takes only the answers | not written |

The abstract specification of a run is `DagRun`, related to `Scheduler` by
`INSTANCE DagRun WITH`. Between `Scheduler` and `RunNode` the contract is an
assumption and a guarantee: `Scheduler` abstracts `runNode` to two steps (`Isolate`,
`Return`), and what it assumes of the answer is a property of `RunNode`
(`OutcomesAreEarned`). Between `Scheduler` and `History` it is a choice of grain:
`History` runs nodes one at a time and ends a conductor anywhere, `Scheduler`
interleaves the nodes of one run. Between `RunNode` and `Worktree` it is a choice of
view: the same ladder, in one with what decides its way and in the other with
what it does to the files. `Clean` EXTENDS `RunLock` and conjoins each step of a
conductor with the ground it stands on, so it is a refinement of `RunLock` by
construction of its actions, and proved to be one.

## 3. The modules and the code

### RunLock

A process is an element of `Proc` and is its own pid. `pc[p]` follows
`acquireAt`: `Create` is `open(path, 'wx')`, `WritePid` the separate write of the
pid (to the inode, even if the path no longer names it), `CreateExists` the
EEXIST branch, `ReadHolder` `readPid`, `CheckLiveness` `process.kill(pid, 0)`,
`Takeover` the unlink before the single retry, `Release` the handle's unlink.
The run under the lock is what the lock and the marker see of it:
`LaunchDecision`, `FinalStopCheck`, `ClearStop`, `RunThrows`. `StopFindsHolder`
and `StopWritesMarker` are the two halves of `requestStop`; `SweepReads`,
`SweepClassifies`, `SweepUnlinks` are `sweepStaleLocks` (the first half of `Clean`). `Crash` ends a process
anywhere and cleans up nothing. A file system that loses an `unlink` or a
`read` error other than ENOENT are not modelled. Pids are never reused: the code
cannot tell, and says so.

### Scheduler

`loop` is the place in `runUnderLock`: `reload` and `decide` are the code up to
the choice of `ready().find`, `asking` the await of `stopRequested`, `launching`
its continuation, `race` the `Promise.race` (which watches the promises in
flight when it was called: `watched`), `final` the last marker check, `ended`,
`thrown`, `crashed` (an unhandled rejection) and `released` the ways out.
`at[n]` is the place of n's promise in `runOne` and `settle`, one stage per await that
another actor can act across. `closed`, `failed`, `blocked`, `aborted` and `partial`
are the code's sets. `outcome[n]` is the verdict, what the tree holds and the
ledger's decision. `LedgerRejects` says whether `emitVerdict` may reject
(`gitLedger` catches everything; an external one may not) and `SeamThrows`
whether an await that no catch covers may: an append of `settle`, or one of the loop
itself. `LoopThrows` is the latter: the appends of a reload (run-plan.ts:865-879), the marker's
stat, which rethrows any error but ENOENT (lock.ts:172-176, awaited at 908 and 922), and the
appends at the end. It leaves what is in flight where it is, and `threw` remembers it. The process exits
soon after such a run's release, and takes its nodes with it; the model lets them go on, which is
what they may do until then.

`kept[n]` and `tree[n]` say what `quarantineTree` and `disposeOrJournal` left; a
failed disposal is journaled and the code goes on, so `disposed` means the
disposal was attempted. `launched[n]` and `late` are history: the version of the
plan entry the promise was launched with, and the launches since the marker.

The initial states are what startup leaves: any closed set that is closed under
needs (`seedClosure`), the scope `computeRunScope` derives from `Only`, and the
pinned stacks `StackOf`.

### RunNode

`at` is the lane of `runNode`: `preflight`, `attempt`, `isolate`, `setup`,
`spawn`, `backoff`, `spawned`, `exec` (command work), `wait` / `settlePhase` /
`gate` / `seal` (phased work), `ended` (runWork returned and the worker was killed),
`settle`, `marker`, `hygiene`, `smoke`, `audit`, `auditing`, `returned`. What a
seam answers is free among what it can answer; which reasons a `wait` may end
with, with and without the signal, is read off each adapter (`WaitReasons`).
`tree` says which red phases are sealed in the worktree, whether the worker and
whether a gate left uncommitted files, and whether a conflict marker or a
`BLOCKED.md` is there. `Recast`, `Retry` and `UnlessBlocked` are the
code's three ways to go on. `Surprise` is the outer catch.

The scans (hygiene, placeholder, no-op seal), the audit's verdict and the
tamper check are choices; the text they match is not modelled.

### Worktree

A tree is a function from paths to *who wrote what is there* (`Content`): the base,
the worker, a command it left running, a gate that passed, one that failed, one
that could not run, a commit hook, a conflict marker. `wt`, `index` and `head` are three such
trees. `changedFiles`, `recordTree`, `restoreTree`, `collectDelivery`, `stage`
and `stagedPaths` are the isolate seam's operations with git's rules about tracked
and ignored paths; `Scratch` is the never-delivery directories. `Changed` is what `git status`
knows, `changedFiles` the names it prints: a path with a space or a non-ASCII character (`quoted`) is
printed in quotes, and the seam does not take them off (isolate.ts:380-394). Such a name stands for
no path (`InQuotes`): it is in no directory, no ignore rule matches it, it makes a delivery that is not
empty, and `stage`, which finds it neither in the index nor in the tree, drops it. The scans
and the recorded trees read such paths as they are, and a worker's manifest names them plainly.

`at` follows the ladder from `isolate` to `dispose`: merges that conflict
(`MergeConflicts`: the markers are committed, unless a hook refuses) or that a hook refuses without a
conflict (`MergeRefused`: the seam tries to commit that as it commits a conflict), a worker's
turn (`Work`), the settle window over recorded trees, each command gate as a run
that records the tree and ends by passing, failing (rewound, and run again where
the code does), or not running at all, the seal of a red phase, the scans and the scoped
staging of the close, the audit, the verified commit with its hooks, the quarantine
and the disposal. `Resume` starts a later run on the quarantine. `BackgroundWrites`
is whatever a worker left running, at any moment; `SeamFails` a git or file
operation that throws. Workers and gates edit files and leave git to pleach: one that
commits or stages for itself is not modelled.

`judged` and `smoked` are history: the index hygiene passed, and the files the last
smoke began with.

### Clean

`RunLock` knows a conductor by its lock; `Clean` adds one node's ground to it: `tree`
(the registered worktrees), `worker` (each conductor's session, which outlives it)
and `named` (the last line the journal holds of that session). A session spawned and not
yet journaled, killed and not yet noted, is between two actions. A kill that umbel
refuses is tolerated, as the code does: the session `survives`. `InRun` goes on behind
the lock's release, because a rejected promise leaves the others in flight.

`clean` is the place in `verbClean`: `CleanLooks` reads the lock, `CleanClassifies` asks
after its holder, `CleanUnlinks` removes a stale one, `CleanReadsJournal` takes
the unreaped sessions (none, for a runner that cannot reap), `reap` and `CleanNotes` end and
journal each, `CleanListsTrees` and `sweepOrphanWorktree` remove the worktrees. `CleanDies` is
any of it throwing or being killed. One lock file stands for all of them, as the code treats each alike;
`--dry-run` changes nothing and is left out. `saw` and `lost` are history.

### Land

A commit is the set of changes it contains, so being an ancestor is being a subset: a
node's branch is what it stands on and the node itself, `Edit` is a commit of the
operator's. `landing` is what one `pleach land` is asked (`named`, `gates`) and what it
is asked over: what the ledger calls closed and whether it records commits (`sha`),
where the checkout is, each node's smoke and setup, on which trees each command is
red (`truth`) and which changes do not merge (`clash`).

`at` is the step of `landPlan` and `purpose` what the stack in hand is for: the landing
itself, the left or the right half of a bisect, or the recheck of the subset
without culprits. All four go through the same `OpenStack`, `MergeNext`,
`MergesDone`, `Provision` and `RunGate`, as the code's probes go through `landStack` and
`runGate`. The recursion of `bisectCulprits` is a work list, `goals`: `halve` is a
call, `rest` the retest of the right half that follows a red left one. `raised` is
how the landing ends, an exception on its way through the `finally`s:
`DisposeStack` may replace it, `Pin` is the catch of a conflict, `End` the outermost frame.

`OperatorCommits`, `OperatorChecksOut` and `NodeBranchMoves` are other people's
moves at any moment: the landing's lock is its own (`RunLock`) and keeps none of
them out. A gate tells the truth about its tree except for `Flakes` wrong
answers. A land gate that names `{base}` is abstracted to its answer; a ledger or
a journal that rejects is left out.

### History

A commit is the set of commits it descends from, its own number included, and `log`
says what each of them is: whose node, which plan's, verified, kept, re-audited, a
stack or an edit by hand, and which acceptance was green on it. What persists is in
`branch` (`node/<id>`), `quarantine` (`quarantine/<id>` and the name used when
that one is checked out), `pin` (`refs/pleach/rebuild/<id>`), `receipts` (the
latest of each node, as the code looks them up) and `verified` (tend's record).
`isAncestor` is the seam's.
`Ledger` is `readClosed` under either ledger.

`Run` is the start of a run, in the code's order: `readClosed`,
`AcceptanceChanged`, `Pinned`, `Cascade`, `SeedClosure`, `BaseRef`. `Launch` joins
`resumeFrom` (`Seeds`, `Vouched`) with `baseRefsFor` (`Bases`). `Verify` and `Fail` are
all the ways a node may settle (`accept.smoke` is optional: a node without one, `smoke = 0`, settles with no smoke in its
receipt, and its audit follows its work); then `EmitDone`, `Record` and `Close` follow one
await at a time. `Audit`, `AuditPasses` and `AuditRefuses` are `pleach audit`.
`Stop` ends the conductor between any two steps: a kill, a drain or a seam
that rejects. The operator edits an acceptance (`EditPlan`), moves or deletes
branches (`BranchMoves`, `QuarantineMoves`), and lands (`LandPins`: any closed nodes whose
refs resolve may be asked for, land.ts:166-180, any of them may conflict, and those are
pinned at the stack of those that merged).

A conductor has the repository for itself and works on one node at a time. `--only`,
which `Scheduler` has, phases and a reload in mid-run are left out (an acceptance is edited between
the steps of a conductor, and taken up by the next run); that a resume may also be refused for
its seal is a free choice in `Seeds`.

## 4. Runs

Passing runs (distinct states as TLC counts them):

| run | instance | shows | states |
|---|---|---|---|
| `Clean_run` | two conductors with a node each, one errand (a stop or a whole clean), crashes anywhere | a holder loses its file only to a recorded robbery; a clean takes nothing from a run whose lock it saw; a live session is one the journal still names; a stale lock never blocks the only live process | 811 k |
| `Scheduler_run` | a, b, and c built on a; b and c pinned to one stack; a audited and phased; caps 1 and 2; one reload; stop and interrupt at any time; a ledger, appends and awaits of the loop that reject | the ordering invariants, group order, no changed work lost, the lock covers the nodes, the refinement of DagRun, a clean run is complete, the run ends | 1.24 M |
| `RunNode_ladder` | six kinds of node, seven sets of options, every answer of every seam, abort at any time | what each outcome means, seals, trees, workers, and that the node settles | 677 k |
| `Worktree_run` | five kinds of node over two paths and two runs; merges that conflict or that a hook refuses, background writers, hooks, gates that fail or cannot run, a seam that throws anywhere; the delivered path plain, ignored or printed in quotes | what is published is what was judged and what the smoke saw, nothing refused and nothing of a failed gate is published, a disposed tree's work is kept | 4.8 M |
| `Land_gates` | four sinks on one root; every suite that one or two causes make red; subsets, clashes, setups, gates; one flake, one foreign move | whom the bisect names, what is published, what is pinned, what is left behind, that the landing ends | 695 k |
| `History_runs` | eight repositories of one or two nodes, with and without a smoke, under either ledger | what is resumed, trusted and re-audited, and what a verified commit stands on | 2.5 M |

Every property of a passing run has a mutant of the code, kept beside the
definition it alters, under which the same run finds it violated.

Violations, each a disagreement between the code and what the repository says
of it:

| run | property | in short |
|---|---|---|
| `RunLock_mutex` | `OneConductor` | A second process reads the lock between its creation and the write of its pid, sees no pid, takes it for stale and replaces it. Two conductors, against ENGINEERING.md:130. |
| `RunLock_drain` | `DrainsOnlyWhenAsked` | The stop marker is written after the liveness check: if the run ends in between (or throws before its last check), the marker drains the next run. |
| `Scheduler_sealed` | `SealedWorkKept` | A node that ends right after its red phase was sealed, or whose verified commit could not move `node/<id>`, has no changed files: no quarantine is written, and the commit goes with the worktree. |
| `RunNode_direct` | `InterruptIsNotDeath` | Under the direct CLI an interrupted wait ends as `dead`, so the node is recast or counted as failed. |
| `Land_retry` | `PublishedPassedEveryGate` | The gate stops at its first red command; when that command's retry is green the stack is published, and the smokes behind it never ran. |
| `History_trust` | `NoSkipTrustOfAnotherSmoke` | A changed smoke re-dispatches a node, which fails and writes a receipt with the new smoke; the next run compares with that receipt and trusts the old commit. |

**What the properties except, and why.** Some hold only outside a case the code
is exposed to, and say so in their own text. `SeedIsNotSuperseded`,
`TrustedCloseWasVerified` and `NoSkipTrustOfAnotherSmoke` except closes that wrote
no receipt: a run stands by its skip there and says so (run-plan.ts:994-995).
`TrustedCloseWasVerified` is about closes of a run whose receipt is still the latest;
without the latter it is what `History_trust` refutes. `VerifiedStandsOnVerified`
leaves needs' branches moved by hand out (`moves = 0`), and needs that only `seedClosure`
closes, and likewise, in its second half, the earlier members of a rebuild group that
only `seedClosure` closes. `OnlyVerifiedLands` speaks of what a landing
adds: the target may hold anything before. `CulpritsAreGuilty` is for `Steady` landings: a gate that flakes
or a sink that mends what another breaks has no culprit to be right about.
`PinsCompleteTheStack` is for landings nobody interfered with, in repositories where no
branch settled a clash that others have (section 5). `CleanRunIsComplete` is checked over the whole plan: under
`--only` on a pinned group the code does leave a node undone. `LockCoversNodes` excepts runs in which a
node's promise or an await of the loop itself was rejected (a reload's append, the marker's stat), and `DagRun`
has such a run end as `broken`, with nodes in flight: there the code releases the lock over them.
`SweepSparesTheSeen` is about the runs whose lock was there at the look: one that starts
after it is not protected from the sweep. `LeakIsFound` excepts a session whose
first line is not written yet and one that outlived a kill. `NothingRefusedIsPublished`
excepts what a resumed quarantine already held, and for markers the never-delivered paths and those printed in quotes;
`RedGateWritesNeverDelivered` and `PublishedIsWhatSmokeSaw` except the never-delivered paths, and tracked paths
that an ignore rule matches, which `recordTree` does not see; the latter also excepts the paths printed in quotes and what a
background command writes while the smoke runs. `KeptHoldsTheWork` excepts what is not staged yet of a path printed in quotes, and is about changes against HEAD: what
a sealed HEAD loses is the violation `Scheduler_sealed`. `ReauditedBuildWasGreen` excepts builds of a
node that declared no smoke: `seedFrom` finds no smoke in the receipt, decides on `facts.base` alone (audit-node.ts:377-400), and a
resumed build whose audit failed is published by a re-audit under another audit command though no smoke ever
judged it, which the comment at 374-376 ("no smoke recorded is no such claim") says may not be. Each of these cases is
a hazard in `PROJECT.json` or said in the property's own comment.

**Paths printed in quotes.** Without its exception each of three properties is violated, and each violation is
what the code does. A quarantine whose only changes are in such paths snapshots HEAD's own tree, and
the change goes with the worktree, no miss journaled, against docs/guarantees.md:7 ("work is never silently
lost"). A close publishes a commit without a file the smoke saw. And a marker that isolation committed in such a
path is published though the worker repaired it: the scan reads the repaired file, and the repair
is not staged. docs/dogfood/test-phase-commit.md:208 calls this "the `-z` quoted-path defect" and leaves it open.

**Bounds, and why they are enough.**

- `Clean`: two processes, one to hold and one to rob it, start beside it or live on
  when it dies; the theorems cover any number. `MaxErrands` bounds stops and cleans together; one suffices,
  since each acts once on the state it read. The two violations of `RunLock` have
  instances of their own.
- `Scheduler`: one dependency, one dependent and one independent node give
  every pairwise order of two settles and a launch; two pinned nodes are the
  smallest group, and one of them also waits for a need outside it. `MaxReloads` is 1, as a node
  is frozen from its launch on, whatever follows.
- `Worktree`: one delivered path and one never-delivered one, the former plain, ignored or printed in quotes; what the properties say
  they say path by path, and the paths meet only in `changedFiles = {}` and the scans'
  verdict on a whole tree, and in the one name `InQuotes`, which stands for all that are in quotes. `MaxMerges` is 1 (a second conflict adds markers to markers), `MaxWindows` 2
  (a window that settles, one that does not), `MaxRuns` 2 (a run and its resume).
- `RunNode`: two attempts (three for the two-cycle list: a retry, a recast, a
  retry). `ProviderWaits` is 1 instead of five: the edge of the budget is reached and
  nothing depends on its size.
- `Land`: four sinks are the fewest for which a bisect recurses on both sides and
  retests a right half of two on top of what it knows good. Any two of the ten
  ways of `Reds` may make the suite red. `Flakes` and `Moves` are 1: one wrong answer
  reaches every branch a gate's answer decides, and one move at every step is every
  race with one other actor.
- `History`: each of the eight worlds has bounds of its own on the commits made, trees
  kept, landings that pin, edits and moves; the worlds are chosen so that each mechanism
  meets the others it can disturb: a node kept, resumed, re-audited and asked something
  new, with a smoke and without; a chain with an edit or with a ref moved by hand; an audited node under
  tend, whose ledger may decline or reject; two nodes, both sinks or one built on the other, pinned and rebuilt in order; two plans that
  share a node id. An acceptance changes between two values, back and forth.

`MaxErrands`, `MaxReloads`, `MaxMerges`, `MaxRuns`, `Leaves`, `Loose`, `Flakes`, `Moves` and a world's bounds are the only guards
that are not the code's. Deadlock is not checked: a run, a node, a landing and a
process end, and a history ends at its bounds.

**Fairness.** `Clean!CleanFairSpec`: a process that began to acquire goes on, as it
awaits only file operations; nothing forces it to start, end or be killed, and the clean
is never fair. `Scheduler!FairSpec`: one weak fairness of the loop and the nodes' promises together,
because the event loop runs what is ready and every await of a node returns (a
wait is cut by the attempt clock, an exec by its timeout, a backoff by its
sleep). `RunNode!FairSpec`: weak fairness of the node's step, for the same
reason; that a single surprise could end any node is not relied on, since weak
fairness of the disjunction does not favour it. `Land!FairSpec`: weak fairness of
the landing's own step: git answers and every gate and setup has its time limit.
Interrupts, stops, the operator and other runs are never fair. `History` and `Worktree`
have no fairness: all they state is safety.

## 5. Proofs

All theorems hold for every value of the constants that satisfies the modules'
assumptions: `LockAssumption` and `BusyAssumption` (the two sentinels are not processes or files, the
bounds are numbers, the busy are processes), `SchedulerAssumption` (the plan is finite, needs are
nodes, caps are positive, the two switches are booleans; the graph need
not even be acyclic), `RunNodeAssumption` (a work list is one prompt, one
command or a list of phases; options have their types), `WorktreeAssumption`
(the sets of paths, nodes and bases have their types), `LandAssumption` (the plan is a list of
nodes, what a landing is asked is of that plan, a command is red on sets of its changes, a clash has two sides)
and `HistoryAssumption` (a world's ledger, needs and bounds have their types). Two theorems take a hypothesis of their
own: `CleanRunIsCompleteHolds` takes `NoCircularWait` and `WholeGroups`, `PinsCompleteTheStackHolds` takes
`ClashesApart`. The code does not enforce them; what happens without them is below.
`MCScheduler` and `MCLand` state them as assumptions of the instances, so TLC evaluates them.

**RunLockProofs.** `TypeOK /\ HolderKeepsFile` is inductive: the only steps that
take the path from a holder are the unlinks of a takeover, a sweep and a release,
and each records whom it robs. `TwoOnlyByRobbery` follows, as the path names one
file.

**CleanProofs.** Every step of `Clean` is a step of `RunLock` or a stutter of its
variables (`ImplementsRunLock`), so what is proved of the lock holds beside a
clean. `SweepSparesTheSeen` rests on `KnowsTheSeen`: a run the clean saw, that still holds
and was not robbed, is the one whose pid the look read (or it had none to read, and the unlink
that follows is recorded as a robbery), so the clean finds it alive and sweeps nothing. `LeakIsFound` needs that the lines of a session follow
its state: `killed` and `reaped` are written only of one that ended or survived.

**SchedulerProofs.** The safety properties are not inductive on their own. The
invariant `IInv` adds

- `Fated` and `OutcomeKnown`: a fate is given only at three of the settle's
  stages, and what the outcome is at each stage, from which `OneFate` follows;
- `Decided`: between the choice of a node and its launch, across the stat of
  the marker, the node stays idle and what it needs stays closed, because the
  closed set only grows; from it `Grounded`, hence `DependentsNeverOverlap` and
  `GroupInPlanOrder`;
- `TreeGone`: a node reaches its close with no live tree;
- `Published`: the commit precedes the emit, hence `CommitBeforeEmit`;
- `Frozen` and `Late`: for `StartedKeepsPlan` and `AtMostOneLateLaunch`.

These hold even when the ledger, every append and every await of the loop may reject.

**SchedulerImplements.** `Saved` strengthens `WorkKept`; `Room` (while a launch
is being decided there is room under the cap) gives the action property
`CapRespected` by cardinality. `Orderly` says that a promise past its fate has one
and that the loop leaves none behind unless one was rejected, or an await of its own; from it `LockCoversNodes`, and
`ImplementsDagRun`: every step of the scheduler is a step of `DagRun` or one it does
not see, whatever the ledger, the appends and the loop's own awaits do (`LoopThrows` is `Break`). `CleanRunIsComplete` is `Dry`: from the moment the loop finds
nothing ready until the run is over, nothing in the scope is ready (with nobody to stop it, the loop leaves no other
way). Of the undone nodes, some one waits neither for another's close nor for another's rebuild
(`NoCircularWait`), so it would be ready. `SinksWaitForNoCircle` derives that hypothesis from what
`validatePlan` checks (`AcyclicNeeds`) and what the comment at run-plan.ts:1011 says of
pins (`OnlySinksPinned`).

**RunNodeProofs.** What a verdict claims is known only by the lane it comes from, so
`IInv` says of each lane what is true there: which worker lives (`Manned`), that a tree
is in hand (`Holds`), which rungs are passed (`Climbed`) and that a list whose work
stopped is sealed to its end (`Finished`). `InOrder` (the phase in hand is
past the seal and every red one before it is sealed) makes `SealsBelongToTree` inductive;
`Eligible` (a recast happens once, to a provider that is neither refused nor dead)
gives `CastIsEligible`; `Budgeted` gives `AttemptsBounded`. One lemma per part has one case
per group of actions.

**WorktreeProofs.** What the verified commit holds is settled when the close is staged:
from then on the index stands still while gates, auditors and background commands write to the
files (`JudgedIsStaged`). `Agree` relates the index to the files from the staging to the end of the
smoke, through the rewind of a first red run, in the paths whose names the code can read (`Named`); `Unmarked` and `Scanned` say that the scans see every
path that staging takes; `Unsoiled` that a failed gate's writes go back to a record that holds none, and
`StagedWhole` that a quarantine stages all that changed but in the quoted paths. They hold for any set of paths.

**LandProofs.** `CulpritsAreGuilty` is the algorithm's correctness, for any plan, any sinks and any
gates that are steady: nobody moves a branch, no answer is wrong, and no sink mends what another
breaks. `Halved` is the invariant of the bisect's recursion: what it holds good is green as one
stack, each of the guilty makes that stack red, and so do the candidates it halves. `Learnt` is its step: a
probe that passes makes its whole stack the new context, one that fails leaves a red first
item. `Sorted` loses no sink on the way, so at the recheck the culprit-free sinks are just those held
good (`AllSorted`), and the diagnosis cannot be incoherent. That a probe says so of its sinks rests on
`Composed` (a stack without conflicts is on its way to the composition of what it stacks) and `Judged` (what the
gates still to run have not said is green). `Standings` says which worktrees stand at each
step (`NothingLeftBehind`), `Asked` that what is not yet green is still to be asked
(`PublishedPassedTheGates`). `Vouched` gives `OnlyVerifiedLands`: every sink is verified before any is
stacked, and from the opening of a stack to its publication its tree holds what the target held and what verified
sinks stand on, though branches move in between. `Clashing` gives `PinsCompleteTheStack`: a stack never holds both sides of a
clash that the target does not, a sink left out of it does with it, and a probe, which stacks a part of what merged,
leaves none out. What the recursive functions `Without`, `Dedupe` and `Ancestors` compute is
proved by `UpTo`, induction over a set of naturals, in place of the library's; that `Ancestors` is closed under needs
(`AncestorsComplete`) takes the pigeonhole: it climbs once per place of the plan, and a round that is not the last
finds a node more.

**HistoryProofs.** The invariant says what the records on disk are evidence of, at every point where a kill may leave them:
commits are closed under ancestry and every ref names one; a receipt's commits are of its node and plan, of the kind its status says and with
the acceptance it carries (a record of a green smoke only where one is declared, an audit's records behind it); a node that is not in `unrecorded` has nothing newer than its receipt. From
it a conductor at work knows what it read: its closed set is of commits the ledger took, its trusted nodes agree
with their receipts, the seed in hand is newer than any close it might be superseded by. `SeedIsNotSuperseded` is the order
of three commits (build, kept tree, close) across runs that may each be cut anywhere;
`VerifiedStandsOnVerified` follows the bases from `readClosed` through `Bases` into the merged tree, and a rebuild group from its
pins to the commits of the members before it: a pinned node is not closed at a commit when its run starts,
so what closes it at one is its rebuild.

**Only proved.** `OneFate`, `CommitBeforeEmit`, `StartedKeepsPlan`, `CapRespected`,
`TwoOnlyByRobbery`, `AttemptsBounded` and `CastIsEligible` are theorems that no
configuration checks.

**Only model-checked.** Liveness: `StaleNeverBlocks`, `RunEnds`, `NodeSettles` and
`LandingEnds`. Fairness and ENABLED are out of the prover's reach.

**What the proofs met.** Three statements held on the instances and could not be proved, because the code
does not keep them in general:

- *A circle of waits.* `CleanRunIsComplete` needs that no nodes wait for each other by needs and rebuild order together.
  Rebuild order is plan order, and a plan may list `b` before the `c` it needs. `pleach land --sinks` may name nodes
  that are not sinks (land.ts:166-180), so both may be pinned to one stack: `c` then waits for `b`'s rebuild and `b` for
  `c`'s close, and the run ends clean with both undone. The comment at run-plan.ts:1011 says "Only sinks are ever
  pinned".
- *A need that only a dependent closes.* `seedClosure` closes what stands under a closed node without a recorded commit,
  so its base is the name `node/<id>`, whoever published it. With `b` and `c` built on `a`, and plans p and q over one repository
  under the git ledger: p closes `a` and `b`, q publishes `node/a` again, and p's next run trusts `b` and builds `c` on
  q's `a`. git.ts:10-13 says two such plans "cannot cross-resume from each other's work".
  `VerifiedStandsOnVerified` therefore leaves such needs out. It leaves out such members of a rebuild group too:
  a pinned node whose dependent's close the cascade did not reach (a link between them is not in the ledger) is closed
  again by that dependent and not rebuilt, and the later members of its group merge its old branch.
- *A clash settled on a branch.* `PinsCompleteTheStack` needs `ClashesApart`. Where `d` needs `x` and `y` and settled
  their clash, the stack of `d`, `c` (on `x`) and `e` (on `y`) merges clean. If `d` then makes the gate red, the bisect's probe of
  `c` and `e` conflicts, and nothing in the bisect catches that: the landing ends as a conflict, `e` is
  pinned at a stack without `d`, and the diagnosis is lost. The comment at land.ts:102-109 says the pins are at "the
  one final clean stack commit".

Each is in the note of its hazard in `PROJECT.json`.

## 6. Not modelled

Git plumbing inside the isolate seam, process spawning, pane polling and
transcript parsing, canonical JSON, hashing and redaction, plan validation, receipt
verification by patch-id, status, narration and the CLI are I/O or pure
functions with no order to get wrong of their own; the modules take what their
callers see of them. The artifacts kept beside a receipt are left out, and a receipt's
own copy and the copy of the latest (`seams/receipts.ts`) are written in one step. The
inside of the worker adapters is in the plan above. A hazard that no property
covers is listed with a note in `PROJECT.json`.
