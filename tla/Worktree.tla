------------------------------ MODULE Worktree ------------------------------
(***************************************************************************)
(* What a node's worktree holds, from isolation to disposal, and what of   *)
(* it is committed: the isolate seam (src/src/seams/isolate.ts) under the  *)
(* ladder that drives it (run-node.ts, run-work.ts, settle.ts,             *)
(* delivery.ts) and the close or quarantine that ends it (run-plan.ts).    *)
(*                                                                         *)
(* A tree is a function from paths to who wrote what is there.  The        *)
(* working files, the index and HEAD are three trees; a worker, what it    *)
(* left running, the gates, the auditor and the repository's hooks write   *)
(* to them.  Workers and gates edit files and leave git to pleach.         *)
(***************************************************************************)
EXTENDS Integers, FiniteSets

CONSTANTS
    Path,         \* paths of the repository
    Scratch,      \* those under NEVER_DELIVERY (.loop-scratch, .plotplot/friction)
    Repos,        \* the repositories: the paths the ignore rules match, and those
                  \* git status prints in quotes (a space, a non-ASCII character)
    InQuotes,     \* a name in quotes: the name of no path
    Nodes,        \* the nodes there may be, each with the --fresh of its runs
    Bases,        \* what baseRefs[0] may hold
    Leaves,       \* bound: Leaves[p], what a worker may leave at p
    Loose,        \* bound: the paths a background command writes
    NoTree,       \* no such tree
    Missed,       \* a quarantine that failed and was journaled
    MaxMerges,    \* bound: base refs merged on the first
    MaxWindows,   \* settle windows in the settle bound
    MaxRuns       \* bound: runs of the node

(* none: no file.  base: the base's.  marker: holds conflict markers.      *)
(* work, refused: a worker's, the second a kind hygiene refuses.  late and *)
(* later: a worker's background command's.  gate: a gate's that passed or  *)
(* an auditor's.  red: a failed gate's.  fault: one's that could not run,  *)
(* or whose rewind failed.  hook: a commit hook's.                         *)
Content == {"none", "base", "marker", "work", "refused", "late", "later", "gate", "red",
            "fault", "hook"}
Tree == [Path -> Content]
Late == {"late", "later"}

ASSUME WorktreeAssumption ==
    /\ Scratch \subseteq Path
    /\ Repos \subseteq [ignored : SUBSET Path, quoted : SUBSET Path]
    /\ InQuotes \notin Path
    /\ Nodes \subseteq [kind : {"command", "prompt", "phased"}, setup : BOOLEAN, smoke : BOOLEAN,
                        audit : BOOLEAN, fresh : BOOLEAN, maxAttempts : Nat \ {0}]
    /\ Bases \subseteq [Path -> {"none", "base"}]
    /\ Leaves \in [Path -> SUBSET {"none", "work", "refused"}]
    /\ Loose \subseteq Path
    /\ NoTree \notin Tree /\ Missed \notin Tree /\ NoTree # Missed
    /\ MaxMerges \in Nat /\ MaxWindows \in Nat \ {0} /\ MaxRuns \in Nat \ {0}

VARIABLES
    node,       \* its work and its gates
    ignored,    \* the paths the ignore rules match
    quoted,     \* the paths git status prints in quotes
    at,         \* where the node is on its ladder
    attempt,
    run,        \* how many runs have taken the node up
    origin,     \* what baseRefs[0] holds, and whether its red phase is sealed
    merged,     \* base refs merged so far
    concluded,  \* the last merge was committed
    wt,         \* the working files
    index,
    head,       \* the detached HEAD
    sealed,     \* redSealedAt: the red phase is on HEAD
    running,    \* a background command of the worker still writes
    record,     \* the tree recordTree last recorded
    windows,    \* settle windows waited; -1 outside a settle
    gate,       \* "off", a gate's "first" run or its second, "again"
    files,      \* what collectDelivery answered
    judged,     \* history: the index as hygiene passed it
    smoked,     \* history: the working files the smoke that counts began with
    published,  \* what node/<id> was moved to
    kept        \* what the quarantine this run's receipt names holds

trees == <<wt, index, head>>
settleVars == <<record, windows>>
gateVars == <<gate, smoked>>
stageVars == <<files, judged>>
given == <<node, ignored, quoted, run, origin>>
isolateVars == <<merged, concluded>>
answers == <<published, kept>>
vars == <<given, at, attempt, isolateVars, trees, sealed, running, settleVars, gateVars,
          stageVars, answers>>

Blank == [p \in Path |-> "none"]
Gates == {"setup", "redGate", "greenGate", "smoke"}
Stages == Gates \cup {"isolate", "work", "settle", "seal", "sealing", "marker", "collect",
                      "stage", "audit", "verify", "keep", "dispose", "end"}

-----------------------------------------------------------------------------
(* What git and pleach see of a tree                                       *)

Tracked(p) == index[p] # "none"
NotIgnored(p) == Tracked(p) \/ p \notin ignored

(* git status: staged against HEAD, changed against the index, untracked.  *)
Changed == {p \in Path : index[p] # head[p] \/ (wt[p] # index[p] /\ NotIgnored(p))}

(* The names it prints, and nobody takes the quotes off.                   *)
changedFiles ==
    (Changed \ quoted) \cup (IF Changed \cap quoted = {} THEN {} ELSE {InQuotes})

(* `add -A` into an empty index: the ignore rules hold for tracked files.  *)
recordTree == [p \in Path |-> IF p \in ignored THEN "none" ELSE wt[p]]

(* git grep --untracked finds no marker.                                   *)
NoMarkers == \A p \in Path : wt[p] = "marker" => ~NotIgnored(p)

partitionDelivery(paths) == paths \ Scratch

(* Then what git ignores, of what the worker reported and the tree shows:  *)
(* a name in quotes is in no directory, and no rule matches it.            *)
collectDelivery(touched) ==
    {p \in partitionDelivery(changedFiles \cup touched) : p = InQuotes \/ NotIgnored(p)}

(* `add -A` of known paths takes what they hold now; a name that is in     *)
(* neither the index nor the tree, as one in quotes, is dropped.           *)
stage(known) == [p \in Path |-> IF p \in known THEN wt[p] ELSE index[p]]

stagedPaths(tree) == {p \in Path : tree[p] # head[p]}

(* Hygiene refuses what the index adds to HEAD.                            *)
Refuses(tree) == \E p \in stagedPaths(tree) : tree[p] = "refused"

(* restoreTree: what differs from the recorded tree goes back to it, but   *)
(* for the never-delivered paths, and for those no record holds.           *)
restoreTree(written) ==
    [p \in Path |-> IF p \in Scratch \cup ignored THEN written[p] ELSE record[p]]

Write(tree, paths, who) == [p \in Path |-> IF p \in paths THEN who ELSE tree[p]]

-----------------------------------------------------------------------------
(* Isolation                                                               *)

Init ==
    /\ node \in Nodes
    /\ \E r \in Repos : ignored = r.ignored /\ quoted = r.quoted
    /\ origin \in [tree : Bases, sealed : {FALSE}]
    /\ wt = origin.tree /\ index = origin.tree /\ head = origin.tree
    /\ at = "isolate" /\ attempt = 1 /\ run = 1
    /\ merged = 0 /\ concluded = TRUE
    /\ sealed = FALSE /\ running = FALSE
    /\ record = Blank /\ windows = -1
    /\ gate = "off" /\ smoked = NoTree
    /\ files = {} /\ judged = NoTree
    /\ published = NoTree /\ kept = NoTree

(* A conflict is committed with its markers, by `add -u` and a commit that *)
(* nobody asks whether it was made: a hook may have refused it.            *)
MergeConflicts ==
    /\ at = "isolate" /\ concluded /\ merged < MaxMerges
    /\ \E c \in (SUBSET {p \in Path : head[p] # "none"}) \ {{}}, made \in BOOLEAN :
          /\ wt' = Write(wt, c, "marker")
          /\ index' = Write(index, c, "marker")
          /\ head' = IF made THEN index' ELSE head
          /\ concluded' = made
    /\ merged' = merged + 1
    /\ UNCHANGED <<given, at, attempt, sealed, running, settleVars, gateVars, stageVars, answers>>

(* A hook refuses a merge without a conflict, and the commit of what it    *)
(* staged: the files it adds, and those it merges, which stay whose they   *)
(* are.  Where that commit is made, it is as good as a clean merge.        *)
MergeRefused ==
    /\ at = "isolate" /\ concluded /\ merged < MaxMerges
    /\ \E c \in (SUBSET {p \in Path : head[p] = "none"}) \ {{}} :
          wt' = Write(wt, c, "base") /\ index' = Write(index, c, "base")
    /\ merged' = merged + 1 /\ concluded' = FALSE
    /\ UNCHANGED <<given, at, attempt, head, sealed, running, settleVars, gateVars, stageVars, answers>>

(* A ref that does not resolve, unrelated histories, a merge begun on an   *)
(* unconcluded one: the tree goes, and the node has failed without it.     *)
IsolateFails ==
    /\ at = "isolate" /\ merged < MaxMerges
    /\ at' = "end"
    /\ wt' = Blank /\ index' = Blank /\ head' = Blank
    /\ merged' = 0 /\ concluded' = TRUE
    /\ UNCHANGED <<given, attempt, sealed, running, settleVars, gateVars, stageVars, answers>>

FirstStep == IF node.setup THEN "setup" ELSE "work"

(* The refs left merge cleanly.                                            *)
Isolated ==
    /\ at = "isolate"
    /\ concluded \/ merged = MaxMerges
    /\ at' = FirstStep
    /\ merged' = 0 /\ concluded' = TRUE
    /\ UNCHANGED <<given, attempt, trees, sealed, running, settleVars, gateVars, stageVars,
                   answers>>

-----------------------------------------------------------------------------
(* The worker                                                              *)

Keep == at' = "keep" /\ UNCHANGED attempt

(* settleRetryable: another attempt in the same tree, or the end.          *)
Retry ==
    IF attempt < node.maxAttempts THEN at' = FirstStep /\ attempt' = attempt + 1 ELSE Keep

(* A turn changes any paths and may leave a command running behind it.     *)
Edits ==
    /\ wt' \in {t \in Tree : \A p \in Path : t[p] = wt[p] \/ t[p] \in Leaves[p]}
    /\ running' \in BOOLEAN

(* The worker stops, or the command exits 0. *)
Work ==
    /\ at = "work"
    /\ Edits
    /\ at' = IF node.kind = "command" THEN "marker" ELSE "settle"
    /\ UNCHANGED <<given, attempt, isolateVars, index, head, sealed, settleVars, gateVars,
                   stageVars, answers>>

(* It ends otherwise: blocked, dead and aborted are handed back as they    *)
(* are, a timeout or a failed command is tried again.                      *)
WorkFails ==
    /\ at = "work"
    /\ Edits
    /\ Keep \/ Retry
    /\ UNCHANGED <<given, isolateVars, index, head, sealed, settleVars, gateVars, stageVars,
                   answers>>

(* A dead worker's node is recast: its tree is dropped for a fresh one.    *)
Recast ==
    /\ at = "work" /\ node.kind # "command" /\ attempt < node.maxAttempts
    /\ at' = "isolate" /\ attempt' = attempt + 1
    /\ wt' = origin.tree /\ index' = origin.tree /\ head' = origin.tree
    /\ sealed' = origin.sealed /\ running' = FALSE
    /\ UNCHANGED <<given, isolateVars, settleVars, gateVars, stageVars, answers>>

(* What the worker left running writes whenever it likes, or ends.         *)
BackgroundWrites ==
    /\ running /\ at # "end"
    /\ \/ running' = FALSE /\ UNCHANGED wt
       \/ \E p \in Loose : wt' = [wt EXCEPT ![p] = IF @ = "late" THEN "later" ELSE "late"]
          /\ UNCHANGED running
    /\ UNCHANGED <<given, at, attempt, isolateVars, index, head, sealed, settleVars, gateVars,
                   stageVars, answers>>

-----------------------------------------------------------------------------
(* The settle window                                                       *)

AfterSettle ==
    IF node.kind = "prompt" THEN "marker" ELSE IF sealed THEN "greenGate" ELSE "redGate"

SettleOff ==
    /\ at = "settle" /\ windows = -1
    /\ at' = AfterSettle
    /\ UNCHANGED <<given, attempt, isolateVars, trees, sealed, running, settleVars, gateVars,
                   stageVars, answers>>

SettleBegins ==
    /\ at = "settle" /\ windows = -1
    /\ record' = recordTree /\ windows' = 0
    /\ UNCHANGED <<given, at, attempt, isolateVars, trees, sealed, running, gateVars, stageVars,
                   answers>>

(* decideSettle, of one more window.                                       *)
Settled == recordTree = record
StillChanging == windows + 1 >= MaxWindows

(* Mutant: the bound is met a window late.                                 *)
MutSettleWindowLate ==
    /\ at = "settle" /\ windows >= 0
    /\ IF Settled
       THEN at' = AfterSettle /\ windows' = -1 /\ record' = Blank /\ UNCHANGED attempt
       ELSE IF windows >= MaxWindows
       THEN Retry /\ windows' = -1 /\ record' = Blank
       ELSE record' = recordTree /\ windows' = windows + 1 /\ UNCHANGED <<at, attempt>>
    /\ UNCHANGED <<given, isolateVars, trees, sealed, running, gateVars, stageVars, answers>>

(* A window has passed: two equal records settle the tree, the bound is a  *)
(* red gate.                                                               *)
SettleWindow ==
    /\ at = "settle" /\ windows >= 0
    /\ IF Settled
       THEN at' = AfterSettle /\ windows' = -1 /\ record' = Blank /\ UNCHANGED attempt
       ELSE IF StillChanging
       THEN Retry /\ windows' = -1 /\ record' = Blank
       ELSE record' = recordTree /\ windows' = windows + 1 /\ UNCHANGED <<at, attempt>>
    /\ UNCHANGED <<given, isolateVars, trees, sealed, running, gateVars, stageVars, answers>>

SettleCut ==
    /\ at = "settle" /\ windows >= 0
    /\ Keep
    /\ windows' = -1 /\ record' = Blank
    /\ UNCHANGED <<given, isolateVars, trees, sealed, running, gateVars, stageVars, answers>>

-----------------------------------------------------------------------------
(* Gates that run a command                                                *)

AfterHygiene == IF node.smoke THEN "smoke" ELSE IF node.audit THEN "audit" ELSE "verify"

After(g) ==
    CASE g = "setup" -> "work"
      [] g = "redGate" -> "seal"
      [] g = "greenGate" -> "marker"
      [] g = "smoke" -> IF node.audit THEN "audit" ELSE "verify"

GateRuns ==
    /\ at \in Gates /\ gate = "off"
    /\ record' = recordTree /\ gate' = "first"
    /\ smoked' = IF at = "smoke" THEN wt ELSE smoked
    /\ UNCHANGED <<given, at, attempt, isolateVars, trees, sealed, running, windows, stageVars,
                   answers>>

GateOver == gate' = "off" /\ record' = Blank

(* Green, or a red phase's test failing as it must: its writes stay.       *)
GatePasses ==
    /\ at \in Gates /\ gate # "off"
    /\ \E w \in SUBSET Path : wt' = Write(wt, w, "gate")
    /\ at' = After(at)
    /\ GateOver
    /\ UNCHANGED <<given, attempt, isolateVars, index, head, sealed, running, windows, smoked,
                   stageVars, answers>>

(* Mutants of a red gate: only the last run is rewound; only the first.    *)
MutGateFailsLateRewind ==
    /\ at \in Gates /\ gate # "off"
    /\ \E w \in SUBSET Path :
          wt' = IF at \in {"setup", "smoke"} /\ gate = "first" THEN Write(wt, w, "red")
                ELSE restoreTree(Write(wt, w, "red"))
    /\ IF at \in {"setup", "smoke"} /\ gate = "first"
       THEN /\ gate' = "again"
            /\ smoked' = IF at = "smoke" THEN wt' ELSE smoked
            /\ UNCHANGED <<at, attempt, record>>
       ELSE GateOver /\ smoked' = NoTree /\ Retry
    /\ UNCHANGED <<given, isolateVars, index, head, sealed, running, windows, files, answers>>
    /\ judged' = IF gate' = "off" THEN NoTree ELSE judged

MutGateFailsNoRewind ==
    /\ at \in Gates /\ gate # "off"
    /\ \E w \in SUBSET Path :
          wt' = IF at \in {"setup", "smoke"} /\ gate = "first"
                THEN restoreTree(Write(wt, w, "red")) ELSE Write(wt, w, "red")
    /\ IF at \in {"setup", "smoke"} /\ gate = "first"
       THEN /\ gate' = "again"
            /\ smoked' = IF at = "smoke" THEN wt' ELSE smoked
            /\ UNCHANGED <<at, attempt, record>>
       ELSE GateOver /\ smoked' = NoTree /\ Retry
    /\ UNCHANGED <<given, isolateVars, index, head, sealed, running, windows, files, answers>>
    /\ judged' = IF gate' = "off" THEN NoTree ELSE judged

(* Red: rewound; a setup and a smoke run again on the tree as it was.      *)
GateFails ==
    /\ at \in Gates /\ gate # "off"
    /\ \E w \in SUBSET Path : wt' = restoreTree(Write(wt, w, "red"))
    /\ IF at \in {"setup", "smoke"} /\ gate = "first"
       THEN /\ gate' = "again"
            /\ smoked' = IF at = "smoke" THEN wt' ELSE smoked
            /\ UNCHANGED <<at, attempt, record>>
       ELSE GateOver /\ smoked' = NoTree /\ Retry
    /\ judged' = IF gate' = "off" THEN NoTree ELSE judged
    /\ UNCHANGED <<given, isolateVars, index, head, sealed, running, windows, files, answers>>

(* A command that cannot run is not tried again; what a first run of it    *)
(* wrote is not rewound.                                                   *)
GateCannotRun ==
    /\ at \in Gates /\ gate # "off"
    /\ \E w \in SUBSET Path :
          wt' = IF gate = "first" THEN Write(wt, w, "fault")
                ELSE restoreTree(Write(wt, w, "fault"))
    /\ GateOver /\ smoked' = NoTree /\ judged' = NoTree
    /\ Keep
    /\ UNCHANGED <<given, isolateVars, index, head, sealed, running, windows, files, answers>>

-----------------------------------------------------------------------------
(* The red phase's seal                                                    *)

SealCollects ==
    /\ at = "seal"
    /\ \E touched \in SUBSET Path :
          LET collected == collectDelivery(touched) IN
          IF collected = {} \/ ~NoMarkers THEN Retry /\ UNCHANGED files
          ELSE at' = "sealing" /\ files' = collected /\ UNCHANGED attempt
    /\ UNCHANGED <<given, isolateVars, trees, sealed, running, settleVars, gateVars, judged,
                   answers>>

(* commitJudged makes what is staged HEAD, or answers nothing: a hook that *)
(* refuses leaves it staged, one that alters it leaves its own.            *)
commit(tree) == index' = tree /\ head' = tree
Refused(tree) == index' = tree \/ \E p \in Path : index' = [tree EXCEPT ![p] = "hook"]

(* Mutant: the seal is made without its scan of the diff.                  *)
MutSealUnscanned ==
    /\ at = "sealing"
    /\ LET staged == stage(files) IN
       IF stagedPaths(staged) = {}
       THEN index' = staged /\ Retry /\ UNCHANGED <<head, sealed>>
       ELSE \/ commit(staged) /\ sealed' = TRUE /\ at' = "work" /\ UNCHANGED attempt
            \/ Refused(staged) /\ Keep /\ UNCHANGED <<head, sealed>>
    /\ files' = {}
    /\ UNCHANGED <<given, isolateVars, wt, running, settleVars, gateVars, judged, answers>>

(* Staged; nothing staged, or what hygiene refuses, is a red gate.         *)
Seal ==
    /\ at = "sealing"
    /\ LET staged == stage(files) IN
       IF stagedPaths(staged) = {} \/ Refuses(staged)
       THEN index' = staged /\ Retry /\ UNCHANGED <<head, sealed>>
       ELSE \/ commit(staged) /\ sealed' = TRUE /\ at' = "work" /\ UNCHANGED attempt
            \/ Refused(staged) /\ Keep /\ UNCHANGED <<head, sealed>>
    /\ files' = {}
    /\ UNCHANGED <<given, isolateVars, wt, running, settleVars, gateVars, judged, answers>>

-----------------------------------------------------------------------------
(* The close's own scans                                                   *)

Marker ==
    /\ at = "marker"
    /\ IF NoMarkers THEN at' = "collect" /\ UNCHANGED attempt ELSE Retry
    /\ UNCHANGED <<given, isolateVars, trees, sealed, running, settleVars, gateVars, stageVars,
                   answers>>

Collect ==
    /\ at = "collect"
    /\ \E touched \in SUBSET Path : files' = collectDelivery(touched)
    /\ at' = "stage"
    /\ UNCHANGED <<given, attempt, isolateVars, trees, sealed, running, settleVars, gateVars,
                   judged, answers>>

(* Scoped staging, then hygiene: an agent's empty set, and what it refuses *)
(* in the diff of a set that is not empty.                                 *)
StageAndScan ==
    /\ at = "stage"
    /\ index' = stage(files)
    /\ IF (files = {} /\ node.kind # "command") \/ (files # {} /\ Refuses(index'))
       THEN Retry /\ judged' = NoTree
       ELSE at' = AfterHygiene /\ judged' = index' /\ UNCHANGED attempt
    /\ files' = {}
    /\ UNCHANGED <<given, isolateVars, wt, head, sealed, running, settleVars, gateVars, answers>>

(* The auditor is a worker in the same tree.                               *)
Audit ==
    /\ at = "audit"
    /\ \E w \in SUBSET Path, by \in {"gate", "marker"} : wt' = Write(wt, w, by)
    /\ \/ at' = "verify" /\ UNCHANGED <<attempt, judged, smoked>>
       \/ (Retry \/ Keep) /\ judged' = NoTree /\ smoked' = NoTree
    /\ UNCHANGED <<given, isolateVars, index, head, sealed, running, settleVars, gate, files,
                   answers>>

(* A git or file operation fails on the way: the seam throws and runNode   *)
(* hands the tree back, with what a gate wrote when the rewind is what     *)
(* failed.                                                                 *)
SeamFails ==
    /\ at \in Gates \cup {"settle", "seal", "sealing", "marker", "collect", "stage", "audit"}
    /\ \E w \in SUBSET Path : wt' = IF gate = "off" THEN wt ELSE Write(wt, w, "fault")
    /\ Keep
    /\ GateOver /\ windows' = -1 /\ files' = {}
    /\ judged' = NoTree /\ smoked' = NoTree
    /\ UNCHANGED <<given, isolateVars, index, head, sealed, running, answers>>

-----------------------------------------------------------------------------
(* The end of the tree                                                     *)

Refuse == at' = "keep" /\ judged' = NoTree /\ smoked' = NoTree /\ UNCHANGED <<head, published>>

(* Mutant: the commit is not compared with what was staged.                *)
MutVerifyUncompared ==
    /\ at = "verify"
    /\ \/ Refuse /\ UNCHANGED index
       \/ /\ NoMarkers
          /\ Refused(index)
          /\ head' = index' /\ published' = index'
          /\ at' = "dispose" /\ UNCHANGED <<judged, smoked>>
    /\ UNCHANGED <<given, attempt, isolateVars, wt, sealed, running, settleVars, gate, files, kept>>

(* The commit, then node/<id> moved to it: git refuses the branch some     *)
(* worktree has checked out.                                               *)
commitBranch ==
    /\ commit(index)
    /\ \/ published' = index /\ at' = "dispose" /\ UNCHANGED <<judged, smoked>>
       \/ at' = "keep" /\ judged' = NoTree /\ smoked' = NoTree /\ UNCHANGED published

(* commitVerified: a last scan for markers, the commit with its hooks.     *)
Verify ==
    /\ at = "verify"
    /\ \/ ~NoMarkers /\ Refuse /\ UNCHANGED index
       \/ NoMarkers /\ Refused(index) /\ Refuse
       \/ NoMarkers /\ commitBranch
    /\ UNCHANGED <<given, attempt, isolateVars, wt, sealed, running, settleVars, gate, files, kept>>

(* What is staged, on a branch no worktree has checked out, or a miss.     *)
snapshot(tree) == {tree, Missed}

(* Mutant: what is staged is snapshotted as it is.                         *)
MutQuarantineUnstaged ==
    /\ at = "keep"
    /\ IF changedFiles = {} THEN UNCHANGED <<index, kept>>
       ELSE kept' \in snapshot(index) /\ UNCHANGED index
    /\ at' = "dispose"
    /\ UNCHANGED <<given, attempt, isolateVars, wt, head, sealed, running, settleVars, gateVars,
                   stageVars, published>>

(* quarantineTree: all that changed, never-delivered paths too, or nothing *)
(* when nothing did.                                                       *)
Quarantine ==
    /\ at = "keep"
    /\ IF changedFiles = {} THEN UNCHANGED <<index, kept>>
       ELSE index' = stage(changedFiles) /\ kept' \in snapshot(index')
    /\ at' = "dispose"
    /\ UNCHANGED <<given, attempt, isolateVars, wt, head, sealed, running, settleVars, gateVars,
                   stageVars, published>>

Dispose ==
    /\ at = "dispose"
    /\ at' = "end"
    /\ wt' = Blank /\ index' = Blank /\ head' = Blank
    /\ running' = FALSE
    /\ UNCHANGED <<given, attempt, isolateVars, sealed, settleVars, gateVars, stageVars, answers>>

(* A later run stands on the quarantine the last receipt names.            *)
Resume ==
    /\ at = "end" /\ run < MaxRuns /\ ~node.fresh
    /\ published = NoTree /\ kept \notin {NoTree, Missed}
    /\ run' = run + 1
    /\ origin' = [tree |-> kept, sealed |-> sealed]
    /\ wt' = kept /\ index' = kept /\ head' = kept
    /\ at' = "isolate" /\ attempt' = 1 /\ kept' = NoTree
    /\ UNCHANGED <<node, ignored, quoted, isolateVars, sealed, running, settleVars, gateVars, stageVars,
                   published>>

Next ==
    \/ MergeConflicts \/ MergeRefused \/ IsolateFails \/ Isolated
    \/ Work \/ WorkFails \/ Recast
    \/ SettleOff \/ SettleBegins \/ SettleWindow \/ SettleCut
    \/ GateRuns \/ GatePasses \/ GateFails \/ GateCannotRun
    \/ SealCollects \/ Seal
    \/ Marker \/ Collect \/ StageAndScan \/ Audit \/ SeamFails
    \/ Verify \/ Quarantine \/ Dispose \/ Resume
    \/ BackgroundWrites

Spec == Init /\ [][Next]_vars

-----------------------------------------------------------------------------
(* Properties                                                              *)

TypeOK ==
    /\ node \in Nodes /\ [ignored |-> ignored, quoted |-> quoted] \in Repos
    /\ at \in Stages /\ attempt \in 1..node.maxAttempts /\ run \in 1..MaxRuns
    /\ origin \in [tree : Tree, sealed : BOOLEAN]
    /\ merged \in 0..MaxMerges /\ concluded \in BOOLEAN
    /\ wt \in Tree /\ index \in Tree /\ head \in Tree
    /\ sealed \in BOOLEAN /\ running \in BOOLEAN
    /\ record \in Tree /\ windows \in -1..(MaxWindows - 1)
    /\ gate \in {"off", "first", "again"}
    /\ files \subseteq Path \cup {InQuotes}
    /\ judged \in Tree \cup {NoTree} /\ smoked \in Tree \cup {NoTree}
    /\ published \in Tree \cup {NoTree} /\ kept \in Tree \cup {NoTree, Missed}

(* docs/ledger.md, D24: the verified commit holds the tree its gates       *)
(* judged.  What hygiene passed and what node/<id> names are the same      *)
(* tree, whatever a background command, a gate, an auditor or a hook wrote *)
(* in between.                                                             *)
PublishedIsJudged == published # NoTree => published = judged

(* The smoke that let a close through ran on the files the close delivers: *)
(* in every delivered path they are the same, but for what a background    *)
(* command wrote meanwhile.  Of a path whose name is in quotes the close   *)
(* stages what was staged before, unless the worker's manifest names it.   *)
PublishedIsWhatSmokeSaw ==
    published # NoTree /\ node.smoke =>
        \A p \in Path \ (Scratch \cup ignored \cup quoted) :
            published[p] = smoked[p] \/ {published[p], smoked[p]} \cap Late # {}

(* A marker is published only where delivery never looks, or in a path     *)
(* printed in quotes, whose repair is not staged; and what hygiene refuses *)
(* only where the tree already stood on it (the quarantine a later run     *)
(* resumes is HEAD, and hygiene reads what is staged against HEAD).        *)
NothingRefusedIsPublished ==
    published # NoTree => \A p \in Path :
        /\ published[p] = "marker" => p \in Scratch \cup quoted
        /\ published[p] = "refused" => origin.tree[p] = "refused"

(* docs/ledger.md, D32: a failed gate's writes are in no commit, over any  *)
(* number of attempts and runs.  The never-delivered paths are the gate's  *)
(* to write, and recordTree sees no path an ignore rule matches.           *)
RedGateWritesNeverDelivered ==
    \A p \in Path \ (Scratch \cup ignored) :
        /\ published # NoTree => published[p] # "red"
        /\ kept \notin {NoTree, Missed} => kept[p] # "red"

(* A tree that is not published is disposed of only with its changes on    *)
(* the quarantine branch, or its miss journaled: changes against HEAD, and *)
(* what a background command writes into a tree already snapshotted is     *)
(* nobody's.  What is not staged yet of a path printed in quotes is lost:  *)
(* staging drops the name, and no miss is journaled.                       *)
KeptHoldsTheWork ==
    at = "dispose" /\ published = NoTree /\ kept # Missed =>
        \A p \in Changed :
            \/ wt[p] \in Late
            \/ p \in quoted /\ wt[p] # index[p]
            \/ kept # NoTree /\ kept[p] = wt[p]
=============================================================================
