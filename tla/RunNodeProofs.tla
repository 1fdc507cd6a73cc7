---------------------------- MODULE RunNodeProofs ----------------------------
(***************************************************************************)
(* Theorems about RunNode, for every node, every option and every number   *)
(* of provider waits.                                                      *)
(*                                                                         *)
(* The safety properties are not inductive: what a verdict claims of the   *)
(* tree is known only by what each lane on the way to it has made true     *)
(* (Climbed, Finished), what the seal says only because phases are worked  *)
(* in order (InOrder), and who may build only because a provider is        *)
(* refused or dies once (Eligible).                                        *)
(***************************************************************************)
EXTENDS RunNode, TLAPS

-----------------------------------------------------------------------------
(* The inductive invariant                                                 *)

AtWork == {"wait", "settlePhase", "gate", "seal"}

(* A tree is in hand from isolate to the return, and a result comes with it. *)
Holds ==
    /\ at \in {"preflight", "isolate"} => ~iso
    /\ at \notin {"preflight", "attempt", "isolate", "returned"} => iso
    /\ at = "returned" => result # "none"
    /\ at # "returned" => result = "none"

(* The phase the worker is in, and the lanes only some lists reach.         *)
Placed ==
    /\ opts.seal \in {0} \cup Reds
    /\ at \in AtWork => phase \in 1..Len(node.work)
    /\ at \in {"settlePhase", "gate", "seal"} => Phased
    /\ at = "seal" => node.work[phase] = "red"
    /\ at = "exec" => Kind = "command"

(* The auditor is asked again only while the budget lasts.                  *)
Reaudited ==
    /\ at \in {"audit", "auditing"} => reaudits < REAUDIT_BUDGET
    /\ at \notin {"attempt", "audit", "auditing", "returned"} => reaudits = 0

(* Which worker lives in which lane.                                        *)
Manned ==
    /\ at \notin AtWork \cup {"spawned", "auditing", "returned"} => worker = "none"
    /\ at \in AtWork \cup {"spawned"} => worker = "builder"
    /\ at = "auditing" => worker = "auditor"
    /\ at = "returned" => worker \in {"none", "lost"}

(* An attempt is begun only when one is left, the first always.             *)
Budgeted == at \in {"preflight", "attempt"} => attempts = 0 \/ attempts < node.maxAttempts

(* The first provider is refused before it builds; another comes only from  *)
(* a recast, which a death or a refused spawn allows once.                  *)
Eligible ==
    /\ at \notin {"preflight", "returned"} => ~Refused(cast)
    /\ at # "returned" =>
          \/ died = {}
          \/ died = {node.provider} /\ cast = opts.fallback /\ opts.fallback # node.provider

(* Under umbel the worker spawned after the signal is on its way to its cut. *)
Aborting ==
    /\ late > 0 => signal
    /\ at = "ended" /\ reason = "aborted" => signal
    /\ opts.runner = "umbel" /\ late > 0 =>
          \/ at \in {"spawned", "wait", "auditing", "returned"}
          \/ at = "ended" /\ reason = "aborted"

(* The phase in hand is past the seal, and the reds before it are sealed.   *)
InOrder ==
    at \in AtWork /\ Phased => redSealedAt < phase /\ \A i \in Reds : i < phase => i <= redSealedAt

AllSealed == \A i \in Reds : i <= redSealedAt

(* A rung is stood on only by an attempt that has passed the rungs below.   *)
Climbed ==
    /\ at \notin {"preflight", "attempt", "isolate", "setup", "returned"} /\ node.setup =>
          "setup" \in passed
    /\ at \in {"hygiene", "smoke", "audit", "auditing"} => "marker" \in passed
    /\ at \in {"smoke", "audit", "auditing"} => "hygiene" \in passed
    /\ at \in {"audit", "auditing"} /\ node.smoke => "smoke" \in passed

(* Work that stopped without a BLOCKED.md has sealed every red phase, and   *)
(* met its last gate if it ends in green.                                   *)
Finished ==
    \/ at = "ended" /\ reason = "stop" /\ ~tree.blocked
    \/ at \in {"settle", "marker", "hygiene", "smoke", "audit", "auditing"}
    => AllSealed /\ (node.work[Len(node.work)] = "green" => "green" \in passed)

IInv ==
    /\ TypeOK
    /\ Holds /\ Placed /\ Reaudited /\ Manned
    /\ Budgeted /\ AttemptsBounded
    /\ Eligible
    /\ Aborting /\ AtMostOneSpawnAfterAbort
    /\ InOrder /\ Climbed /\ Finished
    /\ TreeAccounted /\ SealsBelongToTree
    /\ OutcomesAreEarned

-----------------------------------------------------------------------------
(* What a work list is                                                     *)

(* A list is one prompt, one command, or phases, and only phases are red or *)
(* green.                                                                   *)
LEMMA WorkList ==
    ASSUME node \in Nodes
    PROVE  /\ Len(node.work) \in Nat /\ Len(node.work) > 0
           /\ Phased <=> node.work \in Seq(Phases)
           /\ Phased => \A i \in 1..Len(node.work) : node.work[i] \in Phases
           /\ ~Phased => Len(node.work) = 1 /\ Reds = {} /\ node.work[1] # "green"
  BY RunNodeAssumption DEF Phased, Kind, Phases, Reds

(* What is sealed is a red phase.                                           *)
LEMMA PhaseIsRed == IInv /\ at = "seal" => phase \in Reds
  BY DEF IInv, Placed, AtWork, Reds

(* The seal's commit leaves a tree.                                         *)
LEMMA SealTyped ==
    ASSUME tree \in Trees, phase \in Reds, SealCommit
    PROVE  tree' \in Trees
<1>1. tree.sealed \cup {phase} \in SUBSET Reds
  BY DEF Trees
<1> QED
  BY <1>1 DEF Trees, SealCommit

-----------------------------------------------------------------------------
(* Type correctness                                                        *)

(* What a worker, a gate or a seal writes leaves a tree.                    *)
LEMMA TreeTyped ==
    ASSUME IInv, Step
    PROVE  tree' \in Trees
<1>0. /\ tree \in Trees
      /\ \A w, m, b \in BOOLEAN : [tree EXCEPT !.work = w, !.marker = m, !.blocked = b] \in Trees
      /\ \A g \in {tree.gate, TRUE} : [tree EXCEPT !.gate = g] \in Trees
  BY DEF IInv, TypeOK, Trees
<1> USE <1>0 DEF Goto, Return, Retry, UnlessBlocked, given, ladder, treeVars, workVars, history, WorkerWrites, GateWrites, Spawned, Gate,
        Recast, MayRecast, NextPhase, EndWork, GateFails, CannotRun
<1>1. CASE Preflight \/ Attempt \/ Isolate \/ IsolateFails
  BY <1>1 DEF Preflight, Attempt, Isolate, IsolateFails, FreshTrees
<1>2. CASE Setup \/ Smoke
  BY <1>2 DEF Setup, Smoke
<1>3. CASE NoWorker \/ Spawn \/ SpawnFails \/ Backoff \/ Begin \/ SpawnUnnamed
  BY <1>3 DEF NoWorker, Spawn, SpawnFails, Backoff, Begin, SpawnUnnamed
<1>4. CASE SpawnRefused \/ WorkerDied
  BY <1>4 DEF SpawnRefused, WorkerDied
<1>5. CASE Command
  BY <1>5 DEF Command
<1>6. CASE Turn
  BY <1>6 DEF Turn
<1>7. CASE SettlePhase \/ RedGate
  BY <1>7 DEF SettlePhase, RedGate
<1>8. CASE GreenGate
  BY <1>8 DEF GreenGate
<1>9. CASE Seal
  BY <1>9, PhaseIsRed, SealTyped DEF Seal
<1>10. CASE SealUnnamed
  BY <1>10, PhaseIsRed, SealTyped DEF SealUnnamed
<1>11. CASE Rerun \/ Stopped \/ Cut \/ EndedOtherwise
  BY <1>11 DEF Rerun, Stopped, Cut, EndedOtherwise
<1>12. CASE Settle \/ Marker \/ Hygiene
  BY <1>12 DEF Settle, Marker, Hygiene
<1>13. CASE NoAudit \/ Tampered \/ SpawnAuditor
  BY <1>13 DEF NoAudit, Tampered, SpawnAuditor
<1>14. CASE Auditing \/ Surprise
  BY <1>14 DEF Auditing, Surprise
<1> QED
  BY <1>1, <1>2, <1>3, <1>4, <1>5, <1>6, <1>7, <1>8, <1>9, <1>10, <1>11, <1>12, <1>13, <1>14 DEF Step

(* The seal in force is none, or of a red phase.                            *)
LEMMA RedSealTyped ==
    ASSUME IInv, Step
    PROVE  redSealedAt' \in {0} \cup Reds
<1> USE PhaseIsRed DEF Goto, Return, Retry, UnlessBlocked, given, ladder, treeVars, workVars, history, WorkerWrites, GateWrites, Spawned, Gate,
        Recast, MayRecast, NextPhase, EndWork, GateFails, CannotRun, TypeOK, IInv, Placed
<1>1. CASE Preflight \/ Attempt \/ Isolate \/ IsolateFails
  BY <1>1 DEF Preflight, Attempt, Isolate, IsolateFails
<1>2. CASE Setup \/ Smoke
  BY <1>2 DEF Setup, Smoke
<1>3. CASE NoWorker \/ Spawn \/ SpawnFails \/ Backoff \/ Begin \/ SpawnUnnamed
  BY <1>3 DEF NoWorker, Spawn, SpawnFails, Backoff, Begin, SpawnUnnamed
<1>4. CASE SpawnRefused \/ WorkerDied
  BY <1>4 DEF SpawnRefused, WorkerDied
<1>5. CASE Command
  BY <1>5 DEF Command
<1>6. CASE Turn
  BY <1>6 DEF Turn
<1>7. CASE SettlePhase \/ RedGate
  BY <1>7 DEF SettlePhase, RedGate
<1>8. CASE GreenGate
  BY <1>8 DEF GreenGate
<1>9. CASE Seal \/ SealUnnamed
  BY <1>9 DEF Seal, SealUnnamed
<1>10. CASE Rerun \/ Stopped \/ Cut \/ EndedOtherwise
  BY <1>10 DEF Rerun, Stopped, Cut, EndedOtherwise
<1>11. CASE Settle \/ Marker \/ Hygiene
  BY <1>11 DEF Settle, Marker, Hygiene
<1>12. CASE NoAudit \/ Tampered \/ SpawnAuditor
  BY <1>12 DEF NoAudit, Tampered, SpawnAuditor
<1>13. CASE Auditing \/ Surprise
  BY <1>13 DEF Auditing, Surprise
<1> QED
  BY <1>1, <1>2, <1>3, <1>4, <1>5, <1>6, <1>7, <1>8, <1>9, <1>10, <1>11, <1>12, <1>13 DEF Step

(* Only gates are passed.                                                   *)
LEMMA PassedTyped ==
    ASSUME IInv, Step
    PROVE  passed' \subseteq {"setup", "green", "marker", "hygiene", "smoke", "audit"}
<1> USE DEF Goto, Return, Retry, UnlessBlocked, given, ladder, treeVars, workVars, history, WorkerWrites, GateWrites, Spawned, Gate,
        Recast, MayRecast, NextPhase, EndWork, GateFails, CannotRun, SealCommit, TypeOK, IInv
<1>1. CASE Preflight \/ Attempt \/ Isolate \/ IsolateFails
  BY <1>1 DEF Preflight, Attempt, Isolate, IsolateFails
<1>2. CASE Setup \/ Smoke
  BY <1>2 DEF Setup, Smoke
<1>3. CASE NoWorker \/ Spawn \/ SpawnFails \/ Backoff \/ Begin \/ SpawnUnnamed
  BY <1>3 DEF NoWorker, Spawn, SpawnFails, Backoff, Begin, SpawnUnnamed
<1>4. CASE SpawnRefused \/ WorkerDied
  BY <1>4 DEF SpawnRefused, WorkerDied
<1>5. CASE Command
  BY <1>5 DEF Command
<1>6. CASE Turn
  BY <1>6 DEF Turn
<1>7. CASE SettlePhase \/ RedGate
  BY <1>7 DEF SettlePhase, RedGate
<1>8. CASE GreenGate
  BY <1>8 DEF GreenGate
<1>9. CASE Seal \/ SealUnnamed
  BY <1>9 DEF Seal, SealUnnamed
<1>10. CASE Rerun \/ Stopped \/ Cut \/ EndedOtherwise
  BY <1>10 DEF Rerun, Stopped, Cut, EndedOtherwise
<1>11. CASE Settle \/ Marker \/ Hygiene
  BY <1>11 DEF Settle, Marker, Hygiene
<1>12. CASE NoAudit \/ Tampered \/ SpawnAuditor
  BY <1>12 DEF NoAudit, Tampered, SpawnAuditor
<1>13. CASE Auditing \/ Surprise
  BY <1>13 DEF Auditing, Surprise
<1> QED
  BY <1>1, <1>2, <1>3, <1>4, <1>5, <1>6, <1>7, <1>8, <1>9, <1>10, <1>11, <1>12, <1>13 DEF Step

(* The counters, the cast and the worker keep their ranges.                 *)
LEMMA ScalarsTyped ==
    ASSUME IInv, Step
    PROVE  /\ attempts' \in Nat /\ late' \in Nat
           /\ cast' \in {node.provider, opts.fallback}
           /\ died' \subseteq {node.provider, opts.fallback}
           /\ worker' \in {"none", "builder", "auditor", "lost"}
           /\ trees' \in Int
<1> USE DEF Goto, Return, Retry, UnlessBlocked, given, ladder, treeVars, workVars, history, WorkerWrites, GateWrites, Spawned, Gate,
        Recast, MayRecast, NextPhase, EndWork, GateFails, CannotRun, SealCommit, TypeOK, IInv
<1>1. CASE Preflight \/ Attempt \/ Isolate \/ IsolateFails
  BY <1>1 DEF Preflight, Attempt, Isolate, IsolateFails
<1>2. CASE Setup \/ Smoke
  BY <1>2 DEF Setup, Smoke
<1>3. CASE NoWorker \/ Spawn \/ SpawnFails \/ Backoff \/ Begin \/ SpawnUnnamed
  BY <1>3 DEF NoWorker, Spawn, SpawnFails, Backoff, Begin, SpawnUnnamed
<1>4. CASE SpawnRefused \/ WorkerDied
  BY <1>4 DEF SpawnRefused, WorkerDied
<1>5. CASE Command
  BY <1>5 DEF Command
<1>6. CASE Turn
  BY <1>6 DEF Turn
<1>7. CASE SettlePhase \/ RedGate
  BY <1>7 DEF SettlePhase, RedGate
<1>8. CASE GreenGate
  BY <1>8 DEF GreenGate
<1>9. CASE Seal \/ SealUnnamed
  BY <1>9 DEF Seal, SealUnnamed
<1>10. CASE Rerun \/ Stopped \/ Cut \/ EndedOtherwise
  BY <1>10 DEF Rerun, Stopped, Cut, EndedOtherwise
<1>11. CASE Settle \/ Marker \/ Hygiene
  BY <1>11 DEF Settle, Marker, Hygiene
<1>12. CASE NoAudit \/ Tampered \/ SpawnAuditor
  BY <1>12 DEF NoAudit, Tampered, SpawnAuditor
<1>13. CASE Auditing \/ Surprise
  BY <1>13 DEF Auditing, Surprise
<1> QED
  BY <1>1, <1>2, <1>3, <1>4, <1>5, <1>6, <1>7, <1>8, <1>9, <1>10, <1>11, <1>12, <1>13 DEF Step

(* So do the lane, the result and the reason.                               *)
LEMMA PlaceTyped ==
    ASSUME IInv, Step
    PROVE  /\ at' \in {"preflight", "attempt", "isolate", "setup", "spawn", "backoff", "spawned",
                      "exec", "wait", "settlePhase", "gate", "seal", "ended", "settle",
                      "marker", "hygiene", "smoke", "audit", "auditing", "returned"}
           /\ result' \in {"none", "done", "failed", "dead", "blocked", "aborted"}
           /\ reason' \in {"none", "stop", "provider-error", "timeout", "dead", "idle",
                          "other", "aborted"}
<1> USE DEF Goto, Return, Retry, UnlessBlocked, given, ladder, treeVars, workVars, history, WorkerWrites, GateWrites, Spawned, Gate,
        Recast, MayRecast, NextPhase, EndWork, GateFails, CannotRun, SealCommit, TypeOK, IInv
<1>1. CASE Preflight \/ Attempt \/ Isolate \/ IsolateFails
  BY <1>1 DEF Preflight, Attempt, Isolate, IsolateFails
<1>2. CASE Setup \/ Smoke
  BY <1>2 DEF Setup, Smoke
<1>3. CASE NoWorker \/ Spawn \/ SpawnFails \/ Backoff \/ Begin \/ SpawnUnnamed
  BY <1>3 DEF NoWorker, Spawn, SpawnFails, Backoff, Begin, SpawnUnnamed
<1>4. CASE SpawnRefused \/ WorkerDied
  BY <1>4 DEF SpawnRefused, WorkerDied
<1>5. CASE Command
  BY <1>5 DEF Command
<1>6. CASE Turn
  BY <1>6 DEF Turn, WaitReasons
<1>7. CASE SettlePhase \/ RedGate
  BY <1>7 DEF SettlePhase, RedGate
<1>8. CASE GreenGate
  BY <1>8 DEF GreenGate
<1>9. CASE Seal \/ SealUnnamed
  BY <1>9 DEF Seal, SealUnnamed
<1>10. CASE Rerun \/ Stopped \/ Cut \/ EndedOtherwise
  BY <1>10 DEF Rerun, Stopped, Cut, EndedOtherwise
<1>11. CASE Settle \/ Marker \/ Hygiene
  BY <1>11 DEF Settle, Marker, Hygiene
<1>12. CASE NoAudit \/ Tampered \/ SpawnAuditor
  BY <1>12 DEF NoAudit, Tampered, SpawnAuditor
<1>13. CASE Auditing \/ Surprise
  BY <1>13 DEF Auditing, Surprise
<1> QED
  BY <1>1, <1>2, <1>3, <1>4, <1>5, <1>6, <1>7, <1>8, <1>9, <1>10, <1>11, <1>12, <1>13 DEF Step

(* So do the phase and the re-audits.                                       *)
LEMMA PhaseTyped ==
    ASSUME IInv, Step
    PROVE  phase' \in 0..Len(node.work) /\ reaudits' \in 0..REAUDIT_BUDGET
<1> USE WorkList DEF Goto, Return, Retry, UnlessBlocked, given, ladder, treeVars, workVars, history, WorkerWrites, GateWrites, Spawned, Gate,
        Recast, MayRecast, NextPhase, EndWork, GateFails, CannotRun, SealCommit,
        TypeOK, IInv, Placed, Reaudited, REAUDIT_BUDGET, Reds, AtWork
<1>1. CASE Preflight \/ Attempt \/ Isolate \/ IsolateFails
  BY <1>1 DEF Preflight, Attempt, Isolate, IsolateFails
<1>2. CASE Setup \/ Smoke
  BY <1>2 DEF Setup, Smoke
<1>3. CASE NoWorker \/ Spawn \/ SpawnFails \/ Backoff \/ SpawnUnnamed
  BY <1>3 DEF NoWorker, Spawn, SpawnFails, Backoff, SpawnUnnamed
<1>4. CASE Begin
  BY <1>4 DEF Begin
<1>5. CASE SpawnRefused \/ WorkerDied
  BY <1>5 DEF SpawnRefused, WorkerDied
<1>6. CASE Command
  BY <1>6 DEF Command
<1>7. CASE Turn
  BY <1>7 DEF Turn
<1>8. CASE SettlePhase \/ RedGate
  BY <1>8 DEF SettlePhase, RedGate
<1>9. CASE GreenGate
  BY <1>9 DEF GreenGate
<1>10. CASE Seal \/ SealUnnamed
  BY <1>10 DEF Seal, SealUnnamed
<1>11. CASE Rerun \/ Stopped \/ Cut \/ EndedOtherwise
  BY <1>11 DEF Rerun, Stopped, Cut, EndedOtherwise
<1>12. CASE Settle \/ Marker \/ Hygiene
  BY <1>12 DEF Settle, Marker, Hygiene
<1>13. CASE NoAudit \/ Tampered \/ SpawnAuditor
  BY <1>13 DEF NoAudit, Tampered, SpawnAuditor
<1>14. CASE Auditing \/ Surprise
  BY <1>14 DEF Auditing, Surprise
<1> QED
  BY <1>1, <1>2, <1>3, <1>4, <1>5, <1>6, <1>7, <1>8, <1>9, <1>10, <1>11, <1>12, <1>13, <1>14 DEF Step

(* So do the backoffs of an attempt.                                        *)
LEMMA WaitsTyped ==
    ASSUME IInv, Step
    PROVE  waits' \in [{"provider", "spawn"} -> 0..ProviderWaits]
<1> USE RunNodeAssumption DEF Goto, Return, Retry, UnlessBlocked, given, ladder, treeVars, workVars, history, WorkerWrites, GateWrites, Spawned, Gate,
        Recast, MayRecast, NextPhase, EndWork, GateFails, CannotRun, SealCommit, TypeOK, IInv
<1>1. CASE Preflight \/ Isolate \/ IsolateFails
  BY <1>1 DEF Preflight, Isolate, IsolateFails
<1>2. CASE Attempt
  BY <1>2 DEF Attempt
<1>3. CASE Setup \/ Smoke
  BY <1>3 DEF Setup, Smoke
<1>4. CASE NoWorker \/ Spawn \/ Backoff \/ Begin \/ SpawnUnnamed
  BY <1>4 DEF NoWorker, Spawn, Backoff, Begin, SpawnUnnamed
<1>5. CASE SpawnFails
  BY <1>5 DEF SpawnFails
<1>6. CASE SpawnRefused \/ WorkerDied
  BY <1>6 DEF SpawnRefused, WorkerDied
<1>7. CASE Command
  BY <1>7 DEF Command
<1>8. CASE Turn
  BY <1>8 DEF Turn
<1>9. CASE SettlePhase \/ RedGate
  BY <1>9 DEF SettlePhase, RedGate
<1>10. CASE GreenGate
  BY <1>10 DEF GreenGate
<1>11. CASE Seal \/ SealUnnamed
  BY <1>11 DEF Seal, SealUnnamed
<1>12. CASE Stopped \/ Cut \/ EndedOtherwise
  BY <1>12 DEF Stopped, Cut, EndedOtherwise
<1>13. CASE Rerun
  BY <1>13 DEF Rerun
<1>14. CASE Settle \/ Marker \/ Hygiene
  BY <1>14 DEF Settle, Marker, Hygiene
<1>15. CASE NoAudit \/ Tampered \/ SpawnAuditor
  BY <1>15 DEF NoAudit, Tampered, SpawnAuditor
<1>16. CASE Auditing \/ Surprise
  BY <1>16 DEF Auditing, Surprise
<1> QED
  BY <1>1, <1>2, <1>3, <1>4, <1>5, <1>6, <1>7, <1>8, <1>9, <1>10, <1>11, <1>12, <1>13, <1>14, <1>15, <1>16 DEF Step

(* The node, its options and the signal are not the ladder's to change.     *)
LEMMA GivenStands ==
    ASSUME IInv, Step
    PROVE  UNCHANGED <<given, signal>> /\ iso' \in BOOLEAN
<1> USE DEF Goto, Return, Retry, UnlessBlocked, given, ladder, treeVars, workVars, history, WorkerWrites, GateWrites, Spawned, Gate,
        Recast, MayRecast, NextPhase, EndWork, GateFails, CannotRun, SealCommit, TypeOK, IInv
<1>1. CASE Preflight \/ Attempt \/ Isolate \/ IsolateFails
  BY <1>1 DEF Preflight, Attempt, Isolate, IsolateFails
<1>2. CASE Setup \/ Smoke
  BY <1>2 DEF Setup, Smoke
<1>3. CASE NoWorker \/ Spawn \/ SpawnFails \/ Backoff \/ Begin \/ SpawnUnnamed
  BY <1>3 DEF NoWorker, Spawn, SpawnFails, Backoff, Begin, SpawnUnnamed
<1>4. CASE SpawnRefused \/ WorkerDied
  BY <1>4 DEF SpawnRefused, WorkerDied
<1>5. CASE Command
  BY <1>5 DEF Command
<1>6. CASE Turn
  BY <1>6 DEF Turn
<1>7. CASE SettlePhase \/ RedGate
  BY <1>7 DEF SettlePhase, RedGate
<1>8. CASE GreenGate
  BY <1>8 DEF GreenGate
<1>9. CASE Seal \/ SealUnnamed
  BY <1>9 DEF Seal, SealUnnamed
<1>10. CASE Rerun \/ Stopped \/ Cut \/ EndedOtherwise
  BY <1>10 DEF Rerun, Stopped, Cut, EndedOtherwise
<1>11. CASE Settle \/ Marker \/ Hygiene
  BY <1>11 DEF Settle, Marker, Hygiene
<1>12. CASE NoAudit \/ Tampered \/ SpawnAuditor
  BY <1>12 DEF NoAudit, Tampered, SpawnAuditor
<1>13. CASE Auditing \/ Surprise
  BY <1>13 DEF Auditing, Surprise
<1> QED
  BY <1>1, <1>2, <1>3, <1>4, <1>5, <1>6, <1>7, <1>8, <1>9, <1>10, <1>11, <1>12, <1>13 DEF Step

(* A settled node takes no step.                                            *)
LEMMA DoneIsDone == Step => at # "returned"
  BY DEF Preflight, Attempt, Isolate, IsolateFails, Setup, NoWorker, Spawn, SpawnRefused,
         SpawnFails, Backoff, Begin, SpawnUnnamed, Command, Turn, SettlePhase, RedGate,
         GreenGate, Seal, SealUnnamed, Rerun, Stopped, WorkerDied, Cut, EndedOtherwise, Settle,
         Marker, Hygiene, Smoke, NoAudit, Tampered, SpawnAuditor, Auditing, Surprise, Step

(* No step of the ladder takes a variable out of its range.                 *)
LEMMA StepTyped ==
    ASSUME IInv, Step
    PROVE  TypeOK'
<1>1. /\ node' = node /\ opts' = opts /\ signal' = signal /\ iso' \in BOOLEAN
      /\ Reds' = Reds /\ Trees' = Trees
  BY GivenStands DEF given, Reds, Trees
<1>2. node \in Nodes /\ opts \in Options /\ signal \in BOOLEAN
  BY DEF IInv, TypeOK
<1> QED
  BY <1>1, <1>2, TreeTyped, RedSealTyped, PassedTyped, ScalarsTyped, PlaceTyped, PhaseTyped, WaitsTyped
  DEF TypeOK

-----------------------------------------------------------------------------
(* Each part of the invariant is kept                                      *)

(* A step takes or drops a tree with its lane, and settles once.            *)
LEMMA StepHolds ==
    ASSUME IInv, Step
    PROVE  Holds'
<1> USE DEF Goto, Return, Retry, UnlessBlocked, given, ladder, treeVars, workVars, history, WorkerWrites, GateWrites, Spawned, Gate,
        Recast, MayRecast, NextPhase, EndWork, GateFails, CannotRun, SealCommit, TypeOK, IInv, Holds
<1>1. CASE Preflight \/ Attempt \/ Isolate \/ IsolateFails
  BY <1>1 DEF Preflight, Attempt, Isolate, IsolateFails
<1>2. CASE Setup \/ Smoke
  BY <1>2 DEF Setup, Smoke
<1>3. CASE NoWorker \/ Spawn \/ SpawnFails \/ Backoff \/ Begin \/ SpawnUnnamed
  BY <1>3 DEF NoWorker, Spawn, SpawnFails, Backoff, Begin, SpawnUnnamed
<1>4. CASE SpawnRefused \/ WorkerDied
  BY <1>4 DEF SpawnRefused, WorkerDied
<1>5. CASE Command
  BY <1>5 DEF Command
<1>6. CASE Turn
  BY <1>6 DEF Turn
<1>7. CASE SettlePhase \/ RedGate
  BY <1>7 DEF SettlePhase, RedGate
<1>8. CASE GreenGate
  BY <1>8 DEF GreenGate
<1>9. CASE Seal \/ SealUnnamed
  BY <1>9 DEF Seal, SealUnnamed
<1>10. CASE Rerun \/ Stopped \/ Cut \/ EndedOtherwise
  BY <1>10 DEF Rerun, Stopped, Cut, EndedOtherwise
<1>11. CASE Settle \/ Marker \/ Hygiene
  BY <1>11 DEF Settle, Marker, Hygiene
<1>12. CASE NoAudit \/ Tampered \/ SpawnAuditor
  BY <1>12 DEF NoAudit, Tampered, SpawnAuditor
<1>13. CASE Auditing \/ Surprise
  BY <1>13 DEF Auditing, Surprise
<1> QED
  BY <1>1, <1>2, <1>3, <1>4, <1>5, <1>6, <1>7, <1>8, <1>9, <1>10, <1>11, <1>12, <1>13 DEF Step

(* A step goes to a lane its list reaches, in a phase of the list.          *)
LEMMA StepPlaced ==
    ASSUME IInv, Step
    PROVE  Placed'
<1> USE WorkList DEF Goto, Return, Retry, UnlessBlocked, given, ladder, treeVars, workVars, history, WorkerWrites, GateWrites, Spawned, Gate,
        Recast, MayRecast, NextPhase, EndWork, GateFails, CannotRun, SealCommit,
        TypeOK, IInv, Placed, Reds, AtWork, Phased, Kind, Phases
<1>1. CASE Preflight \/ Attempt \/ Isolate \/ IsolateFails
  BY <1>1 DEF Preflight, Attempt, Isolate, IsolateFails
<1>2. CASE Setup \/ Smoke
  BY <1>2 DEF Setup, Smoke
<1>3. CASE NoWorker \/ Spawn \/ SpawnFails \/ Backoff \/ SpawnUnnamed
  BY <1>3 DEF NoWorker, Spawn, SpawnFails, Backoff, SpawnUnnamed
<1>4. CASE Begin
  BY <1>4 DEF Begin
<1>5. CASE SpawnRefused \/ WorkerDied
  BY <1>5 DEF SpawnRefused, WorkerDied
<1>6. CASE Command
  BY <1>6 DEF Command
<1>7. CASE Turn
  BY <1>7 DEF Turn
<1>8. CASE SettlePhase \/ RedGate
  BY <1>8 DEF SettlePhase, RedGate
<1>9. CASE GreenGate
  BY <1>9 DEF GreenGate
<1>10. CASE Seal \/ SealUnnamed
  BY <1>10 DEF Seal, SealUnnamed
<1>11. CASE Rerun \/ Stopped \/ Cut \/ EndedOtherwise
  BY <1>11 DEF Rerun, Stopped, Cut, EndedOtherwise
<1>12. CASE Settle \/ Marker \/ Hygiene
  BY <1>12 DEF Settle, Marker, Hygiene
<1>13. CASE NoAudit \/ Tampered \/ SpawnAuditor
  BY <1>13 DEF NoAudit, Tampered, SpawnAuditor
<1>14. CASE Auditing \/ Surprise
  BY <1>14 DEF Auditing, Surprise
<1> QED
  BY <1>1, <1>2, <1>3, <1>4, <1>5, <1>6, <1>7, <1>8, <1>9, <1>10, <1>11, <1>12, <1>13, <1>14 DEF Step

(* The auditor is not asked past its budget.                                *)
LEMMA StepReaudited ==
    ASSUME IInv, Step
    PROVE  Reaudited'
<1> USE DEF Goto, Return, Retry, UnlessBlocked, given, ladder, treeVars, workVars, history, WorkerWrites, GateWrites, Spawned, Gate,
        Recast, MayRecast, NextPhase, EndWork, GateFails, CannotRun, SealCommit,
        TypeOK, IInv, Reaudited, REAUDIT_BUDGET
<1>1. CASE Preflight \/ Attempt \/ Isolate \/ IsolateFails
  BY <1>1 DEF Preflight, Attempt, Isolate, IsolateFails
<1>2. CASE Setup \/ Smoke
  BY <1>2 DEF Setup, Smoke
<1>3. CASE NoWorker \/ Spawn \/ SpawnFails \/ Backoff \/ Begin \/ SpawnUnnamed
  BY <1>3 DEF NoWorker, Spawn, SpawnFails, Backoff, Begin, SpawnUnnamed
<1>4. CASE SpawnRefused \/ WorkerDied
  BY <1>4 DEF SpawnRefused, WorkerDied
<1>5. CASE Command
  BY <1>5 DEF Command
<1>6. CASE Turn
  BY <1>6 DEF Turn
<1>7. CASE SettlePhase \/ RedGate
  BY <1>7 DEF SettlePhase, RedGate
<1>8. CASE GreenGate
  BY <1>8 DEF GreenGate
<1>9. CASE Seal \/ SealUnnamed
  BY <1>9 DEF Seal, SealUnnamed
<1>10. CASE Rerun \/ Stopped \/ Cut \/ EndedOtherwise
  BY <1>10 DEF Rerun, Stopped, Cut, EndedOtherwise
<1>11. CASE Settle \/ Marker \/ Hygiene
  BY <1>11 DEF Settle, Marker, Hygiene
<1>12. CASE NoAudit \/ Tampered \/ SpawnAuditor
  BY <1>12 DEF NoAudit, Tampered, SpawnAuditor
<1>13. CASE Auditing \/ Surprise
  BY <1>13 DEF Auditing, Surprise
<1> QED
  BY <1>1, <1>2, <1>3, <1>4, <1>5, <1>6, <1>7, <1>8, <1>9, <1>10, <1>11, <1>12, <1>13 DEF Step

(* Each lane kills or keeps the worker the next one expects.                *)
LEMMA StepManned ==
    ASSUME IInv, Step
    PROVE  Manned'
<1> USE DEF Goto, Return, Retry, UnlessBlocked, given, ladder, treeVars, workVars, history, WorkerWrites, GateWrites, Spawned, Gate,
        Recast, MayRecast, NextPhase, EndWork, GateFails, CannotRun, SealCommit, IInv, Manned, AtWork
<1>1. CASE Preflight \/ Attempt \/ Isolate \/ IsolateFails
  BY <1>1 DEF Preflight, Attempt, Isolate, IsolateFails
<1>2. CASE Setup \/ Smoke
  BY <1>2 DEF Setup, Smoke
<1>3. CASE NoWorker \/ Spawn \/ SpawnFails \/ Backoff \/ Begin \/ SpawnUnnamed
  BY <1>3 DEF NoWorker, Spawn, SpawnFails, Backoff, Begin, SpawnUnnamed
<1>4. CASE SpawnRefused \/ WorkerDied
  BY <1>4 DEF SpawnRefused, WorkerDied
<1>5. CASE Command
  BY <1>5 DEF Command
<1>6. CASE Turn
  BY <1>6 DEF Turn
<1>7. CASE SettlePhase \/ RedGate
  BY <1>7 DEF SettlePhase, RedGate
<1>8. CASE GreenGate
  BY <1>8 DEF GreenGate
<1>9. CASE Seal \/ SealUnnamed
  BY <1>9 DEF Seal, SealUnnamed
<1>10. CASE Rerun \/ Stopped \/ Cut \/ EndedOtherwise
  BY <1>10 DEF Rerun, Stopped, Cut, EndedOtherwise
<1>11. CASE Settle \/ Marker \/ Hygiene
  BY <1>11 DEF Settle, Marker, Hygiene
<1>12. CASE NoAudit \/ Tampered \/ SpawnAuditor
  BY <1>12 DEF NoAudit, Tampered, SpawnAuditor
<1>13. CASE Auditing \/ Surprise
  BY <1>13 DEF Auditing, Surprise
<1> QED
  BY <1>1, <1>2, <1>3, <1>4, <1>5, <1>6, <1>7, <1>8, <1>9, <1>10, <1>11, <1>12, <1>13 DEF Step

(* Every retry and every recast asks for the budget.                        *)
LEMMA StepBudgeted ==
    ASSUME IInv, Step
    PROVE  Budgeted' /\ AttemptsBounded'
<1> USE RunNodeAssumption DEF Goto, Return, Retry, UnlessBlocked, given, ladder, treeVars, workVars, history, WorkerWrites, GateWrites, Spawned, Gate,
        Recast, MayRecast, NextPhase, EndWork, GateFails, CannotRun, SealCommit,
        TypeOK, IInv, Budgeted, AttemptsBounded
<1>1. CASE Preflight \/ Attempt \/ Isolate \/ IsolateFails
  BY <1>1 DEF Preflight, Attempt, Isolate, IsolateFails
<1>2. CASE Setup \/ Smoke
  BY <1>2 DEF Setup, Smoke
<1>3. CASE NoWorker \/ Spawn \/ SpawnFails \/ Backoff \/ Begin \/ SpawnUnnamed
  BY <1>3 DEF NoWorker, Spawn, SpawnFails, Backoff, Begin, SpawnUnnamed
<1>4. CASE SpawnRefused \/ WorkerDied
  BY <1>4 DEF SpawnRefused, WorkerDied
<1>5. CASE Command
  BY <1>5 DEF Command
<1>6. CASE Turn
  BY <1>6 DEF Turn
<1>7. CASE SettlePhase \/ RedGate
  BY <1>7 DEF SettlePhase, RedGate
<1>8. CASE GreenGate
  BY <1>8 DEF GreenGate
<1>9. CASE Seal \/ SealUnnamed
  BY <1>9 DEF Seal, SealUnnamed
<1>10. CASE Rerun \/ Stopped \/ Cut \/ EndedOtherwise
  BY <1>10 DEF Rerun, Stopped, Cut, EndedOtherwise
<1>11. CASE Settle \/ Marker \/ Hygiene
  BY <1>11 DEF Settle, Marker, Hygiene
<1>12. CASE NoAudit \/ Tampered \/ SpawnAuditor
  BY <1>12 DEF NoAudit, Tampered, SpawnAuditor
<1>13. CASE Auditing \/ Surprise
  BY <1>13 DEF Auditing, Surprise
<1> QED
  BY <1>1, <1>2, <1>3, <1>4, <1>5, <1>6, <1>7, <1>8, <1>9, <1>10, <1>11, <1>12, <1>13 DEF Step

(* A recast goes to a provider neither refused nor dead.                    *)
LEMMA StepEligible ==
    ASSUME IInv, Step
    PROVE  Eligible'
<1> USE DEF Goto, Return, Retry, UnlessBlocked, given, ladder, treeVars, workVars, history, WorkerWrites, GateWrites, Spawned, Gate,
        Recast, MayRecast, NextPhase, EndWork, GateFails, CannotRun, SealCommit, TypeOK, IInv, Eligible, Refused
<1>1. CASE Preflight \/ Attempt \/ Isolate \/ IsolateFails
  BY <1>1 DEF Preflight, Attempt, Isolate, IsolateFails
<1>2. CASE Setup \/ Smoke
  BY <1>2 DEF Setup, Smoke
<1>3. CASE NoWorker \/ Spawn \/ SpawnFails \/ Backoff \/ Begin \/ SpawnUnnamed
  BY <1>3 DEF NoWorker, Spawn, SpawnFails, Backoff, Begin, SpawnUnnamed
<1>4. CASE SpawnRefused \/ WorkerDied
  BY <1>4 DEF SpawnRefused, WorkerDied
<1>5. CASE Command
  BY <1>5 DEF Command
<1>6. CASE Turn
  BY <1>6 DEF Turn
<1>7. CASE SettlePhase \/ RedGate
  BY <1>7 DEF SettlePhase, RedGate
<1>8. CASE GreenGate
  BY <1>8 DEF GreenGate
<1>9. CASE Seal \/ SealUnnamed
  BY <1>9 DEF Seal, SealUnnamed
<1>10. CASE Rerun \/ Stopped \/ Cut \/ EndedOtherwise
  BY <1>10 DEF Rerun, Stopped, Cut, EndedOtherwise
<1>11. CASE Settle \/ Marker \/ Hygiene
  BY <1>11 DEF Settle, Marker, Hygiene
<1>12. CASE NoAudit \/ Tampered \/ SpawnAuditor
  BY <1>12 DEF NoAudit, Tampered, SpawnAuditor
<1>13. CASE Auditing \/ Surprise
  BY <1>13 DEF Auditing, Surprise
<1> QED
  BY <1>1, <1>2, <1>3, <1>4, <1>5, <1>6, <1>7, <1>8, <1>9, <1>10, <1>11, <1>12, <1>13 DEF Step

(* Once the signal has fired, umbel cuts whatever is spawned next.          *)
LEMMA StepAborting ==
    ASSUME IInv, Step
    PROVE  Aborting' /\ AtMostOneSpawnAfterAbort'
<1> USE DEF Goto, Return, Retry, UnlessBlocked, given, ladder, treeVars, workVars, history, WorkerWrites, GateWrites, Spawned, Gate,
        Recast, MayRecast, NextPhase, EndWork, GateFails, CannotRun, SealCommit,
        TypeOK, IInv, Aborting, AtMostOneSpawnAfterAbort, AtWork
<1>1. CASE Preflight \/ Attempt \/ Isolate \/ IsolateFails
  BY <1>1 DEF Preflight, Attempt, Isolate, IsolateFails
<1>2. CASE Setup \/ Smoke
  BY <1>2 DEF Setup, Smoke
<1>3. CASE NoWorker \/ Spawn \/ SpawnFails \/ Backoff \/ Begin \/ SpawnUnnamed
  BY <1>3 DEF NoWorker, Spawn, SpawnFails, Backoff, Begin, SpawnUnnamed
<1>4. CASE SpawnRefused \/ WorkerDied
  BY <1>4 DEF SpawnRefused, WorkerDied
<1>5. CASE Command
  BY <1>5 DEF Command
<1>6. CASE Turn
  BY <1>6 DEF Turn, WaitReasons
<1>7. CASE SettlePhase \/ RedGate
  BY <1>7 DEF SettlePhase, RedGate
<1>8. CASE GreenGate
  BY <1>8 DEF GreenGate
<1>9. CASE Seal \/ SealUnnamed
  BY <1>9 DEF Seal, SealUnnamed
<1>10. CASE Rerun \/ Stopped \/ Cut \/ EndedOtherwise
  BY <1>10 DEF Rerun, Stopped, Cut, EndedOtherwise
<1>11. CASE Settle \/ Marker \/ Hygiene
  BY <1>11 DEF Settle, Marker, Hygiene
<1>12. CASE NoAudit \/ Tampered \/ SpawnAuditor
  BY <1>12 DEF NoAudit, Tampered, SpawnAuditor
<1>13. CASE Auditing \/ Surprise
  BY <1>13 DEF Auditing, Surprise, WaitReasons
<1> QED
  BY <1>1, <1>2, <1>3, <1>4, <1>5, <1>6, <1>7, <1>8, <1>9, <1>10, <1>11, <1>12, <1>13 DEF Step

(* No phase is entered past a red one that is not sealed.                   *)
LEMMA StepInOrder ==
    ASSUME IInv, Step
    PROVE  InOrder'
<1> USE DEF Goto, Return, Retry, UnlessBlocked, given, ladder, treeVars, workVars, history, WorkerWrites, GateWrites, Spawned, Gate,
        Recast, MayRecast, NextPhase, EndWork, GateFails, CannotRun, SealCommit,
        TypeOK, IInv, InOrder, Placed, AtWork, Phased, Kind, Reds
<1>1. CASE Preflight \/ Attempt \/ Isolate \/ IsolateFails
  BY <1>1 DEF Preflight, Attempt, Isolate, IsolateFails
<1>2. CASE Setup \/ Smoke
  BY <1>2 DEF Setup, Smoke
<1>3. CASE NoWorker \/ Spawn \/ SpawnFails \/ Backoff \/ Begin \/ SpawnUnnamed
  BY <1>3 DEF NoWorker, Spawn, SpawnFails, Backoff, Begin, SpawnUnnamed
<1>4. CASE SpawnRefused \/ WorkerDied
  BY <1>4 DEF SpawnRefused, WorkerDied
<1>5. CASE Command
  BY <1>5 DEF Command
<1>6. CASE Turn
  BY <1>6 DEF Turn
<1>7. CASE SettlePhase \/ RedGate
  BY <1>7 DEF SettlePhase, RedGate
<1>8. CASE GreenGate
  BY <1>8 DEF GreenGate
<1>9. CASE Seal \/ SealUnnamed
  BY <1>9 DEF Seal, SealUnnamed
<1>10. CASE Rerun \/ Stopped \/ Cut \/ EndedOtherwise
  BY <1>10 DEF Rerun, Stopped, Cut, EndedOtherwise
<1>11. CASE Settle \/ Marker \/ Hygiene
  BY <1>11 DEF Settle, Marker, Hygiene
<1>12. CASE NoAudit \/ Tampered \/ SpawnAuditor
  BY <1>12 DEF NoAudit, Tampered, SpawnAuditor
<1>13. CASE Auditing \/ Surprise
  BY <1>13 DEF Auditing, Surprise
<1> QED
  BY <1>1, <1>2, <1>3, <1>4, <1>5, <1>6, <1>7, <1>8, <1>9, <1>10, <1>11, <1>12, <1>13 DEF Step

(* No rung is reached over one that was not passed.                         *)
LEMMA StepClimbed ==
    ASSUME IInv, Step
    PROVE  Climbed'
<1> USE DEF Goto, Return, Retry, UnlessBlocked, given, ladder, treeVars, workVars, history, WorkerWrites, GateWrites, Spawned, Gate,
        Recast, MayRecast, NextPhase, EndWork, GateFails, CannotRun, SealCommit, TypeOK, IInv, Climbed
<1>1. CASE Preflight \/ Attempt \/ Isolate \/ IsolateFails
  BY <1>1 DEF Preflight, Attempt, Isolate, IsolateFails
<1>2. CASE Setup \/ Smoke
  BY <1>2 DEF Setup, Smoke
<1>3. CASE NoWorker \/ Spawn \/ SpawnFails \/ Backoff \/ Begin \/ SpawnUnnamed
  BY <1>3 DEF NoWorker, Spawn, SpawnFails, Backoff, Begin, SpawnUnnamed
<1>4. CASE SpawnRefused \/ WorkerDied
  BY <1>4 DEF SpawnRefused, WorkerDied
<1>5. CASE Command
  BY <1>5 DEF Command
<1>6. CASE Turn
  BY <1>6 DEF Turn
<1>7. CASE SettlePhase \/ RedGate
  BY <1>7 DEF SettlePhase, RedGate
<1>8. CASE GreenGate
  BY <1>8 DEF GreenGate
<1>9. CASE Seal \/ SealUnnamed
  BY <1>9 DEF Seal, SealUnnamed
<1>10. CASE Rerun \/ Stopped \/ Cut \/ EndedOtherwise
  BY <1>10 DEF Rerun, Stopped, Cut, EndedOtherwise
<1>11. CASE Settle \/ Marker \/ Hygiene
  BY <1>11 DEF Settle, Marker, Hygiene
<1>12. CASE NoAudit \/ Tampered \/ SpawnAuditor
  BY <1>12 DEF NoAudit, Tampered, SpawnAuditor
<1>13. CASE Auditing \/ Surprise
  BY <1>13 DEF Auditing, Surprise
<1> QED
  BY <1>1, <1>2, <1>3, <1>4, <1>5, <1>6, <1>7, <1>8, <1>9, <1>10, <1>11, <1>12, <1>13 DEF Step

(* The work stops at the end of its list.                                   *)
LEMMA StepFinished ==
    ASSUME IInv, Step
    PROVE  Finished'
<1> USE WorkList DEF Goto, Return, Retry, UnlessBlocked, given, ladder, treeVars, workVars, history, WorkerWrites, GateWrites, Spawned, Gate,
        Recast, MayRecast, NextPhase, EndWork, GateFails, CannotRun, SealCommit,
        TypeOK, IInv, Finished, Placed, InOrder, AtWork, Phased, Kind, AllSealed, Reds, Phases
<1>1. CASE Preflight \/ Attempt \/ Isolate \/ IsolateFails
  BY <1>1 DEF Preflight, Attempt, Isolate, IsolateFails
<1>2. CASE Setup \/ Smoke
  BY <1>2 DEF Setup, Smoke
<1>3. CASE NoWorker \/ Spawn \/ SpawnFails \/ Backoff \/ Begin \/ SpawnUnnamed
  BY <1>3 DEF NoWorker, Spawn, SpawnFails, Backoff, Begin, SpawnUnnamed
<1>4. CASE SpawnRefused \/ WorkerDied
  BY <1>4 DEF SpawnRefused, WorkerDied
<1>5. CASE Command
  BY <1>5 DEF Command
<1>6. CASE Turn
  BY <1>6 DEF Turn
<1>7. CASE SettlePhase \/ RedGate
  BY <1>7 DEF SettlePhase, RedGate
<1>8. CASE GreenGate
  BY <1>8 DEF GreenGate
<1>9. CASE SealUnnamed
  BY <1>9 DEF SealUnnamed
<1>10. CASE Seal
  BY <1>10 DEF Seal
<1>11. CASE Rerun \/ Stopped \/ Cut \/ EndedOtherwise
  BY <1>11 DEF Rerun, Stopped, Cut, EndedOtherwise
<1>12. CASE Settle \/ Marker \/ Hygiene
  BY <1>12 DEF Settle, Marker, Hygiene
<1>13. CASE NoAudit \/ Tampered \/ SpawnAuditor
  BY <1>13 DEF NoAudit, Tampered, SpawnAuditor
<1>14. CASE Auditing \/ Surprise
  BY <1>14 DEF Auditing, Surprise
<1> QED
  BY <1>1, <1>2, <1>3, <1>4, <1>5, <1>6, <1>7, <1>8, <1>9, <1>10, <1>11, <1>12, <1>13, <1>14 DEF Step

(* A tree is made when none is held, and dropped when it is disposed of.    *)
LEMMA StepAccounted ==
    ASSUME IInv, Step
    PROVE  TreeAccounted'
<1> USE DEF Goto, Return, Retry, UnlessBlocked, given, ladder, treeVars, workVars, history, WorkerWrites, GateWrites, Spawned, Gate,
        Recast, MayRecast, NextPhase, EndWork, GateFails, CannotRun, SealCommit, TypeOK, IInv, TreeAccounted, Holds
<1>1. CASE Preflight \/ Attempt \/ Isolate \/ IsolateFails
  BY <1>1 DEF Preflight, Attempt, Isolate, IsolateFails
<1>2. CASE Setup \/ Smoke
  BY <1>2 DEF Setup, Smoke
<1>3. CASE NoWorker \/ Spawn \/ SpawnFails \/ Backoff \/ Begin \/ SpawnUnnamed
  BY <1>3 DEF NoWorker, Spawn, SpawnFails, Backoff, Begin, SpawnUnnamed
<1>4. CASE SpawnRefused \/ WorkerDied
  BY <1>4 DEF SpawnRefused, WorkerDied
<1>5. CASE Command
  BY <1>5 DEF Command
<1>6. CASE Turn
  BY <1>6 DEF Turn
<1>7. CASE SettlePhase \/ RedGate
  BY <1>7 DEF SettlePhase, RedGate
<1>8. CASE GreenGate
  BY <1>8 DEF GreenGate
<1>9. CASE Seal \/ SealUnnamed
  BY <1>9 DEF Seal, SealUnnamed
<1>10. CASE Rerun \/ Stopped \/ Cut \/ EndedOtherwise
  BY <1>10 DEF Rerun, Stopped, Cut, EndedOtherwise
<1>11. CASE Settle \/ Marker \/ Hygiene
  BY <1>11 DEF Settle, Marker, Hygiene
<1>12. CASE NoAudit \/ Tampered \/ SpawnAuditor
  BY <1>12 DEF NoAudit, Tampered, SpawnAuditor
<1>13. CASE Auditing \/ Surprise
  BY <1>13 DEF Auditing, Surprise
<1> QED
  BY <1>1, <1>2, <1>3, <1>4, <1>5, <1>6, <1>7, <1>8, <1>9, <1>10, <1>11, <1>12, <1>13 DEF Step

(* Only a new tree and a seal change what is sealed, but for a lane that ends. *)
LEMMA SealsStand ==
    ASSUME IInv, Step
    PROVE  \/ tree'.sealed = tree.sealed /\ redSealedAt' = redSealedAt /\ (iso' => iso)
           \/ Isolate \/ Seal \/ at' = "returned"
<1> USE DEF Goto, Return, Retry, UnlessBlocked, given, ladder, treeVars, workVars, history, WorkerWrites, GateWrites, Spawned, Gate,
        Recast, MayRecast, NextPhase, EndWork, GateFails, CannotRun, TypeOK, IInv, Trees
<1>1. CASE Preflight \/ Attempt \/ IsolateFails
  BY <1>1 DEF Preflight, Attempt, IsolateFails
<1>2. CASE Isolate
  BY <1>2
<1>3. CASE Setup \/ Smoke
  BY <1>3 DEF Setup, Smoke
<1>4. CASE NoWorker \/ Spawn \/ SpawnFails \/ Backoff \/ Begin \/ SpawnUnnamed
  BY <1>4 DEF NoWorker, Spawn, SpawnFails, Backoff, Begin, SpawnUnnamed
<1>5. CASE SpawnRefused \/ WorkerDied
  BY <1>5 DEF SpawnRefused, WorkerDied
<1>6. CASE Command
  BY <1>6 DEF Command
<1>7. CASE Turn
  BY <1>7 DEF Turn
<1>8. CASE SettlePhase \/ RedGate
  BY <1>8 DEF SettlePhase, RedGate
<1>9. CASE GreenGate
  BY <1>9 DEF GreenGate
<1>10. CASE SealUnnamed
  BY <1>10 DEF SealUnnamed, SealCommit
<1>11. CASE Seal
  BY <1>11
<1>12. CASE Rerun \/ Stopped \/ Cut \/ EndedOtherwise
  BY <1>12 DEF Rerun, Stopped, Cut, EndedOtherwise
<1>13. CASE Settle \/ Marker \/ Hygiene
  BY <1>13 DEF Settle, Marker, Hygiene
<1>14. CASE NoAudit \/ Tampered \/ SpawnAuditor
  BY <1>14 DEF NoAudit, Tampered, SpawnAuditor
<1>15. CASE Auditing \/ Surprise
  BY <1>15 DEF Auditing, Surprise
<1> QED
  BY <1>1, <1>2, <1>3, <1>4, <1>5, <1>6, <1>7, <1>8, <1>9, <1>10, <1>11, <1>12, <1>13, <1>14, <1>15 DEF Step

(* What the seal says is what the tree in hand holds.                       *)
LEMMA StepSeals ==
    ASSUME IInv, Step
    PROVE  SealsBelongToTree'
<1> SUFFICES ASSUME iso', result' = "none"
             PROVE  \A i \in Reds' : i \in tree'.sealed <=> i <= redSealedAt'
  BY DEF SealsBelongToTree
<1>1. Reds' = Reds /\ at # "returned"
  BY GivenStands, DoneIsDone DEF given, Reds
<1>2. CASE tree'.sealed = tree.sealed /\ redSealedAt' = redSealedAt /\ (iso' => iso)
  BY <1>1, <1>2 DEF IInv, SealsBelongToTree, Holds
<1>3. CASE Isolate
  BY <1>1, <1>3 DEF Isolate, FreshTrees
<1>4. CASE Seal
  <2>1. CASE SealCommit /\ redSealedAt' = phase
    <3>1. tree'.sealed = tree.sealed \cup {phase}
      BY <2>1 DEF SealCommit, IInv, TypeOK, Trees
    <3>2. /\ \A i \in Reds : i \in tree.sealed <=> i <= redSealedAt
          /\ redSealedAt < phase /\ \A i \in Reds : i < phase => i <= redSealedAt
          /\ redSealedAt \in Int /\ phase \in Int
      BY <1>1, <1>4 DEF IInv, TypeOK, Seal, SealsBelongToTree, Holds, Placed, InOrder, AtWork, Reds
    <3> QED
      BY <1>1, <2>1, <3>1, <3>2 DEF Reds
  <2>2. CASE UNCHANGED <<tree, redSealedAt>>
    BY <1>1, <1>4, <2>2 DEF Seal, IInv, SealsBelongToTree, Holds
  <2> QED
    BY <1>4, <2>1, <2>2 DEF Seal
<1>5. CASE at' = "returned"
  BY <1>5, StepHolds DEF Holds
<1> QED
  BY <1>2, <1>3, <1>4, <1>5, SealsStand

(* Who says done, and who says aborted.                                     *)
LEMMA WhoSaysDone ==
    ASSUME IInv, Step
    PROVE  /\ result' = "done" =>
                 /\ iso' = iso /\ tree' = tree /\ redSealedAt' = redSealedAt
                 /\ \/ at = "audit" /\ node.auditor = NoProvider /\ passed' = passed
                    \/ at = "auditing" /\ passed' = passed \cup {"audit"}
           /\ result' = "aborted" => signal
<1> USE DEF Goto, Return, Retry, UnlessBlocked, given, ladder, treeVars, workVars, history, WorkerWrites, GateWrites, Spawned, Gate,
        Recast, MayRecast, NextPhase, EndWork, GateFails, CannotRun, SealCommit, TypeOK, IInv, Holds, Aborting
<1>1. CASE Preflight \/ Attempt \/ Isolate \/ IsolateFails
  BY <1>1 DEF Preflight, Attempt, Isolate, IsolateFails
<1>2. CASE Setup \/ Smoke
  BY <1>2 DEF Setup, Smoke
<1>3. CASE NoWorker \/ Spawn \/ SpawnFails \/ Backoff \/ Begin \/ SpawnUnnamed
  BY <1>3 DEF NoWorker, Spawn, SpawnFails, Backoff, Begin, SpawnUnnamed
<1>4. CASE SpawnRefused \/ WorkerDied
  BY <1>4 DEF SpawnRefused, WorkerDied
<1>5. CASE Command
  BY <1>5 DEF Command
<1>6. CASE Turn
  BY <1>6 DEF Turn, WaitReasons
<1>7. CASE SettlePhase \/ RedGate
  BY <1>7 DEF SettlePhase, RedGate
<1>8. CASE GreenGate
  BY <1>8 DEF GreenGate
<1>9. CASE Seal \/ SealUnnamed
  BY <1>9 DEF Seal, SealUnnamed
<1>10. CASE Rerun \/ Stopped \/ Cut \/ EndedOtherwise
  BY <1>10 DEF Rerun, Stopped, Cut, EndedOtherwise
<1>11. CASE Settle \/ Marker \/ Hygiene
  BY <1>11 DEF Settle, Marker, Hygiene
<1>12. CASE NoAudit \/ Tampered \/ SpawnAuditor
  BY <1>12 DEF NoAudit, Tampered, SpawnAuditor
<1>13. CASE Auditing \/ Surprise
  BY <1>13 DEF Auditing, Surprise, WaitReasons
<1> QED
  BY <1>1, <1>2, <1>3, <1>4, <1>5, <1>6, <1>7, <1>8, <1>9, <1>10, <1>11, <1>12, <1>13 DEF Step

(* An outcome is earned by the rungs below it.                              *)
LEMMA StepEarned ==
    ASSUME IInv, Step
    PROVE  OutcomesAreEarned'
<1>1. node' = node /\ Reds' = Reds /\ Declared' = Declared /\ signal' = signal
  BY GivenStands DEF given, Reds, Declared
<1>2. CASE result' = "done"
  <2>1. at \in {"audit", "auditing"} /\ iso' = iso /\ tree' = tree
    BY <1>2, WhoSaysDone
  <2>2. iso /\ result = "none" /\ AllSealed /\ "marker" \in passed /\ "hygiene" \in passed
    BY <2>1 DEF IInv, Holds, Climbed, Finished
  <2>3. Reds \subseteq tree.sealed
    BY <2>2 DEF IInv, SealsBelongToTree, AllSealed
  <2>4. Declared \subseteq passed \cup {"audit"} /\ (node.auditor = NoProvider => Declared \subseteq passed)
    BY <2>1, <2>2 DEF IInv, Climbed, Finished, Declared
  <2>5. Declared \subseteq passed'
    BY <1>2, <2>4, WhoSaysDone
  <2> QED
    BY <1>1, <1>2, <2>1, <2>2, <2>3, <2>5 DEF OutcomesAreEarned
<1>3. CASE result' # "done"
  BY <1>1, <1>3, WhoSaysDone DEF OutcomesAreEarned
<1> QED
  BY <1>2, <1>3

-----------------------------------------------------------------------------
(* The invariant holds                                                     *)

(* The signal may fire at any moment of a node that has not settled.        *)
LEMMA OthersKeep ==
    ASSUME IInv, Interrupt \/ UNCHANGED vars
    PROVE  IInv'
<1>1. /\ UNCHANGED <<given, at, ladder, treeVars, workVars, result, late, died>>
      /\ signal' \in BOOLEAN /\ (signal => signal')
  BY DEF Interrupt, vars, history, IInv, TypeOK
<1>2. TypeOK'
  BY <1>1 DEF given, ladder, treeVars, workVars, IInv, TypeOK, Reds, Trees
<1>3. Holds' /\ Placed' /\ Reaudited' /\ Manned' /\ Budgeted' /\ AttemptsBounded'
  BY <1>1 DEF given, ladder, treeVars, workVars, IInv, Holds, Placed, Reaudited, Manned, Budgeted,
              AttemptsBounded, Reds, Phased, Kind
<1>4. Eligible' /\ Aborting' /\ AtMostOneSpawnAfterAbort'
  BY <1>1 DEF given, ladder, treeVars, workVars, IInv, Eligible, Refused, Aborting,
              AtMostOneSpawnAfterAbort
<1>5. InOrder' /\ Climbed' /\ Finished'
  BY <1>1 DEF given, ladder, treeVars, workVars, IInv, InOrder, Climbed, Finished, AllSealed, Reds,
              Phased, Kind
<1>6. TreeAccounted' /\ SealsBelongToTree' /\ OutcomesAreEarned'
  BY <1>1 DEF given, ladder, treeVars, workVars, IInv, TreeAccounted, SealsBelongToTree,
              OutcomesAreEarned, Declared, Reds
<1> QED
  BY <1>2, <1>3, <1>4, <1>5, <1>6 DEF IInv

(* runNode begins in the invariant.                                         *)
LEMMA InitInvariant == Init => IInv
<1> SUFFICES ASSUME Init PROVE IInv
  OBVIOUS
<1>1. TypeOK
  <2>1. waits \in [{"provider", "spawn"} -> 0..ProviderWaits]
    BY RunNodeAssumption DEF Init
  <2>2. tree \in Trees /\ trees \in Int
    BY DEF Init, NoTree, Trees
  <2>3. node \in Nodes /\ opts \in Options /\ phase \in 0..Len(node.work)
    BY WorkList DEF Init
  <2>4. /\ attempts = 0 /\ late = 0 /\ reaudits = 0 /\ redSealedAt = 0
        /\ cast = node.provider /\ passed = {} /\ died = {}
        /\ at = "preflight" /\ worker = "none" /\ reason = "none" /\ result = "none"
        /\ iso \in BOOLEAN /\ signal \in BOOLEAN
    BY DEF Init
  <2> QED
    BY <2>1, <2>2, <2>3, <2>4 DEF TypeOK, REAUDIT_BUDGET
<1>2. Holds /\ Reaudited /\ Manned /\ Budgeted /\ Eligible
  BY DEF Init, Holds, Reaudited, Manned, Budgeted, Eligible, AtWork
<1>6. AttemptsBounded
  BY RunNodeAssumption DEF Init, AttemptsBounded
<1>3. Placed
  BY RunNodeAssumption DEF Init, Placed, AtWork
<1>4. Aborting /\ AtMostOneSpawnAfterAbort /\ InOrder /\ Climbed /\ Finished
  BY DEF Init, Aborting, AtMostOneSpawnAfterAbort, InOrder, Climbed, Finished, AtWork
<1>5. TreeAccounted /\ SealsBelongToTree /\ OutcomesAreEarned
  BY DEF Init, TreeAccounted, SealsBelongToTree, OutcomesAreEarned
<1> QED
  BY <1>1, <1>2, <1>3, <1>4, <1>5, <1>6 DEF IInv

(* The inductive invariant holds in every state of every run.               *)
LEMMA Invariant == Spec => []IInv
<1>1. Init => IInv
  BY InitInvariant
<1>2. IInv /\ [Next]_vars => IInv'
  <2> SUFFICES ASSUME IInv, [Next]_vars PROVE IInv'
    OBVIOUS
  <2>1. CASE Step
    BY <2>1, StepTyped, StepHolds, StepPlaced, StepReaudited, StepManned, StepBudgeted, StepEligible,
       StepAborting, StepInOrder, StepClimbed, StepFinished, StepAccounted, StepSeals, StepEarned
    DEF IInv
  <2>2. CASE Interrupt \/ UNCHANGED vars
    BY <2>2, OthersKeep
  <2> QED
    BY <2>1, <2>2 DEF Next
<1> QED
  BY <1>1, <1>2, PTL DEF Spec

-----------------------------------------------------------------------------
(* Theorems                                                                *)

(* Every variable keeps its shape, through every retry, recast and re-audit. *)
THEOREM TypeCorrect == Spec => []TypeOK
<1>1. IInv => TypeOK
  BY DEF IInv
<1> QED
  BY <1>1, Invariant, PTL

(* Retries, recasts and refused seals together stay within the policy.      *)
THEOREM AttemptsBoundedHolds == Spec => []AttemptsBounded
<1>1. IInv => AttemptsBounded
  BY DEF IInv
<1> QED
  BY <1>1, Invariant, PTL

(* Whoever builds is neither the auditor's provider nor one that died.      *)
THEOREM CastIsEligibleHolds == Spec => []CastIsEligible
<1>1. IInv => CastIsEligible
  BY DEF IInv, TypeOK, CastIsEligible, Eligible, Manned, AtWork
<1> QED
  BY <1>1, Invariant, PTL

(* No worktree is forgotten, and none is made while another is held.        *)
THEOREM TreeAccountedHolds == Spec => []TreeAccounted
<1>1. IInv => TreeAccounted
  BY DEF IInv
<1> QED
  BY <1>1, Invariant, PTL

(* The seal in force is the seal of the tree in hand.                       *)
THEOREM SealsBelongToTreeHolds == Spec => []SealsBelongToTree
<1>1. IInv => SealsBelongToTree
  BY DEF IInv
<1> QED
  BY <1>1, Invariant, PTL

(* An abort under umbel lets at most one more worker be spawned.            *)
THEOREM AtMostOneSpawnAfterAbortHolds == Spec => []AtMostOneSpawnAfterAbort
<1>1. IInv => AtMostOneSpawnAfterAbort
  BY DEF IInv
<1> QED
  BY <1>1, Invariant, PTL

(* A settled node has left no worker that anybody holds.                    *)
THEOREM NoWorkerOutlivesNodeHolds == Spec => []NoWorkerOutlivesNode
<1>1. IInv => NoWorkerOutlivesNode
  BY DEF IInv, TypeOK, NoWorkerOutlivesNode, Holds, Manned, AtWork
<1> QED
  BY <1>1, Invariant, PTL

(* Done is said only of a tree that passed every gate its node declares.    *)
THEOREM OutcomesAreEarnedHolds == Spec => []OutcomesAreEarned
<1>1. IInv => OutcomesAreEarned
  BY DEF IInv
<1> QED
  BY <1>1, Invariant, PTL
==============================================================================
