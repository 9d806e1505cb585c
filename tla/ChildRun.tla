------------------------------ MODULE ChildRun -------------------------------
(***************************************************************************)
(* One operation of the shim (shim/mod.rs), the only edge from the server to    *)
(* the agentic layer, on Unix: the request is validated and staged, a blocking  *)
(* worker spawns the child as a session leader and captures its output under a  *)
(* deadline (common/process.rs, common/process/unix.rs), while the request that *)
(* awaits it has a deadline of its own and may be dropped.                      *)
(*                                                                            *)
(* A descendant is a process the child started and that stayed in its group.    *)
(* The operating system may give a reaped process's number to another program.  *)
(***************************************************************************)
EXTENDS Integers, FiniteSets

CONSTANTS
    Descendants,      \* processes the child may start
    MaxCapture,       \* MAX_CAPTURE_BYTES, in chunks
    MaxU64,           \* the width of the budget arithmetic
    FallbackPlanner, DefaultIterations, CheckSec, OverheadSec, WriteSec, StatusSec, DefaultSec, MaxTimeoutSec,
    PlannerTimeouts, Iterations, CheckCounts,   \* request shapes
    MaxShimClock, MaxOperations                 \* bounds

ASSUME ShimAssumption ==
    /\ {OverheadSec, CheckSec, MaxTimeoutSec, WriteSec, StatusSec, DefaultSec} \subseteq 1..MaxU64
    /\ MaxU64 \in Nat /\ FallbackPlanner \in Nat /\ DefaultIterations \in Nat /\ MaxCapture \in Nat
    /\ PlannerTimeouts \subseteq Nat /\ Iterations \subseteq Nat /\ CheckCounts \subseteq Nat

VARIABLES
    op,            \* the awaiting request: [pc, action, planner, iterations, checks, budget, temps]
    activeOps,     \* ACTIVE_OPERATIONS
    cancelled,     \* the flag CancelOnDrop sets
    worker,        \* [pc, since, result]
    childState,    \* "none", "running", "zombie" (exited, not reaped) or "reaped"
    alive,         \* descendants alive in the child's group
    holding,       \* those that still hold its output pipes
    unread,        \* chunks written and not read
    captured,      \* chunks read
    pidOwner,      \* whose the child's process number is: "none", "child" or "other"
    strayKill,     \* a group kill reached another program
    shimClock, operations

shimVars == <<op, activeOps, cancelled, worker, childState, alive, holding, unread, captured, pidOwner, strayKill, shimClock, operations>>
processVars == <<childState, alive, holding, unread, captured, pidOwner, strayKill>>

NoOp == [pc |-> "none", action |-> "none", planner |-> 0, iterations |-> 0, checks |-> 0, budget |-> 0, temps |-> 0]
NoShimWorker == [pc |-> "none", since |-> 0, result |-> "none"]

(* -------------------------------- the request -------------------------------- *)
(* ACTIONS, what validate requires of each, and the values build_argv stages in files. *)
ActionNames == {"status", "test", "context", "propose-skill", "apply-skill", "real-repo-run", "real-repo-run-status", "real-repo-runs",
                "real-repo-run-decide", "real-repo-run-push", "real-repo-run-publish", "real-repo-run-discard"}
RunActions == {"real-repo-run-status", "real-repo-run-decide", "real-repo-run-push", "real-repo-run-publish", "real-repo-run-discard"}
RequiredFields(action) ==
    (IF action \in {"propose-skill", "apply-skill"} THEN {"name", "desc"} ELSE {})
    \cup (IF action \in {"apply-skill", "real-repo-run", "real-repo-run-publish"} THEN {"reason"} ELSE {})
    \cup (IF action = "real-repo-run" THEN {"instruction", "checks", "branch", "message"} ELSE {})
    \cup (IF action \in RunActions THEN {"run_id"} ELSE {}) \cup (IF action = "real-repo-run-decide" THEN {"decision"} ELSE {})
    \cup (IF action = "real-repo-run-publish" THEN {"body"} ELSE {})
Validate(action, given) == action \in ActionNames /\ RequiredFields(action) \subseteq given
StagedFiles(action, given) ==
    Cardinality((IF action = "real-repo-run" THEN {"checks"} \cup (given \cap {"plan"}) ELSE {})
                \cup (IF action \in {"propose-skill", "apply-skill", "real-repo-run-publish"} THEN given \cap {"body"} ELSE {}))

(* real_repo_run_budget_sec: u64 arithmetic that saturates, then the ceiling.            *)
Saturated(n) == IF n > MaxU64 THEN MaxU64 ELSE n
Wrapped(n) == n % (MaxU64 + 1)
EffectivePlanner(p) == IF p = 0 THEN FallbackPlanner ELSE p
EffectiveIterations(n) == IF n > 0 THEN n ELSE DefaultIterations
EffectiveChecks(n) == IF n > 1 THEN n ELSE 1
RunBudget(p, n, c) ==
    LET i == EffectiveIterations(n) IN
    Saturated(Saturated(Saturated(i * EffectivePlanner(p)) + Saturated(Saturated(i * EffectiveChecks(c)) * CheckSec)) + OverheadSec)
(* timeout_for.                                                                            *)
TimeoutFor(action, p, n, c) ==
    IF action = "real-repo-run" THEN (IF RunBudget(p, n, c) < MaxTimeoutSec THEN RunBudget(p, n, c) ELSE MaxTimeoutSec)
    ELSE IF action \in {"real-repo-run-decide", "real-repo-run-push", "real-repo-run-publish"} THEN WriteSec
    ELSE IF action = "real-repo-run-status" THEN StatusSec ELSE DefaultSec

ShimFields == {"name", "desc", "reason", "instruction", "checks", "branch", "message", "run_id", "decision", "body", "plan"}
Shapes == {[action |-> x, temps |-> StagedFiles(x, g), planner |-> p, iterations |-> n, checks |-> c] :
              x \in ActionNames, g \in {RequiredFields(y) : y \in ActionNames} \cup {ShimFields}, p \in PlannerTimeouts, n \in Iterations, c \in CheckCounts}
Accepted == {s \in Shapes : /\ \E g \in {RequiredFields(s.action), ShimFields} : Validate(s.action, g) /\ StagedFiles(s.action, g) = s.temps
                            /\ s.action = "real-repo-run" \/ (s.planner = 0 /\ s.iterations = 0 /\ s.checks = 0)}

(* run_agentic_op: counted, validated, its files staged and the worker queued.             *)
Begin(shape) ==
    /\ op.pc = "none" /\ worker.pc = "none" /\ operations < MaxOperations
    /\ operations' = operations + 1 /\ activeOps' = activeOps + 1 /\ cancelled' = FALSE
    /\ op' = [pc |-> "waiting", action |-> shape.action, planner |-> shape.planner, iterations |-> shape.iterations, checks |-> shape.checks,
              budget |-> TimeoutFor(shape.action, shape.planner, shape.iterations, shape.checks), temps |-> shape.temps]
    /\ worker' = [NoShimWorker EXCEPT !.pc = "queued"] /\ shimClock' = 0
    /\ UNCHANGED processVars

(* --------------------------------- the worker --------------------------------- *)
WorkerStep(pc) == worker.pc = pc /\ UNCHANGED <<op, activeOps, cancelled, shimClock, operations>>
(* The process is spawned unless the request was dropped first; a failed spawn ends it.    *)
(* build_command: the child leads a session of its own, so its number names its group.     *)
OwnSession == childState' = "running" /\ pidOwner' = "child"
SpawnChild ==
    /\ WorkerStep("queued")
    /\ \/ /\ ~cancelled /\ worker' = [worker EXCEPT !.pc = "loop", !.since = shimClock]
          /\ OwnSession /\ UNCHANGED <<alive, holding, unread, captured, strayKill>>
       \/ worker' = [worker EXCEPT !.pc = "ended", !.result = IF cancelled THEN "cancelled" ELSE "spawn"] /\ UNCHANGED processVars
Overdue == shimClock - worker.since >= op.budget
PipesClosed == childState # "running" /\ holding = {} /\ unread = 0
(* One turn of the loop: cancelled, out of time, one more chunk, too many, or complete.     *)
WorkerTurn ==
    /\ WorkerStep("loop")
    /\ IF cancelled THEN worker' = [worker EXCEPT !.pc = "abandon", !.result = "cancelled"] /\ UNCHANGED <<unread, captured>>
       ELSE IF Overdue THEN worker' = [worker EXCEPT !.pc = "abandon", !.result = "timeout"] /\ UNCHANGED <<unread, captured>>
       ELSE IF unread > 0 /\ captured = MaxCapture THEN worker' = [worker EXCEPT !.pc = "abandon", !.result = "overflow"] /\ UNCHANGED <<unread, captured>>
       ELSE IF unread > 0 THEN unread' = unread - 1 /\ captured' = captured + 1 /\ UNCHANGED worker
       ELSE PipesClosed /\ worker' = [worker EXCEPT !.pc = "clean", !.result = "output"] /\ UNCHANGED <<unread, captured>>
    /\ UNCHANGED <<childState, alive, holding, pidOwner, strayKill>>
(* Owner::cleanup: the group is killed while the child's number is still its own.           *)
GroupKilled ==
    /\ strayKill' = (strayKill \/ pidOwner = "other")
    /\ IF pidOwner = "child" THEN alive' = {} /\ holding' = {} /\ childState' = IF childState = "running" THEN "zombie" ELSE childState
       ELSE UNCHANGED <<alive, holding, childState>>
Cleanup(pc) ==
    /\ WorkerStep(pc) /\ GroupKilled
    /\ worker' = [worker EXCEPT !.pc = IF pc = "clean" THEN "reap" ELSE "drop"]
    /\ UNCHANGED <<unread, captured, pidOwner>>
(* wait: on success for the status, otherwise by the owner's drop.                          *)
Reap(pc) ==
    /\ WorkerStep(pc) /\ childState = "zombie" /\ childState' = "reaped" /\ pidOwner' = "none"
    /\ worker' = [worker EXCEPT !.pc = "ended"]
    /\ UNCHANGED <<alive, holding, unread, captured, strayKill>>

(* ---------------------------- the awaiting request ---------------------------- *)
(* Its end, whichever way: the staged files go and it is no longer counted.               *)
Ends(drop) == op' = NoOp /\ activeOps' = activeOps - 1 /\ cancelled' = drop
WorkerReports == op.pc = "waiting" /\ worker.pc = "ended" /\ Ends(FALSE) /\ worker' = NoShimWorker
                 /\ childState' = "none" /\ unread' = 0 /\ captured' = 0 /\ UNCHANGED <<alive, holding, pidOwner, strayKill, shimClock, operations>>
(* The outer deadline, of the same length, or an aborted request: the worker is left to    *)
(* see the flag.                                                                            *)
RequestGone ==
    /\ op.pc = "waiting" /\ worker.pc # "ended" /\ op' = [op EXCEPT !.pc = "gone"] /\ activeOps' = activeOps - 1 /\ cancelled' = TRUE
    /\ UNCHANGED <<worker, shimClock, operations>> /\ UNCHANGED processVars
LateWorkerEnds == op.pc = "gone" /\ worker.pc = "ended" /\ op' = NoOp /\ worker' = NoShimWorker /\ cancelled' = FALSE
                  /\ childState' = "none" /\ unread' = 0 /\ captured' = 0 /\ UNCHANGED <<activeOps, alive, holding, pidOwner, strayKill, shimClock, operations>>

(* ------------------------------- the processes ------------------------------- *)
ChildStep == UNCHANGED <<op, activeOps, cancelled, worker, captured, shimClock, operations>>
ChildWrites == ChildStep /\ (childState = "running" \/ holding # {}) /\ unread + captured <= MaxCapture /\ unread' = unread + 1
               /\ UNCHANGED <<childState, alive, holding, pidOwner, strayKill>>
ChildForks == ChildStep /\ childState = "running" /\ \E d \in Descendants \ alive : alive' = alive \cup {d} /\ holding' \in {holding, holding \cup {d}}
              /\ UNCHANGED <<childState, unread, pidOwner, strayKill>>
ChildExits == ChildStep /\ childState = "running" /\ childState' = "zombie" /\ UNCHANGED <<alive, holding, unread, pidOwner, strayKill>>
DescendantExits == ChildStep /\ \E d \in alive : alive' = alive \ {d} /\ holding' = holding \ {d} /\ UNCHANGED <<childState, unread, pidOwner, strayKill>>
NumberReused == ChildStep /\ pidOwner = "none" /\ childState = "reaped" /\ pidOwner' = "other" /\ UNCHANGED <<childState, alive, holding, unread, strayKill>>
NumberFreed == ChildStep /\ pidOwner = "other" /\ pidOwner' = "none" /\ UNCHANGED <<childState, alive, holding, unread, strayKill>>
ShimTick == shimClock < MaxShimClock /\ op.pc # "none" /\ shimClock' = shimClock + 1 /\ UNCHANGED <<op, activeOps, cancelled, worker, operations>> /\ UNCHANGED processVars

ShimInit ==
    /\ op = NoOp /\ activeOps = 0 /\ cancelled = FALSE /\ worker = NoShimWorker /\ childState = "none" /\ alive = {} /\ holding = {}
    /\ unread = 0 /\ captured = 0 /\ pidOwner = "none" /\ strayKill = FALSE /\ shimClock = 0 /\ operations = 0
ShimNext ==
    \/ \E s \in Accepted : Begin(s)
    \/ SpawnChild \/ WorkerTurn \/ (\E pc \in {"clean", "abandon"} : Cleanup(pc)) \/ (\E pc \in {"reap", "drop"} : Reap(pc))
    \/ WorkerReports \/ RequestGone \/ LateWorkerEnds
    \/ ChildWrites \/ ChildForks \/ ChildExits \/ DescendantExits \/ NumberReused \/ NumberFreed \/ ShimTick
ShimSpec == ShimInit /\ [][ShimNext]_shimVars

ShimTypeOK ==
    /\ op.pc \in {"none", "waiting", "gone"} /\ activeOps \in 0..1 /\ cancelled \in BOOLEAN
    /\ worker.pc \in {"none", "queued", "loop", "clean", "abandon", "reap", "drop", "ended"}
    /\ childState \in {"none", "running", "zombie", "reaped"} /\ alive \subseteq Descendants /\ holding \subseteq alive
    /\ unread \in 0..MaxCapture + 1 /\ captured \in 0..MaxCapture /\ pidOwner \in {"none", "child", "other"} /\ strayKill \in BOOLEAN

(* However the operation ends - complete, out of time, too much output, its request gone   *)
(* before or after the spawn - the worker leaves no process of the child's group behind,   *)
(* and no program that was given the child's number is killed for it (cleanup before wait). *)
GroupEndsOnlyItself == (worker.pc = "ended" => childState \in {"none", "reaped"} /\ alive = {}) /\ ~strayKill

(* The time a coding run is given covers its planner calls, checks and overhead up to the  *)
(* ceiling, whatever an operator configures: the arithmetic never wraps to a short budget. *)
BudgetCoversRun ==
    op.pc # "none" /\ op.action = "real-repo-run" =>
        \/ op.budget = MaxTimeoutSec
        \/ op.budget >= EffectiveIterations(op.iterations) * (EffectivePlanner(op.planner) + EffectiveChecks(op.checks) * CheckSec) + OverheadSec
==============================================================================
