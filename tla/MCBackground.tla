---------------------------- MODULE MCBackground ----------------------------
(*****************************************************************************)
(* The work that goes on beside the turns a user waits for, each part on its *)
(* own behaviours: detached agent jobs, the notification outbox, the tasks   *)
(* of loop runs, the memory suggestions and consolidation runs that give way *)
(* to a turn, and the workers of the MCP client.  A behaviour picks one part *)
(* and takes only its steps, so one run asks what each part eventually does  *)
(* without multiplying their states.                                         *)
(*****************************************************************************)
EXTENDS AgentJobs, Notifications, LoopRuns, MemoryRuns, McpClient

VARIABLE part \* the part whose steps this behaviour takes

MCOwnerOf == [d \in Dests |-> "alice"]
MCTargets == [e \in OutboxEvents |-> Dests]
MCSessionOf == [r \in Runs |-> "s1"]
FirstGoal == [s \in Sessions |-> CHOOSE g \in Goals : TRUE]
FirstMcp == CHOOSE m \in [enabled : {FALSE}, platform : {"linux"}, server : Declarations,
                           probe : {TRUE}, allowLoopback : {FALSE}] : TRUE

(* The parts that rest start in one state; only the chosen one starts in   *)
(* every initial state it has.                                              *)
BackgroundInit ==
  /\ part \in {"jobs", "outbox", "loops", "memory", "mcp"}
  /\ Init
  /\ OutboxInit
  /\ LoopInit /\ (part # "loops" => goal = FirstGoal)
  /\ RunsInit
  /\ McpInit /\ (part # "mcp" => mcp = FirstMcp)

BackgroundNext ==
  \/ /\ part = "jobs" /\ Next
     /\ UNCHANGED <<part, outboxVars, loopVars, runsVars, mcpVars>>
  \/ /\ part = "outbox" /\ OutboxNext
     /\ UNCHANGED <<part, vars, loopVars, runsVars, mcpVars>>
  \/ /\ part = "loops" /\ LoopNext
     /\ UNCHANGED <<part, vars, outboxVars, runsVars, mcpVars>>
  \/ /\ part = "memory" /\ RunsNext
     /\ UNCHANGED <<part, vars, outboxVars, loopVars, mcpVars>>
  \/ /\ part = "mcp" /\ McpNext
     /\ UNCHANGED <<part, vars, outboxVars, loopVars, runsVars>>

backgroundAll == <<part, vars, outboxVars, loopVars, runsVars, mcpVars>>

(* The fairness of the modules, each for its own steps.                     *)
BackgroundFairness ==
  /\ \A j \in Jobs : WF_vars(part = "jobs" /\ RouteStep(j)) /\ WF_vars(part = "jobs" /\ TaskStep(j))
  /\ \A j \in Jobs : WF_vars(part = "jobs" /\ ChildReaped(j))
  /\ WF_outboxVars(part = "outbox" /\ OutboxWorker)
  /\ SF_outboxVars(part = "outbox" /\ Sweep(TRUE))
  /\ SF_outboxVars(part = "outbox" /\ Reservation(TRUE))
  /\ \A k \in Key : SF_outboxVars(part = "outbox" /\ \E B \in SUBSET Key : k \in B /\ Reserve(B, TRUE))
  /\ \A r \in Runs : WF_loopVars(part = "loops" /\ Task(r))
  /\ \A w \in Watchers : WF_loopVars(part = "loops" /\ Receive(w))
  /\ WF_runsVars(part = "memory" /\ WorkerStep)
  /\ WF_runsVars(part = "memory" /\ TurnStep)
  /\ WF_runsVars(part = "memory" /\ ConsolidationStep)
  /\ WF_runsVars(part = "memory" /\ Recover)
  /\ \A s \in Suggestions : WF_runsVars(part = "memory" /\ Age(s))
  /\ WF_mcpVars(part = "mcp" /\ Worker)
BackgroundSpec == BackgroundInit /\ [][BackgroundNext]_backgroundAll /\ BackgroundFairness

(* Each part keeps to its state space.                                      *)
BackgroundTypeOK ==
  /\ part = "jobs" => TypeOK
  /\ part = "outbox" => OutboxTypeOK
  /\ part = "loops" => LoopTypeOK
  /\ part = "memory" => RunsTypeOK
  /\ part = "mcp" => McpTypeOK

(* Who waits is served, and with its own answer: a turn that waits for the  *)
(* generation gate does not miss the release, an open receipt has an input  *)
(* queued or in work, a watcher of a loop run can still learn its end, and  *)
(* an MCP result answers the call it is handed to (generation_gate.rs       *)
(* claim_preempting, structured_memory_suggest.rs, loop_runner.rs,          *)
(* common/mcp.rs).                                                          *)
WaitersAreServed ==
  /\ part = "memory" => NoMissedRelease /\ OpenReceiptHasInput
  /\ part = "loops" => EndReachesWatchers
  /\ part = "mcp" => ResultIsOwn

(* What has ended or was cancelled stays so: a cancelled memory run         *)
(* proposes nothing and is not resumed, an ended loop run keeps its end,    *)
(* whatever the task at work on it does next                                *)
(* (structured_memory_suggest.rs, loop_runner.rs).                          *)
EndedStaysEnded == CancelIsFinal /\ EndIsFinal

(* Background work settles: a memory receipt gets its outcome, over         *)
(* preemption, cancellation and restarts, and no process of a strictly      *)
(* contained MCP server outlives its call for good                          *)
(* (structured_memory_suggest.rs, mcp_worker.rs).                           *)
BackgroundSettles == ReceiptSettles /\ StrictTreeDies
=============================================================================
