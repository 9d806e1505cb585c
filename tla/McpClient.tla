------------------------------ MODULE McpClient ------------------------------
(***************************************************************************)
(* The MCP client: the declared servers and their grants (server/mcp.rs,    *)
(* common/mcp_policy.rs), the sandbox a stdio child is wrapped in            *)
(* (common/sandbox_wrap.rs), its JSON-RPC session (common/mcp.rs), the strict *)
(* supervisor that owns its process tree (common/mcp_worker.rs) and the SSE   *)
(* transport.                                                                *)
(*                                                                          *)
(* A path grant is its current relation to the harness home; an address is its *)
(* class.  A message is its kind, its id and its length beside the frame cap. *)
(***************************************************************************)
EXTENDS Integers, Sequences, FiniteSets

CONSTANTS
    MaxFrame,      \* mcp.max_result_bytes
    MaxMcpCalls, MaxServerMessages, MaxCrashedHosts  \* bounds

ASSUME McpAssumption == MaxFrame \in Nat \ {0} /\ MaxServerMessages \in Nat

VARIABLES
    mcp,       \* McpRuntime and the platform: fixed at startup
    grant,     \* what the declared root resolves to now
    mcpCall,   \* McpRuntime::call's local state
    unit,      \* the strict supervisor's transient service
    tree,      \* processes of the declared server that are alive
    inbound,   \* messages of the server the session has not read
    unanswered,\* requests of the server read and not yet answered
    hostUp, mcpCalls, serverSent, hostCrashes

mcpVars == <<mcp, grant, mcpCall, unit, tree, inbound, unanswered, hostUp, mcpCalls, serverSent, hostCrashes>>

(* ------------------------- declarations and grants ----------------------- *)
Containments == {"strict", "process_group", "job_object"}
(* StdioCapabilities::validate: what from_config accepts.                        *)
ValidCapabilities(d) ==
    /\ d.containment = "job_object" <=> d.unrestricted
    /\ d.containment = "job_object" => ~d.roots
    /\ d.containment = "process_group" <=> ~d.limits
Declarations ==
    {d \in [transport : {"stdio"}, containment : Containments, unrestricted : BOOLEAN, roots : BOOLEAN,
            limits : BOOLEAN, loopback : {FALSE}] : ValidCapabilities(d)}
    \cup [transport : {"sse"}, containment : {"process_group"}, unrestricted : {FALSE}, roots : {FALSE},
          limits : {FALSE}, loopback : BOOLEAN]
Platforms == {"linux", "macos", "windows"}
BrokerAllowlist == IF mcp.enabled THEN {"echo"} ELSE {}

NoCall == [pc |-> "idle", id |-> 0, code |-> "none", reply |-> 0, size |-> 0, dialed |-> "nothing"]
NoUnit == [pc |-> "none", acked |-> FALSE, owner |-> FALSE]
McpEnded(code) == [mcpCall EXCEPT !.pc = "idle", !.code = code]

(* Drop for StdioClient: the owner stream closes, the process group is killed and *)
(* reaped.  A pid namespace (Linux) or a Job Object (Windows) takes every          *)
(* descendant; elsewhere one that left the group survives.                         *)
DropClient ==
    /\ unit' = [unit EXCEPT !.owner = FALSE]
    /\ tree' = CASE mcp.server.containment = "strict" -> tree
                 [] mcp.server.containment # "strict" /\ mcp.platform = "macos" -> tree \ {"child"}
                 [] OTHER -> {}
EndCall(code) ==
    /\ mcpCall' = McpEnded(code) /\ DropClient
    /\ inbound' = <<>> /\ unanswered' = 0
    /\ UNCHANGED <<mcp, grant, hostUp, mcpCalls, serverSent, hostCrashes>>
CallStep(pc) ==
    /\ mcpCall' = [mcpCall EXCEPT !.pc = pc]
    /\ UNCHANGED <<mcp, grant, unit, tree, inbound, unanswered, hostUp, mcpCalls, serverSent, hostCrashes>>

(* McpRuntime::call: confirmation, the switch, the declaration and the broker.    *)
Refusal(tool, confirm) ==
    CASE ~confirm -> "MCP_CONFIRM_REQUIRED"
      [] confirm /\ ~mcp.enabled -> "MCP_DISABLED"
      [] confirm /\ mcp.enabled /\ tool \notin {"echo"} -> "MCP_UNKNOWN_TOOL"
      [] confirm /\ mcp.enabled /\ tool \in {"echo"} /\ tool \notin BrokerAllowlist -> "TOOL_DENIED"
      [] OTHER -> "none"
CallTool(tool, confirm) ==
    /\ hostUp /\ mcpCall.pc = "idle" /\ mcpCalls < MaxMcpCalls /\ tree = {} /\ unit.pc \in {"none", "gone"}
    /\ mcpCalls' = mcpCalls + 1
    /\ mcpCall' = IF Refusal(tool, confirm) # "none" THEN [NoCall EXCEPT !.code = Refusal(tool, confirm)]
                  ELSE [NoCall EXCEPT !.pc = IF mcp.server.transport = "stdio" THEN "wrap" ELSE "resolve"]
    /\ unit' = NoUnit
    /\ UNCHANGED <<mcp, grant, tree, inbound, unanswered, hostUp, serverSent, hostCrashes>>

(* ------------------------------- stdio ----------------------------------- *)
(* wrap_mcp_stdio: the roots are resolved again before every spawn, and a platform *)
(* without the declared containment refuses before anything runs.                  *)
RefuseHomeOverlap == grant # "ok"
ResolveRoots == mcp.server.roots => ~RefuseHomeOverlap
Supported ==
    /\ mcp.server.containment = "job_object" => mcp.platform = "windows"
    /\ mcp.server.containment = "strict" => mcp.platform = "linux"
    /\ mcp.server.containment = "process_group" => mcp.platform # "windows"
    /\ mcp.platform = "linux" => mcp.probe
WrapStdio ==
    /\ mcpCall.pc = "wrap" /\ hostUp
    /\ IF ~ResolveRoots THEN EndCall("MCP_CAPABILITY_REFUSED")
       ELSE IF ~Supported THEN EndCall("MCP_CONTAINMENT_UNAVAILABLE")
       ELSE CallStep("spawn")

(* prepare: the strict child is a transient service of this worker, and waits for  *)
(* its spec.  Otherwise the wrapped server itself is spawned.                       *)
PreparedUnit == [NoUnit EXCEPT !.pc = "spec"]
SpawnStdio ==
    /\ mcpCall.pc = "spawn" /\ hostUp
    /\ IF mcp.server.containment = "strict"
       THEN unit' = PreparedUnit /\ UNCHANGED tree
       ELSE tree' = {"child"} /\ UNCHANGED unit
    /\ mcpCall' = [mcpCall EXCEPT !.pc = IF mcp.server.containment = "strict" THEN "attach" ELSE "initialize"]
    /\ UNCHANGED <<mcp, grant, inbound, unanswered, hostUp, mcpCalls, serverSent, hostCrashes>>
SpawnFails == mcpCall.pc = "spawn" /\ hostUp /\ EndCall("MCP_STDIO")

(* attach: the worker connects with the nonce of the spec, is acknowledged, and     *)
(* only then starts the server; the open stream is its owner.                       *)
Attach ==
    /\ mcpCall.pc = "attach" /\ hostUp /\ unit.pc = "ask"
    /\ unit' = [unit EXCEPT !.acked = TRUE, !.owner = TRUE]
    /\ mcpCall' = [mcpCall EXCEPT !.pc = "initialize"]
    /\ UNCHANGED <<mcp, grant, tree, inbound, unanswered, hostUp, mcpCalls, serverSent, hostCrashes>>
McpWorkerStep(u, ps) ==
    /\ unit' = u /\ tree' = ps
    /\ UNCHANGED <<mcp, grant, mcpCall, inbound, unanswered, hostUp, mcpCalls, serverSent, hostCrashes>>
(* run: the spec must arrive and describe this very cgroup.                          *)
WorkerReadsSpec == unit.pc = "spec" /\ McpWorkerStep([unit EXCEPT !.pc = "ask"], tree)
WorkerRefuses == unit.pc \in {"spec", "ask"} /\ ~unit.acked /\ McpWorkerStep([unit EXCEPT !.pc = "over"], tree)
WorkerStarts == unit.pc = "ask" /\ unit.acked /\ McpWorkerStep([unit EXCEPT !.pc = "serving"], {"child"})
(* select!: the owner's stream, the timeout, the server's exit or its input ended.   *)
WorkerStops == unit.pc = "serving" /\ McpWorkerStep([unit EXCEPT !.pc = "over"], tree \ {"child"})
(* The service manager ends the unit with its whole cgroup (KillMode=control-group). *)
CgroupKilled(ps) == {}
UnitEnds == unit.pc = "over" /\ McpWorkerStep([unit EXCEPT !.pc = "gone"], CgroupKilled(tree))
Worker == WorkerReadsSpec \/ WorkerRefuses \/ WorkerStarts \/ WorkerStops \/ UnitEnds

(* ---------------------------- the session -------------------------------- *)
(* request: the next id, and the method's frame under the cap.                       *)
SendRequest(from, to) ==
    /\ hostUp /\ mcpCall.pc = from
    /\ mcpCall' = [mcpCall EXCEPT !.pc = to, !.id = @ + 1]
    /\ UNCHANGED <<mcp, grant, unit, tree, inbound, unanswered, hostUp, mcpCalls, serverSent, hostCrashes>>
Initialize == mcpCall.pc = "initialize" /\ mcp.server.transport = "stdio" /\ SendRequest("initialize", "hello")
InvokeTool == mcp.server.transport = "stdio" /\ SendRequest("ready", "answer")
SendFails == hostUp /\ mcpCall.pc \in {"initialize", "ready"} /\ mcp.server.transport = "stdio" /\ EndCall("MCP_STDIO")
Reading == hostUp /\ mcpCall.pc \in {"hello", "answer"}

(* The server may write anything at any time, a stale or made-up reply included.     *)
Messages ==
    [kind : {"reply", "error"}, id : 1..2, size : {MaxFrame, MaxFrame + 1}, cr : BOOLEAN]
    \cup [kind : {"note", "ping", "request"}, id : {0}, size : {1}, cr : {FALSE}]
ServerSends(msg) ==
    /\ "child" \in tree /\ serverSent < MaxServerMessages
    /\ inbound' = Append(inbound, msg) /\ serverSent' = serverSent + 1
    /\ UNCHANGED <<mcp, grant, mcpCall, unit, tree, unanswered, hostUp, mcpCalls, hostCrashes>>
(* A descendant may leave the server's process group.                                *)
ServerForks ==
    /\ "child" \in tree /\ "detached" \notin tree /\ McpWorkerStep(unit, tree \cup {"detached"})
ServerExits ==
    /\ "child" \in tree /\ McpWorkerStep(unit, tree \ {"child"})

(* read_line: past the cap only the carriage return of the terminator may follow.    *)
LineFits(msg) ==
    LET held == msg.size + (IF msg.cr THEN 1 ELSE 0)
    IN  held <= MaxFrame \/ (held = MaxFrame + 1 /\ msg.cr)
(* A message with a method is not the reply; a request of the server is answered     *)
(* before the next message is read.                                                   *)
Reads(msg) ==
    /\ mcpCall' = [mcpCall EXCEPT !.size = msg.size]
    /\ inbound' = Tail(inbound) /\ unanswered' = IF msg.kind = "note" THEN 0 ELSE 1
    /\ UNCHANGED <<mcp, grant, unit, tree, hostUp, mcpCalls, serverSent, hostCrashes>>
AnswerServer ==
    /\ Reading /\ unanswered = 1 /\ unanswered' = 0
    /\ UNCHANGED <<mcp, grant, mcpCall, unit, tree, inbound, hostUp, mcpCalls, serverSent, hostCrashes>>
OwnReply(msg) == msg.id = mcpCall.id
Accepts(msg) ==
    IF mcpCall.pc = "hello"
    THEN /\ mcpCall' = [mcpCall EXCEPT !.pc = "ready"] /\ inbound' = Tail(inbound)
         /\ UNCHANGED <<mcp, grant, unit, tree, unanswered, hostUp, mcpCalls, serverSent, hostCrashes>>
    ELSE /\ mcpCall' = [McpEnded("ok") EXCEPT !.reply = msg.id, !.size = msg.size] /\ DropClient
         /\ inbound' = <<>> /\ unanswered' = 0
         /\ UNCHANGED <<mcp, grant, hostUp, mcpCalls, serverSent, hostCrashes>>
ReadMessage ==
    LET msg == Head(inbound)
    IN  /\ Reading /\ inbound # <<>> /\ unanswered = 0
        /\ IF ~LineFits(msg)
           THEN /\ mcpCall' = [McpEnded("MCP_RESULT_TOO_LARGE") EXCEPT !.size = msg.size] /\ DropClient
                /\ inbound' = <<>> /\ UNCHANGED <<mcp, grant, unanswered, hostUp, mcpCalls, serverSent, hostCrashes>>
           ELSE IF msg.kind \in {"note", "ping", "request"} THEN Reads(msg)
           ELSE IF ~OwnReply(msg) THEN EndCall("MCP_PROTOCOL")
           ELSE IF msg.kind = "error" THEN EndCall("MCP_CALL_FAILED")
           ELSE Accepts(msg)
(* End of stream, with the child's standard error as the explanation.                *)
ChildClosed ==
    /\ Reading /\ inbound = <<>> /\ "child" \notin tree
    /\ mcp.server.containment = "strict" => unit.pc \in {"over", "gone"}
    /\ EndCall("MCP_STDIO")

(* -------------------------------- SSE ------------------------------------ *)
(* pinned_client: a loopback host needs the switch and loopback-only answers, any     *)
(* other host public addresses only; the client is pinned to the ones it checked.     *)
Vetted(answer) == IF mcp.server.loopback THEN mcp.allowLoopback /\ answer = "loopback" ELSE answer = "public"
Resolve(answer) ==
    /\ hostUp /\ mcpCall.pc = "resolve"
    /\ IF ~Vetted(answer) THEN EndCall("MCP_SSRF_DENIED")
       ELSE /\ mcpCall' = [mcpCall EXCEPT !.pc = "handshake", !.dialed = answer]
            /\ UNCHANGED <<mcp, grant, unit, tree, inbound, unanswered, hostUp, mcpCalls, serverSent, hostCrashes>>
(* sse_endpoint: the announced endpoint must keep the configured origin.              *)
Handshake(sameOrigin) ==
    /\ hostUp /\ mcpCall.pc = "handshake"
    /\ IF sameOrigin THEN CallStep("initialize") ELSE EndCall("MCP_SSE")
(* jsonrpc_post: each answer is the body of its own POST.                              *)
Post == mcp.server.transport = "sse" /\ (SendRequest("initialize", "posted") \/ SendRequest("ready", "called"))
PostAnswered(msg) ==
    /\ hostUp /\ mcpCall.pc \in {"posted", "called"} /\ msg.kind \in {"reply", "error"}
    /\ IF msg.size > MaxFrame
       THEN /\ mcpCall' = [McpEnded("MCP_RESULT_TOO_LARGE") EXCEPT !.size = msg.size]
            /\ UNCHANGED <<mcp, grant, unit, tree, inbound, unanswered, hostUp, mcpCalls, serverSent, hostCrashes>>
       ELSE IF ~OwnReply(msg) THEN EndCall("MCP_PROTOCOL")
       ELSE IF msg.kind = "error" THEN EndCall("MCP_CALL_FAILED")
       ELSE IF mcpCall.pc = "posted" THEN CallStep("ready")
       ELSE /\ mcpCall' = [McpEnded("ok") EXCEPT !.reply = msg.id, !.size = msg.size]
            /\ UNCHANGED <<mcp, grant, unit, tree, inbound, unanswered, hostUp, mcpCalls, serverSent, hostCrashes>>
TransportFails == hostUp /\ mcpCall.pc \in {"handshake", "posted", "called"} /\ EndCall("MCP_SSE")

(* ------------------------------- faults ---------------------------------- *)
(* mcp.timeout_sec bounds a whole call; a dropped request ends it the same way.       *)
CallTimeout == hostUp /\ mcpCall.pc # "idle" /\ EndCall("MCP_TIMEOUT")
(* The harness dies: its sockets close; it kills nothing itself.  A Job Object ends    *)
(* with its last handle.                                                               *)
HostDies ==
    /\ hostUp /\ mcpCall.pc # "idle" /\ hostCrashes < MaxCrashedHosts
    /\ hostUp' = FALSE /\ hostCrashes' = hostCrashes + 1
    /\ mcpCall' = McpEnded("died") /\ inbound' = <<>> /\ unanswered' = 0
    /\ unit' = [unit EXCEPT !.owner = FALSE]
    /\ tree' = IF mcp.server.containment = "job_object" THEN {} ELSE tree
    /\ UNCHANGED <<mcp, grant, mcpCalls, serverSent>>
RedirectRoot ==
    /\ mcpCall.pc \in {"idle", "wrap"} /\ mcp.server.roots /\ mcpCalls < MaxMcpCalls
    /\ grant' \in {"ok", "gone", "home"} \ {grant}
    /\ UNCHANGED <<mcp, mcpCall, unit, tree, inbound, unanswered, hostUp, mcpCalls, serverSent, hostCrashes>>

McpInit ==
    /\ mcp \in [enabled : BOOLEAN, platform : Platforms, server : Declarations, probe : BOOLEAN, allowLoopback : BOOLEAN]
    /\ mcp.server.transport = "sse" => mcp.probe /\ mcp.platform = "linux"
    /\ mcp.server.transport = "stdio" => ~mcp.allowLoopback
    /\ grant = "ok" /\ mcpCall = NoCall /\ unit = NoUnit /\ tree = {}
    /\ inbound = <<>> /\ unanswered = 0 /\ hostUp = TRUE
    /\ mcpCalls = 0 /\ serverSent = 0 /\ hostCrashes = 0

McpNext ==
    \/ \E tool \in {"echo", "other"}, confirm \in BOOLEAN : CallTool(tool, confirm)
    \/ WrapStdio \/ SpawnStdio \/ SpawnFails \/ Attach \/ Worker
    \/ Initialize \/ InvokeTool \/ SendFails \/ AnswerServer \/ ReadMessage \/ ChildClosed
    \/ \E msg \in Messages : ServerSends(msg) \/ PostAnswered(msg)
    \/ ServerForks \/ ServerExits
    \/ \E answer \in {"public", "loopback", "mixed"} : Resolve(answer)
    \/ \E sameOrigin \in BOOLEAN : Handshake(sameOrigin)
    \/ Post \/ TransportFails
    \/ CallTimeout \/ HostDies \/ RedirectRoot

(* The worker's waits are bounded (2 s for the spec and the owner, timeout_sec, and   *)
(* RuntimeMaxSec of the unit), and the service manager ends a unit whose main process *)
(* exited.                                                                             *)
McpFairness == WF_mcpVars(Worker)
McpSpec == McpInit /\ [][McpNext]_mcpVars /\ McpFairness

McpTypeOK ==
    /\ tree \subseteq {"child", "detached"} /\ unanswered \in {0, 1}
    /\ unit.pc \in {"none", "spec", "ask", "serving", "over", "gone"}
    /\ Len(inbound) <= MaxServerMessages /\ mcpCall.id \in 0..2

(* A result handed to the caller answers this call's tools/call, not the handshake or  *)
(* an earlier request, and its frame kept the cap; a frame at the cap is not refused for *)
(* its CRLF (common/mcp.rs:388, 457; server/mcp.rs:651).                                *)
ResultIsOwn ==
    /\ mcpCall.code = "ok" => mcpCall.reply = 2 /\ mcpCall.size <= MaxFrame
    /\ mcpCall.code = "MCP_RESULT_TOO_LARGE" => mcpCall.size > MaxFrame

(* Under strict containment no process of the server outlives its call for good,        *)
(* whatever dies first: the call, the harness, the worker or the server; a descendant     *)
(* that left the process group goes too (common/mcp_worker.rs:113-118, 240-250).         *)
StrictTreeDies ==
    (mcp.server.containment = "strict" /\ mcpCall.pc = "idle") ~> (mcpCall.pc # "idle" \/ tree = {})
=============================================================================
