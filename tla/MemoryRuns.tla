---------------------------- MODULE MemoryRuns ----------------------------
(***************************************************************************)
(* Who may use the local model for memory work, and what becomes of a      *)
(* consolidation run: the generation gate (server/generation_gate.rs), the *)
(* completion suggestions with their RAM queue and worker                  *)
(* (structured_memory_suggest.rs), manual and idle consolidation           *)
(* (structured_memory_consolidate.rs, structured_memory_auto.rs) and the   *)
(* table consolidation_runs (structured_memory.rs).                        *)
(*                                                                         *)
(* One owner.  A suggestion has one episode and so one run; a batch is a   *)
(* selection of episodes with its run.  Each store call is one transaction *)
(* under the connection mutex, and each critical section of the queue lock *)
(* is one action; between them the worker, a chat turn, the owner's        *)
(* requests and the clock interleave.                                      *)
(***************************************************************************)
EXTENDS Naturals, Sequences, FiniteSets

CONSTANTS
  Suggestions,  \* completed exchanges, each with the run of its suggestion
  ChatSources,  \* the ones that come from chat; the others from coding runs
  Batches,      \* runs of an explicit or idle consolidation
  MaxQueue,     \* structured_memory.suggestion_max_queue
  MaxChatTurns,     \* bound: chat turns
  MaxCancels,   \* bound: owner cancels and clears
  MaxStarts     \* bound: server starts

ASSUME RunAssumption == ChatSources \subseteq Suggestions /\ Suggestions \cap Batches = {}
ASSUME RunLimitAssumption ==
  MaxQueue \in Nat \ {0} /\ MaxChatTurns \in Nat /\ MaxCancels \in Nat /\ MaxStarts \in Nat

VARIABLES
  memoryUp, starts,
  runs,        \* consolidation_runs: state and error class
  flagged,     \* Store.cancelled_runs
  gate,        \* Inner.owner of the generation gate
  notifying,   \* the gate was released, its waiters are not yet notified
  queue,       \* Queue.jobs
  wpc,         \* where the suggestion worker is; "off": Queue.worker is false
  job,         \* the job it took
  token,       \* running_cancel was cancelled
  cleared,     \* running_chat_cancelled
  result,      \* how generate ended
  aged,        \* queued input older than the queue ttl
  enabled,     \* suggestions are available (gates, model and mode)
  removing,    \* cancelled runs whose input is still to be removed
  cpc, woken,  \* the chat turn that claims the gate, and its registration
  turns, cancels,
  kpc,         \* the consolidation that holds or wants the gate
  batch, kind, \* what it works on, and whether a request or the idle worker does
  proposed,    \* runs that created proposals
  refused      \* runs their owner cancelled, until explicitly started again

ramVars == <<queue, wpc, job, token, cleared, result, aged>>
turnVars == <<cpc, woken, turns>>
consVars == <<kpc, batch, kind>>
runsVars == <<memoryUp, starts, runs, flagged, gate, notifying, ramVars, enabled, removing,
              turnVars, cancels, consVars, proposed, refused>>

-----------------------------------------------------------------------------
Receipts == Suggestions \cup Batches
None == "none"
Holders == {"free", "suggestion", "consolidation", "chat"}
RunStates == {"absent", "idle", "running", "done", "failed", "cancelled"}
NoClass == ""
Classes == {NoClass, "preempted", "cancelled", "error"}

ReceiptRow(state, class) == [state |-> state, class |-> class]
Preempted(r) == runs[r].class = "preempted"
OpenReceipt(r) == runs[r].state \in {"idle", "running"} \/ Preempted(r)
OwnerHasRunning == \E r \in Receipts : runs[r].state = "running"
Queued(s) == \E i \in DOMAIN queue : queue[i] = s
IsChat(s) == s \in ChatSources

(* VecDeque::retain: the inputs that do not go, in their order.             *)
Without(inputs, gone) ==
  LET f[i \in 0..Len(inputs)] ==
        IF i = 0 THEN <<>> ELSE IF inputs[i] \in gone THEN f[i - 1] ELSE Append(f[i - 1], inputs[i])
  IN f[Len(inputs)]

(* fail_consolidation_run: only an open run changes.                        *)
FailedRun(r, class) ==
  IF ~OpenReceipt(r) THEN runs
  ELSE [runs EXCEPT ![r] = ReceiptRow(IF class = "error" THEN "failed" ELSE "cancelled", class)]

-----------------------------------------------------------------------------
(* The generation gate.                                                     *)
Claim(holder) == gate = "free" /\ gate' = holder
(* Mutant of Release. *)
MutReleaseSilent == gate' = "free" /\ UNCHANGED notifying

Release == gate' = "free" /\ notifying' = TRUE

NotifyWaiters ==
  /\ notifying
  /\ notifying' = FALSE
  /\ woken' = (woken \/ cpc \in {"registered", "waiting"})
  /\ UNCHANGED <<memoryUp, starts, runs, flagged, gate, ramVars, enabled, removing,
                 cpc, turns, cancels, consVars, proposed, refused>>

(* claim_preempting: register for the release, then look at the gate; each  *)
(* time the turn is woken it registers again before it looks.               *)
Registered == /\ cpc' = "registered" /\ woken' = FALSE
              /\ UNCHANGED <<memoryUp, starts, runs, flagged, gate, notifying, ramVars, enabled, removing,
                             cancels, consVars, proposed, refused>>

TurnStarts == memoryUp /\ cpc = "none" /\ turns < MaxChatTurns /\ turns' = turns + 1 /\ Registered
TurnWakes == cpc = "waiting" /\ woken /\ UNCHANGED turns /\ Registered

(* A holder that yields is asked to stop; any other is refused at once.     *)
Look ==
  /\ cpc = "registered"
  /\ \/ /\ Claim("chat") /\ cpc' = "holding" /\ UNCHANGED token
     \/ /\ gate = "suggestion" /\ cpc' = "waiting"
        /\ token' = (token \/ job # None) /\ UNCHANGED gate
     \/ /\ gate \notin {"free", "suggestion"} /\ cpc' = "none" /\ UNCHANGED <<gate, token>>
  /\ UNCHANGED <<memoryUp, starts, runs, flagged, notifying, queue, wpc, job, cleared, result, aged,
                 enabled, removing, woken, turns, cancels, consVars, proposed, refused>>

Deadline ==
  /\ cpc = "waiting"
  /\ \/ Claim("chat") /\ cpc' = "holding"
     \/ gate # "free" /\ cpc' = "none" /\ UNCHANGED gate
  /\ UNCHANGED <<memoryUp, starts, runs, flagged, notifying, ramVars, enabled, removing,
                 woken, turns, cancels, consVars, proposed, refused>>

(* /api/chat/cancel reaches the turn while it waits for the gate.           *)
TurnCancelled ==
  /\ cpc \in {"registered", "waiting"} /\ cpc' = "none"
  /\ UNCHANGED <<memoryUp, starts, runs, flagged, gate, notifying, ramVars, enabled, removing,
                 woken, turns, cancels, consVars, proposed, refused>>

TurnEnds ==
  /\ cpc = "holding" /\ cpc' = "none" /\ Release
  /\ UNCHANGED <<memoryUp, starts, runs, flagged, ramVars, enabled, removing,
                 woken, turns, cancels, consVars, proposed, refused>>

-----------------------------------------------------------------------------
(* The receipt is written only once the queue has room for the input.       *)
Enqueue(s) ==
  /\ memoryUp /\ enabled
  /\ Len(queue) < MaxQueue
  /\ runs[s].state = "absent"
  /\ runs' = [runs EXCEPT ![s] = ReceiptRow("idle", NoClass)]
  /\ queue' = Append(queue, s)
  /\ wpc' = IF wpc = "off" THEN "sleep" ELSE wpc
  /\ UNCHANGED <<memoryUp, starts, flagged, gate, notifying, job, token, cleared, result, aged,
                 enabled, removing, turnVars, cancels, consVars, proposed, refused>>

(* Mutant of Dropped. *)
MutDroppedSilently == {}

Dropped == {s \in Suggestions : Queued(s) /\ (s \in aged \/ ~enabled)}

(* Under the queue lock: drop what is too old or refused, leave when nothing *)
(* is left, else take the gate and the first job.                           *)
WorkerTick ==
  LET rest == Without(queue, Dropped)
  IN /\ wpc = "sleep"
     /\ runs' = [r \in Receipts |-> IF r \in Dropped THEN FailedRun(r, "error")[r] ELSE runs[r]]
     /\ aged' = aged \ Dropped
     /\ \/ /\ rest = <<>> /\ wpc' = "off" /\ queue' = rest
           /\ UNCHANGED <<gate, job, token, cleared>>
        \/ /\ rest # <<>> /\ gate # "free" /\ wpc' = "sleep" /\ queue' = rest
           /\ UNCHANGED <<gate, job, token, cleared>>
        \/ /\ rest # <<>> /\ Claim("suggestion") /\ wpc' = "claimed"
           /\ queue' = Tail(rest) /\ job' = Head(rest) /\ token' = FALSE /\ cleared' = FALSE
     /\ UNCHANGED <<memoryUp, starts, flagged, notifying, result, enabled, removing,
                    turnVars, cancels, consVars, proposed, refused>>

Finished(code) == wpc' = "settle" /\ result' = code
Failing(code) == wpc' = "failing" /\ result' = code

(* Before the run begins: the input may be too old or refused, its episode   *)
(* deleted, its chat cleared.                                               *)
WorkerRecheck ==
  /\ wpc = "claimed"
  /\ \/ (job \in aged \/ ~enabled) /\ Finished("error")
     \/ Finished("error")
     \/ IsChat(job) /\ cleared /\ Finished("cancelled")
     \/ /\ job \notin aged /\ enabled /\ ~(IsChat(job) /\ cleared)
        /\ wpc' = "begin" /\ UNCHANGED result
  /\ UNCHANGED <<memoryUp, starts, runs, flagged, gate, notifying, queue, job, token, cleared, aged,
                 enabled, removing, turnVars, cancels, consVars, proposed, refused>>

(* Mutant of Startable. *)
MutStartableAny(r) == TRUE

(* begin_run with preempted_only: a run its owner cancelled, or one that    *)
(* failed, is not started again.                                            *)
Startable(r) == runs[r].state \in {"idle", "running"} \/ Preempted(r)

WorkerBegin ==
  /\ wpc = "begin"
  /\ \/ /\ runs[job].state = "done" /\ Finished("ok") /\ UNCHANGED <<runs, flagged>>
     \/ /\ runs[job].state # "done" /\ ~Startable(job)
        /\ Finished("cancelled") /\ UNCHANGED <<runs, flagged>>
     \/ /\ runs[job].state = "running" /\ Finished("error") /\ UNCHANGED <<runs, flagged>>
     \/ /\ runs[job].state # "running" /\ Startable(job)
        /\ runs' = [runs EXCEPT ![job] = ReceiptRow("running", NoClass)]
        /\ flagged' = flagged \ {job}
        /\ wpc' = "generating" /\ UNCHANGED result
  /\ UNCHANGED <<memoryUp, starts, gate, notifying, queue, job, token, cleared, aged, enabled, removing,
                 turnVars, cancels, consVars, proposed, refused>>

(* The biased select: owner cancel, then preemption, then the reply.        *)
WorkerSelect ==
  /\ wpc = "generating"
  /\ \/ job \in flagged /\ Failing("cancelled")
     \/ job \notin flagged /\ token /\ Failing("preempted")
     \/ job \notin flagged /\ ~token /\ (Failing("error") \/ (wpc' = "replied" /\ UNCHANGED result))
  /\ UNCHANGED <<memoryUp, starts, runs, flagged, gate, notifying, queue, job, token, cleared, aged,
                 enabled, removing, turnVars, cancels, consVars, proposed, refused>>

(* finish_consolidation_run: a cancelled run is settled as cancelled, and a *)
(* run that is no longer running is left as it is.                          *)
FinishOutcome(r) ==
  IF r \in flagged THEN FailedRun(r, "cancelled")
  ELSE IF runs[r].state # "running" THEN runs
  ELSE [runs EXCEPT ![r] = ReceiptRow("done", NoClass)]
Proposes(r) == r \notin flagged /\ runs[r].state = "running"

WorkerFinish ==
  /\ wpc = "replied"
  /\ \/ IsChat(job) /\ cleared /\ Failing("cancelled") /\ UNCHANGED <<runs, proposed>>
     \/ Failing("error") /\ UNCHANGED <<runs, proposed>>
     \/ /\ ~(IsChat(job) /\ cleared) /\ enabled
        /\ runs' = FinishOutcome(job)
        /\ proposed' = IF Proposes(job) THEN proposed \cup {job} ELSE proposed
        /\ Finished("ok")
  /\ UNCHANGED <<memoryUp, starts, flagged, gate, notifying, queue, job, token, cleared, aged, enabled,
                 removing, turnVars, cancels, consVars, refused>>

WorkerFail ==
  /\ wpc = "failing"
  /\ runs' = FailedRun(job, result)
  /\ wpc' = "settle"
  /\ UNCHANGED <<memoryUp, starts, flagged, gate, notifying, queue, job, token, cleared, result, aged,
                 enabled, removing, turnVars, cancels, consVars, proposed, refused>>

(* Under the queue lock: a preempted job goes back to the front unless its   *)
(* owner cancelled it or its chat was cleared meanwhile.                    *)
Requeues == result = "preempted" /\ job \notin flagged /\ ~(IsChat(job) /\ cleared)
DiscardClass == IF result = "preempted" THEN "cancelled" ELSE result


SettledRuns == IF result = "ok" \/ Requeues THEN runs ELSE FailedRun(job, DiscardClass)

WorkerSettle ==
  /\ wpc = "settle"
  /\ runs' = SettledRuns
  /\ queue' = IF Requeues THEN <<job>> \o queue ELSE queue
  /\ aged' = IF Requeues THEN aged ELSE aged \ {job}
  /\ job' = None /\ token' = FALSE /\ result' = "ok" /\ wpc' = "sleep"
  /\ Release
  /\ UNCHANGED <<memoryUp, starts, flagged, cleared, enabled, removing, turnVars, cancels,
                 consVars, proposed, refused>>

-----------------------------------------------------------------------------
(* clear_chat_queue, when the owner clears the chat.                        *)
ClearChat ==
  LET gone == {s \in ChatSources : Queued(s)}
  IN /\ memoryUp /\ cancels < MaxCancels /\ cancels' = cancels + 1
     /\ runs' = [r \in Receipts |-> IF r \in gone THEN FailedRun(r, "cancelled")[r] ELSE runs[r]]
     /\ queue' = Without(queue, gone)
     /\ aged' = aged \ gone
     /\ cleared' = (cleared \/ job \in ChatSources)
     /\ token' = (token \/ job \in ChatSources)
     /\ UNCHANGED <<memoryUp, starts, flagged, gate, notifying, wpc, job, result, enabled, removing,
                    turnVars, consVars, proposed, refused>>

(* cancel_consolidation_run: the row, then the flag and its waiters, all    *)
(* with the connection held; the queued input goes in a step of its own.    *)
CancelRun(r) ==
  /\ memoryUp /\ cancels < MaxCancels /\ cancels' = cancels + 1
  /\ OpenReceipt(r)
  /\ runs' = [runs EXCEPT ![r] = ReceiptRow("cancelled", "cancelled")]
  /\ flagged' = flagged \cup {r}
  /\ refused' = refused \cup {r}
  /\ removing' = removing \cup ({r} \cap Suggestions)
  /\ UNCHANGED <<memoryUp, starts, gate, notifying, ramVars, enabled, turnVars, consVars, proposed>>

RemoveInput(s) ==
  /\ s \in removing
  /\ removing' = removing \ {s}
  /\ queue' = Without(queue, {s})
  /\ aged' = IF s = job THEN aged ELSE aged \ {s}
  /\ UNCHANGED <<memoryUp, starts, runs, flagged, gate, notifying, wpc, job, token, cleared, result,
                 enabled, turnVars, cancels, consVars, proposed, refused>>

SetEnabled ==
  /\ memoryUp /\ cancels < MaxCancels /\ cancels' = cancels + 1
  /\ enabled' = ~enabled
  /\ UNCHANGED <<memoryUp, starts, runs, flagged, gate, notifying, ramVars, removing,
                 turnVars, consVars, proposed, refused>>

(* The queue ttl of an input passes.                                        *)
Age(s) ==
  /\ Queued(s) \/ job = s
  /\ s \notin aged
  /\ aged' = aged \cup {s}
  /\ UNCHANGED <<memoryUp, starts, runs, flagged, gate, notifying, queue, wpc, job, token, cleared,
                 result, enabled, removing, turnVars, cancels, consVars, proposed, refused>>

-----------------------------------------------------------------------------
(* next_auto_consolidation_batch: not consolidated, failed or cancelled yet, *)
(* and no run of the owner is running.                                      *)
Eligible(b) == runs[b].state = "absent" /\ ~OwnerHasRunning

(* A request or the idle worker claims the gate; the gate is never waited for. *)
ConsolidationClaim(b, by) ==
  /\ memoryUp /\ kpc = "none"
  /\ by = "idle" => Eligible(b)
  /\ Claim("consolidation")
  /\ kpc' = "begin" /\ batch' = b /\ kind' = by
  /\ UNCHANGED <<memoryUp, starts, runs, flagged, notifying, ramVars, enabled, removing,
                 turnVars, cancels, proposed, refused>>

Leave == kpc' = "none" /\ batch' = None /\ kind' = None /\ Release

(* begin_run for an explicit consolidation: a stopped run starts again and  *)
(* its cancel flag is cleared; a new one needs the owner to have none.      *)
ConsolidationBegin ==
  /\ kpc = "begin"
  /\ \/ /\ \/ runs[batch].state \in {"done", "running"}
           \/ runs[batch].state = "absent" /\ OwnerHasRunning
        /\ Leave /\ UNCHANGED <<runs, flagged, refused>>
     \/ /\ \/ runs[batch].state \in {"failed", "cancelled"}
           \/ runs[batch].state = "absent" /\ ~OwnerHasRunning
        /\ runs' = [runs EXCEPT ![batch] = ReceiptRow("running", NoClass)]
        /\ flagged' = flagged \ {batch} /\ refused' = refused \ {batch}
        /\ kpc' = "generating" /\ UNCHANGED <<batch, kind, gate, notifying>>
  /\ UNCHANGED <<memoryUp, starts, ramVars, enabled, removing, turnVars, cancels, proposed>>

ConsolidationReply ==
  /\ kpc = "generating" /\ batch \notin flagged
  /\ kpc' = "replied"
  /\ UNCHANGED <<memoryUp, starts, runs, flagged, gate, notifying, ramVars, enabled, removing,
                 turnVars, cancels, batch, kind, proposed, refused>>

(* Cancelled, a model or schema error, the proposal cap, or success.        *)
ConsolidationEnd ==
  /\ \/ /\ kpc = "generating" /\ runs' = FailedRun(batch, IF batch \in flagged THEN "cancelled" ELSE "error")
        /\ UNCHANGED proposed
     \/ /\ kpc = "replied" /\ runs' = FailedRun(batch, IF batch \in flagged THEN "cancelled" ELSE "error")
        /\ UNCHANGED proposed
     \/ /\ kpc = "replied" /\ runs' = FinishOutcome(batch)
        /\ proposed' = IF Proposes(batch) THEN proposed \cup {batch} ELSE proposed
  /\ Leave
  /\ UNCHANGED <<memoryUp, starts, flagged, ramVars, enabled, removing, turnVars, cancels, refused>>

(* The client of a request goes away: its future is dropped at the await,   *)
(* the gate is released and the row stays as it is.                         *)
ConsolidationDropped ==
  /\ kpc = "generating" /\ kind = "request"
  /\ Leave
  /\ UNCHANGED <<memoryUp, starts, runs, flagged, ramVars, enabled, removing, turnVars, cancels,
                 proposed, refused>>

-----------------------------------------------------------------------------
MemoryCrash ==
  /\ memoryUp /\ starts < MaxStarts /\ memoryUp' = FALSE
  /\ queue' = <<>> /\ wpc' = "off" /\ job' = None /\ token' = FALSE /\ cleared' = FALSE
  /\ result' = "ok" /\ aged' = {}
  /\ flagged' = {} /\ gate' = "free" /\ notifying' = FALSE /\ removing' = {}
  /\ cpc' = "none" /\ woken' = FALSE
  /\ kpc' = "none" /\ batch' = None /\ kind' = None
  /\ UNCHANGED <<starts, runs, enabled, turns, cancels, proposed, refused>>

(* recover_interrupted_runs: the input of an open run was only in memory.   *)
Recover ==
  /\ ~memoryUp /\ memoryUp' = TRUE /\ starts' = starts + 1
  /\ runs' = [r \in Receipts |-> IF OpenReceipt(r) THEN ReceiptRow("failed", "error") ELSE runs[r]]
  /\ UNCHANGED <<flagged, gate, notifying, ramVars, enabled, removing, turnVars, cancels,
                 consVars, proposed, refused>>

-----------------------------------------------------------------------------
RunsInit ==
  /\ memoryUp = TRUE /\ starts = 0
  /\ runs = [r \in Receipts |-> ReceiptRow("absent", NoClass)] /\ flagged = {}
  /\ gate = "free" /\ notifying = FALSE
  /\ queue = <<>> /\ wpc = "off" /\ job = None /\ token = FALSE /\ cleared = FALSE
  /\ result = "ok" /\ aged = {} /\ enabled = TRUE /\ removing = {}
  /\ cpc = "none" /\ woken = FALSE /\ turns = 0 /\ cancels = 0
  /\ kpc = "none" /\ batch = None /\ kind = None
  /\ proposed = {} /\ refused = {}

TurnStep == TurnWakes \/ Look \/ Deadline \/ TurnEnds \/ NotifyWaiters
WorkerStep == \/ WorkerTick \/ WorkerRecheck \/ WorkerBegin \/ WorkerSelect
              \/ WorkerFinish \/ WorkerFail \/ WorkerSettle
ConsolidationStep == ConsolidationBegin \/ ConsolidationReply \/ ConsolidationEnd \/ ConsolidationDropped
OwnerStep == \/ ClearChat \/ SetEnabled
             \/ \E r \in Receipts : CancelRun(r)
             \/ \E b \in Batches, by \in {"request", "idle"} : ConsolidationClaim(b, by)

RunsNext ==
  \/ TurnStarts \/ TurnCancelled \/ TurnStep \/ WorkerStep \/ ConsolidationStep \/ OwnerStep
  \/ \E s \in Suggestions : Enqueue(s) \/ RemoveInput(s) \/ Age(s)
  \/ MemoryCrash \/ Recover

RunsFairness ==
  /\ WF_runsVars(WorkerStep) /\ WF_runsVars(TurnStep) /\ WF_runsVars(ConsolidationStep)
  /\ WF_runsVars(Recover)
  /\ \A s \in Suggestions : WF_runsVars(Age(s))

RunsSpec == RunsInit /\ [][RunsNext]_runsVars /\ RunsFairness

-----------------------------------------------------------------------------
RunsTypeOK ==
  /\ memoryUp \in BOOLEAN /\ starts \in 0..MaxStarts
  /\ runs \in [Receipts -> [state : RunStates, class : Classes]]
  /\ flagged \subseteq Receipts /\ gate \in Holders /\ notifying \in BOOLEAN
  /\ queue \in Seq(Suggestions) /\ Len(queue) <= MaxQueue + 1
  /\ wpc \in {"off", "sleep", "claimed", "begin", "generating", "replied", "failing", "settle"}
  /\ job \in Suggestions \cup {None} /\ token \in BOOLEAN /\ cleared \in BOOLEAN
  /\ result \in {"ok", "error", "cancelled", "preempted"} /\ aged \subseteq Suggestions
  /\ enabled \in BOOLEAN /\ removing \subseteq Suggestions
  /\ cpc \in {"none", "registered", "waiting", "holding"} /\ woken \in BOOLEAN
  /\ turns \in 0..MaxChatTurns /\ cancels \in 0..MaxCancels
  /\ kpc \in {"none", "begin", "generating", "replied"} /\ batch \in Batches \cup {None}
  /\ kind \in {"request", "idle", None}
  /\ proposed \subseteq Receipts /\ refused \subseteq Receipts

(* A chat turn that waits for the gate cannot sleep through its release: if *)
(* the gate is free the turn has been woken or is about to be.              *)
NoMissedRelease == (cpc = "waiting" /\ gate = "free") => (woken \/ notifying)

(* While the server runs, a suggestion whose receipt is open still has its  *)
(* input in memory: in the queue or with the worker.  Preemption, clearing, *)
(* cancelling, expiry and a full queue never leave a receipt without input. *)
OpenReceiptHasInput == memoryUp => \A s \in Suggestions : OpenReceipt(s) => (Queued(s) \/ job = s)

(* Once its owner has cancelled a run, it creates no proposals and is not   *)
(* resumed, whatever the worker was doing; only the owner's own explicit    *)
(* consolidation starts such a batch again.                                 *)
CancelIsFinal ==
  [][\A r \in Receipts : r \in refused /\ r \in refused' =>
       /\ runs'[r].state \in {"cancelled", "failed"} /\ ~(runs'[r].class = "preempted")
       /\ (r \in proposed') = (r \in proposed)]_runsVars

(* A queued suggestion is settled in the end, also when chat turns keep     *)
(* taking the model from it, and across a restart.                          *)
ReceiptSettles == \A s \in Suggestions : OpenReceipt(s) ~> ~OpenReceipt(s)
=============================================================================
