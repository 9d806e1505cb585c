----------------------------- MODULE AgentJobs -----------------------------
(***************************************************************************)
(* Detached coding jobs: the durable JobStore (server/agent_jobs.rs), the   *)
(* route that starts a job and the task that runs it (routes/agent.rs),     *)
(* and the child process behind the shim (shim/mod.rs).                     *)
(*                                                                          *)
(* `mem' is the store's map under its mutex, `disk' the rows of             *)
(* console-jobs.json.  Every method that takes the mutex is one action; a   *)
(* method that writes the file has one disjunct per outcome of the write.   *)
(* write_atomic stages, syncs and renames, so a failed write leaves the old *)
(* rows.  The process may die between any two actions, and also between the *)
(* write and the notification inside one method.                            *)
(***************************************************************************)
EXTENDS Naturals, FiniteSets

CONSTANTS
  Jobs,           \* job identifiers (random_hex(16): never reused)
  MaxRetained,    \* MAX_RETAINED_JOBS
  SharesBackend,  \* agent_run_shares_chat_backend
  MaxBoots,       \* bound: how often the server opens the store
  NoJob,          \* a gate nobody holds
  Chat            \* the generation gate held by a chat turn

ASSUME RetainedAssumption == MaxRetained \in Nat \ {0}
ASSUME BackendAssumption == SharesBackend \in BOOLEAN
ASSUME BootsAssumption == MaxBoots \in Nat
ASSUME HolderAssumption == NoJob \notin Jobs /\ Chat \notin Jobs /\ NoJob # Chat

VARIABLES
  up,         \* a server process is serving
  boots,      \* how many times it has opened the store
  clock,      \* now_ts(), as a counter
  born,       \* created_at of each accepted job, 0 before
  mem,        \* JobStore.inner
  disk,       \* console-jobs.json
  route,      \* how far start_job has got
  task,       \* the spawned task (or the synchronous request)
  outcome,    \* what agentic_call returned to it
  aborted,    \* jobs whose JoinHandle was aborted
  child,      \* the agentic child process
  runGate,    \* holder of agent_run_gate
  genGate,    \* holder of generation_gate
  events,     \* completions handed to the notifier, ever
  suggested   \* jobs whose result was offered to memory suggestions

storeVars == <<mem, disk, events, suggested>>
taskVars == <<route, task, outcome, aborted, child>>
gateVars == <<runGate, genGate>>
vars == <<up, boots, clock, born, storeVars, taskVars, gateVars>>

-----------------------------------------------------------------------------
(* Rows                                                                     *)

Terminal == {"finished", "failed", "cancelled", "interrupted"}
Statuses == {"absent", "running"} \cup Terminal
Errors == {"none", "call", "persist", "metadata"}
Outcomes == {"ok", "notok", "error"}

Row == [status : Statuses, ended : Nat, err : Errors, result : BOOLEAN]
Event == [job : Jobs, status : Statuses, ended : Nat]
Absent == [status |-> "absent", ended |-> 0, err |-> "none", result |-> FALSE]
NewRow == [status |-> "running", ended |-> 0, err |-> "none", result |-> FALSE]

Retained(m) == {j \in Jobs : m[j].status # "absent"}
TerminalJobs(m) == {j \in Jobs : m[j].status \in Terminal}

(* A recovered running (or interrupted) row becomes interrupted, with the   *)
(* time of this start; every other row is kept.                             *)
RecoveredRow(row, now) ==
  IF row.status \in {"running", "interrupted"}
  THEN [row EXCEPT !.status = "interrupted", !.ended = now]
  ELSE row

(* What `finish' makes of the value agentic_call returned.                  *)
FinishedRow(row, o, now) ==
  [status |-> IF o = "ok" THEN "finished" ELSE "failed",
   ended  |-> now,
   err    |-> IF o = "error" THEN "call" ELSE row.err,
   result |-> o # "error"]

(* The in-memory row after the completion write failed.                     *)
UnsavedRow(row) == [row EXCEPT !.status = "failed", !.err = "persist"]

(* The sets of jobs try_insert_running may evict: none below the cap, else  *)
(* the oldest terminal jobs, leaving MaxRetained - 1 of them.               *)
MutantEvictAny(m) == IF Cardinality(TerminalJobs(m)) < MaxRetained THEN {{}}
                     ELSE {{j} : j \in TerminalJobs(m)}
Evictions(m) ==
  LET old == TerminalJobs(m) IN
  IF Cardinality(old) < MaxRetained THEN {{}}
  ELSE {E \in SUBSET old :
          /\ Cardinality(E) = Cardinality(old) + 1 - MaxRetained
          /\ \A e \in E, k \in old \ E : born[e] <= born[k]}

(* The completions `notify' enqueues for the jobs of a map.  The event id   *)
(* hashes the whole completion, so two different records are two events.    *)
Completions(m) ==
  {[job |-> j, status |-> m[j].status, ended |-> m[j].ended] :
     j \in {k \in Jobs : m[k].status \in {"finished", "failed", "cancelled"}}}

CompletionOf(m, j) == {e \in Completions(m) : e.job = j}

(* with_notifications enqueues the completions of every recovered row.      *)
MutantUnreconciled(rows) == {}
Reconciled(rows) == Completions(rows)

-----------------------------------------------------------------------------
(* The process                                                              *)

Init ==
  /\ up = FALSE /\ boots = 0 /\ clock = 0
  /\ born = [j \in Jobs |-> 0]
  /\ mem = [j \in Jobs |-> Absent]
  /\ disk = [j \in Jobs |-> Absent]
  /\ route = [j \in Jobs |-> "none"]
  /\ task = [j \in Jobs |-> "none"]
  /\ outcome = [j \in Jobs |-> "none"]
  /\ aborted = {}
  /\ child = [j \in Jobs |-> "none"]
  /\ runGate = NoJob /\ genGate = NoJob
  /\ events = {} /\ suggested = {}

(* Everything that lives in the process is gone; a child it had started is  *)
(* not reaped by anyone and may go on.                                      *)
Die ==
  /\ up' = FALSE
  /\ mem' = [j \in Jobs |-> Absent]
  /\ route' = [j \in Jobs |-> IF route[j] = "none" THEN "none" ELSE "lost"]
  /\ task' = [j \in Jobs |-> IF task[j] = "none" THEN "none" ELSE "ended"]
  /\ outcome' = [j \in Jobs |-> "none"]
  /\ aborted' = {}
  /\ child' = [j \in Jobs |-> IF child[j] \in {"live", "stopping"}
                              THEN "orphan" ELSE child[j]]
  /\ runGate' = NoJob /\ genGate' = NoJob

(* JobStore::open followed by with_notifications.  Opening writes the rows  *)
(* back; when that fails, or a later start-up step fails, nothing serves.   *)
Open ==
  /\ ~up /\ boots < MaxBoots
  /\ Cardinality(Retained(disk)) <= MaxRetained + 1
  /\ boots' = boots + 1 /\ clock' = clock + 1
  /\ LET rows == [j \in Jobs |-> RecoveredRow(disk[j], clock + 1)] IN
       /\ disk' = rows
       /\ \/ /\ up' = TRUE
             /\ mem' = rows
             /\ events' = events \cup Reconciled(rows)
          \/ boots + 1 < MaxBoots /\ UNCHANGED <<up, mem, events>>
  /\ UNCHANGED <<born, suggested, taskVars, gateVars>>

Crash ==
  /\ up /\ boots < MaxBoots
  /\ Die
  /\ UNCHANGED <<boots, clock, born, disk, events, suggested>>

-----------------------------------------------------------------------------
(* Gates                                                                    *)

Fresh(j) == task[j] = "none" /\ child[j] = "none"

GatesFree == runGate = NoJob /\ (SharesBackend => genGate = NoJob)

ClaimGates(j) ==
  /\ GatesFree
  /\ runGate' = j
  /\ genGate' = IF SharesBackend THEN j ELSE genGate

ReleaseGates(j) ==
  /\ runGate' = IF runGate = j THEN NoJob ELSE runGate
  /\ genGate' = IF genGate = j THEN NoJob ELSE genGate

(* A chat turn holds the generation gate while it talks to the model.       *)
ChatStart ==
  /\ up /\ genGate = NoJob
  /\ genGate' = Chat
  /\ UNCHANGED <<up, boots, clock, born, storeVars, taskVars, runGate>>

ChatEnd ==
  /\ up /\ genGate = Chat
  /\ genGate' = NoJob
  /\ UNCHANGED <<up, boots, clock, born, storeVars, taskVars, runGate>>

-----------------------------------------------------------------------------
(* start_job                                                                *)

(* prepare_run_inner claims the gates (or refuses with AGENT_RUN_BUSY, a    *)
(* stutter), then the task that owns them is spawned, waiting for `ready'.  *)
PrepareJob(j) ==
  /\ up /\ Fresh(j)
  /\ ClaimGates(j)
  /\ route' = [route EXCEPT ![j] = "prepared"]
  /\ task' = [task EXCEPT ![j] = "waiting"]
  /\ UNCHANGED <<up, boots, clock, born, storeVars, outcome, aborted, child>>

(* try_insert_running: evict, insert, persist; a failed write takes the new *)
(* job out again and aborts its task (what was evicted stays evicted).      *)
MemAfterFailedInsert(kept, full) == kept

Register(j) ==
  /\ up /\ route[j] = "prepared"
  /\ clock' = clock + 1
  /\ \E E \in Evictions(mem) :
       LET kept == [k \in Jobs |-> IF k \in E THEN Absent ELSE mem[k]]
           full == [kept EXCEPT ![j] = NewRow]
       IN \/ /\ disk' = full /\ mem' = full
             /\ born' = [born EXCEPT ![j] = clock + 1]
             /\ route' = [route EXCEPT ![j] = "registered"]
             /\ UNCHANGED aborted
          \/ /\ mem' = MemAfterFailedInsert(kept, full)
             /\ route' = [route EXCEPT ![j] = "refused"]
             /\ aborted' = aborted \cup {j}
             /\ UNCHANGED <<disk, born>>
  /\ UNCHANGED <<up, boots, events, suggested, task, outcome, child, gateVars>>

(* JobStore::cancel: abort the task, mark the row, persist whatever changed *)
(* (a failed write is only logged) and notify.  It also runs for a job that *)
(* is no longer running, where it only writes the rows once more.           *)
CancelledRow(row, now) ==
  IF row.status = "running"
  THEN [row EXCEPT !.status = "cancelled", !.ended = now]
  ELSE row

CancelledMem(j) == [mem EXCEPT ![j] = CancelledRow(mem[j], clock + 1)]

Aborts(j) == IF mem[j].status = "running" THEN {j} ELSE {}

CancelStore(j) ==
  /\ clock' = IF mem[j].status = "running" THEN clock + 1 ELSE clock
  /\ mem' = CancelledMem(j)
  /\ aborted' = aborted \cup Aborts(j)
  /\ disk' \in {CancelledMem(j), disk}
  /\ events' = IF mem[j].status = "running"
               THEN events \cup CompletionOf(CancelledMem(j), j) ELSE events

(* Goal-linked work claims its goal stage now.  A refused claim cancels the *)
(* job; otherwise the task gets its `ready' signal.                         *)
BindGoal(j) ==
  /\ up /\ route[j] = "registered"
  /\ \/ /\ route' = [route EXCEPT ![j] = "accepted"]
        /\ UNCHANGED <<clock, mem, disk, aborted, events>>
     \/ /\ route' = [route EXCEPT ![j] = "refused"]
        /\ CancelStore(j)
  /\ UNCHANGED <<up, boots, born, suggested, task, outcome, child, gateVars>>

(* The owner cancels (or shutdown cancels for every owner).                 *)
Cancel(j) ==
  /\ up /\ mem[j].status # "absent"
  /\ CancelStore(j)
  /\ UNCHANGED <<up, boots, born, suggested, route, task, outcome, child, gateVars>>

(* The process dies after cancel's write and before its notification.       *)
CancelThenDie(j) ==
  /\ up /\ boots < MaxBoots /\ mem[j].status = "running"
  /\ clock' = clock + 1
  /\ disk' = CancelledMem(j)
  /\ Die
  /\ UNCHANGED <<boots, born, events, suggested>>

-----------------------------------------------------------------------------
(* The task and its child                                                   *)

(* The `ready' signal is sent last, after registration and goal claim.      *)
ReadySent(j) == route[j] = "accepted"

(* `ready' arrived.  An aborted task is never polled again, but one that is *)
(* being polled runs on to its next await.                                  *)
TaskReady(j) ==
  /\ up /\ task[j] = "waiting" /\ ReadySent(j) /\ j \notin aborted
  /\ task' = [task EXCEPT ![j] = "starting"]
  /\ UNCHANGED <<up, boots, clock, born, storeVars, route, outcome, aborted, child, gateVars>>

(* agentic_call flushes the audit queue (an await), then starts the child.  *)
Launch(j) ==
  /\ up /\ task[j] = "starting"
  /\ task' = [task EXCEPT ![j] = "calling"]
  /\ child' = [child EXCEPT ![j] = "live"]
  /\ UNCHANGED <<up, boots, clock, born, storeVars, route, outcome, aborted, gateVars>>

(* agentic_call refuses the request before a child exists.                  *)
CallRefused(j) ==
  /\ up /\ task[j] = "starting"
  /\ task' = [task EXCEPT ![j] = "returned"]
  /\ outcome' = [outcome EXCEPT ![j] = "error"]
  /\ UNCHANGED <<up, boots, clock, born, storeVars, route, aborted, child, gateVars>>

(* agentic_call returns: the child exited, or the shim's timeout fired and  *)
(* the worker thread is still killing it.                                   *)
CallReturns(j) ==
  /\ up /\ task[j] = "calling"
  /\ task' = [task EXCEPT ![j] = "returned"]
  /\ \/ /\ \E o \in Outcomes : outcome' = [outcome EXCEPT ![j] = o]
        /\ child' = [child EXCEPT ![j] = "exited"]
     \/ /\ outcome' = [outcome EXCEPT ![j] = "error"]
        /\ child' = [child EXCEPT ![j] = "stopping"]
  /\ UNCHANGED <<up, boots, clock, born, storeVars, route, aborted, gateVars>>

(* The runtime drops an aborted task (or one whose `ready' sender is gone)  *)
(* at an await: the gates are freed and the shim's CancelOnDrop tells the   *)
(* worker thread to kill the child.                                         *)
MutantLeakedChild(j) == child' = child
StopChild(j) ==
  child' = [child EXCEPT ![j] = IF @ = "live" THEN "stopping" ELSE @]

MutantDropPoint(j) == task[j] = "calling" /\ j \in aborted
DropPoint(j) ==
  \/ task[j] \in {"waiting", "starting", "calling"} /\ j \in aborted
  \/ task[j] = "waiting" /\ route[j] = "refused"

TaskDropped(j) ==
  /\ up
  /\ DropPoint(j)
  /\ task' = [task EXCEPT ![j] = "ended"]
  /\ StopChild(j)
  /\ ReleaseGates(j)
  /\ UNCHANGED <<up, boots, clock, born, storeVars, route, outcome, aborted>>

(* The worker thread has killed and reaped the child.                       *)
ChildReaped(j) ==
  /\ child[j] \in {"stopping", "orphan"}
  /\ child' = [child EXCEPT ![j] = "exited"]
  /\ UNCHANGED <<up, boots, clock, born, storeVars, route, task, outcome, aborted, gateVars>>

(* JobStore::finish.  A job that is no longer running keeps its state:      *)
(* cancellation wins.                                                       *)
MutantFinishGuard(j) == mem[j].status # "absent"
FinishGuard(j) == mem[j].status = "running"

Finish(j) ==
  /\ up /\ task[j] = "returned"
  /\ task' = [task EXCEPT ![j] = "reporting"]
  /\ LET done == [mem EXCEPT ![j] = FinishedRow(mem[j], outcome[j], clock + 1)]
         lost == [mem EXCEPT ![j] = UnsavedRow(done[j])]
     IN \/ /\ ~FinishGuard(j)
           /\ UNCHANGED <<clock, storeVars>>
        \/ /\ FinishGuard(j)
           /\ clock' = clock + 1
           /\ \/ mem' = done /\ disk' = done
              \/ mem' = lost /\ disk' = disk
           /\ events' = events \cup CompletionOf(mem', j)
           /\ UNCHANGED suggested
  /\ UNCHANGED <<up, boots, born, route, outcome, aborted, child, gateVars>>

(* The process dies after finish's write and before its notification.       *)
FinishThenDie(j) ==
  /\ up /\ boots < MaxBoots /\ task[j] = "returned" /\ FinishGuard(j)
  /\ clock' = clock + 1
  /\ disk' = [mem EXCEPT ![j] = FinishedRow(mem[j], outcome[j], clock + 1)]
  /\ Die
  /\ UNCHANGED <<boots, born, events, suggested>>

(* annotate_completion, then the task ends and drops the gates.             *)
Annotatable(row) ==
  row.status \in {"finished", "failed"} /\ row.err = "none" /\ row.result

Annotate(j) ==
  /\ up /\ task[j] = "reporting"
  /\ task' = [task EXCEPT ![j] = "ended"]
  /\ \/ /\ ~Annotatable(mem[j])
        /\ UNCHANGED <<mem, disk, suggested>>
     \/ /\ Annotatable(mem[j])
        /\ suggested' = suggested \cup {j}
        /\ \/ disk' = mem /\ UNCHANGED mem
           \/ mem' = [mem EXCEPT ![j].err = "metadata"] /\ UNCHANGED disk
  /\ ReleaseGates(j)
  /\ UNCHANGED <<up, boots, clock, born, events, route, outcome, aborted, child>>

-----------------------------------------------------------------------------
(* The synchronous route: the same gates, no job.                           *)

SyncRun(j) ==
  /\ up /\ Fresh(j)
  /\ ClaimGates(j)
  /\ task' = [task EXCEPT ![j] = "sync"]
  /\ child' = [child EXCEPT ![j] = "live"]
  /\ UNCHANGED <<up, boots, clock, born, storeVars, route, outcome, aborted>>

(* It answers, or its client goes away and the request is dropped.          *)
SyncEnd(j) ==
  /\ up /\ task[j] = "sync"
  /\ task' = [task EXCEPT ![j] = "ended"]
  /\ \/ /\ child' = [child EXCEPT ![j] = "exited"]
        /\ suggested' \in {suggested, suggested \cup {j}}
     \/ StopChild(j) /\ UNCHANGED suggested
  /\ ReleaseGates(j)
  /\ UNCHANGED <<up, boots, clock, born, mem, disk, events, route, outcome, aborted>>

-----------------------------------------------------------------------------
TaskStep(j) ==
  \/ TaskReady(j) \/ Launch(j) \/ CallRefused(j) \/ CallReturns(j) \/ TaskDropped(j)
  \/ Finish(j) \/ Annotate(j) \/ SyncEnd(j)

RouteStep(j) == Register(j) \/ BindGoal(j)

Next ==
  \/ Open \/ Crash \/ ChatStart \/ ChatEnd
  \/ \E j \in Jobs :
       \/ PrepareJob(j) \/ SyncRun(j) \/ RouteStep(j) \/ TaskStep(j)
       \/ Cancel(j) \/ CancelThenDie(j) \/ FinishThenDie(j) \/ ChildReaped(j)

Spec == Init /\ [][Next]_vars

(* A request thread runs start_job to its end, the runtime polls a task     *)
(* that can run, the shim bounds every call by its timeout, and its worker  *)
(* thread kills and reaps what it was told to stop.                         *)
Fairness ==
  /\ \A j \in Jobs : WF_vars(RouteStep(j)) /\ WF_vars(TaskStep(j))
  /\ \A j \in Jobs : WF_vars(ChildReaped(j))

FairSpec == Spec /\ Fairness

-----------------------------------------------------------------------------
(* Properties                                                               *)

(* Type correctness of every variable.                                      *)
TypeOK ==
  /\ up \in BOOLEAN /\ boots \in Nat /\ clock \in Nat
  /\ born \in [Jobs -> Nat]
  /\ mem \in [Jobs -> Row] /\ disk \in [Jobs -> Row]
  /\ route \in [Jobs -> {"none", "prepared", "registered", "accepted", "refused", "lost"}]
  /\ task \in [Jobs -> {"none", "waiting", "starting", "calling", "returned",
                        "reporting", "sync", "ended"}]
  /\ outcome \in [Jobs -> Outcomes \cup {"none"}]
  /\ aborted \subseteq Jobs
  /\ child \in [Jobs -> {"none", "live", "stopping", "orphan", "exited"}]
  /\ runGate \in Jobs \cup {NoJob} /\ genGate \in Jobs \cup {NoJob, Chat}
  /\ events \subseteq Event
  /\ suggested \subseteq Jobs

(* A job that the API reports as running is recorded as running on disk, so *)
(* a crash at any moment leaves evidence that the next start reports as     *)
(* interrupted (agent_jobs.rs: "never launch work before durable            *)
(* registration").                                                          *)
RunningIsDurable ==
  \A j \in Jobs : mem[j].status = "running" => disk[j].status = "running"

(* Whatever sequence of failed writes, evictions and crashes produced it,   *)
(* the file stays within the bound that the next start accepts, and there   *)
(* is never more than one running job beside the retained ones.             *)
RetentionBounded ==
  /\ Cardinality(Retained(disk)) <= MaxRetained + 1
  /\ Cardinality(TerminalJobs(mem)) <= MaxRetained
  /\ \A j, k \in Jobs : mem[j].status = "running" /\ mem[k].status = "running" => j = k

(* At most one child that has not been told to stop, and none beside a chat *)
(* turn when both use one backend, however cancellation, timeouts and       *)
(* dropped requests interleave with the next start.                         *)
OneLiveWorker ==
  \A j \in Jobs : child[j] = "live" =>
    /\ \A k \in Jobs : child[k] = "live" => j = k
    /\ SharesBackend => genGate = j

(* start_job answered with an error ("no worker was started", or a refused  *)
(* goal stage): no child of that job ever exists.                           *)
RefusedNeverRuns ==
  \A j \in Jobs : route[j] = "refused" => child[j] = "none"

(* A job has at most one completion event over all processes: no failed     *)
(* write, crash or recovery turns one outcome into two different events.    *)
OneCompletionEvent ==
  \A e, f \in events : e.job = f.job => e = f

(* While the server is up, every retained finished, failed or cancelled job *)
(* has its event: a crash between the write and the notification is made up *)
(* for by with_notifications.                                               *)
NoLostCompletion == Completions(mem) \subseteq events

(* Evidence goes only under pressure of newer work: an accepted job missing *)
(* from a serving store has been followed by at least MaxRetained - 1 newer *)
(* jobs that are still there, failed registrations included.                *)
EvidenceKept ==
  up => \A j \in Jobs : born[j] > 0 /\ mem[j].status = "absent" =>
          Cardinality({k \in Retained(mem) : born[k] > born[j]}) >= MaxRetained - 1

(* An outcome is final until its row is evicted.  In one process a late     *)
(* result never replaces a cancellation; once on disk, no recovery, failed  *)
(* write or later rewrite of the file changes it, over any restart.         *)
Kept(old, new) == new.status = "absent" \/ (new.status = old.status /\ new.ended = old.ended)
OutcomeIsFinal ==
  [][\A j \in Jobs :
       /\ up /\ up' /\ mem[j].status \in Terminal => Kept(mem[j], mem'[j])
       /\ disk[j].status \in {"finished", "failed", "cancelled"} => Kept(disk[j], disk'[j])]_vars

(* A detached job feeds memory suggestions only with an outcome that is     *)
(* already on disk: not a cancelled one, nor one whose write failed.        *)
SuggestsOnlySaved ==
  [][\A j \in suggested' \ suggested : task[j] = "reporting" =>
       /\ disk[j].status \in {"finished", "failed"}
       /\ disk[j].status = mem[j].status /\ disk[j].result]_vars

(* A running job reaches a terminal state (or its process dies), and the    *)
(* run gate is always given back: a cancelled, timed-out, refused or        *)
(* finished run never blocks the next one for good.                         *)
RunsEnd ==
  \A j \in Jobs : /\ mem[j].status = "running" ~> mem[j].status # "running"
                  /\ runGate = j ~> runGate # j

-----------------------------------------------------------------------------
(* The records are sound: a job runs only if its row was saved first, the   *)
(* rows are bounded, and a row goes only to make room for newer ones        *)
(* (agent_jobs.rs try_insert_running, open).                                *)
RecordsHold == TypeOK /\ RunningIsDurable /\ RetentionBounded /\ EvidenceKept

(* Every job that ran completes once: a refused start never runs, a crash   *)
(* does not lose or repeat the completion that the restarted server         *)
(* reports (agent_jobs.rs finish, open, notify).                            *)
CompletionsKept == RefusedNeverRuns /\ OneCompletionEvent /\ NoLostCompletion

(* A recorded outcome stands: it is not overwritten by a later finish, and  *)
(* only a row that was saved gets a suggestion (agent_jobs.rs finish,       *)
(* annotate_completion).                                                    *)
OutcomeStands == OutcomeIsFinal /\ SuggestsOnlySaved
===========================================================================
