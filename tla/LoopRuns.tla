------------------------------ MODULE LoopRuns ------------------------------
(***************************************************************************)
(* Server-side /loop runs: the LoopManager, the detached turn task          *)
(* (server/loop_runner.rs) and the start, stop and events routes            *)
(* (routes/loop_runner.rs).                                                 *)
(*                                                                          *)
(* `entry' is the map behind the manager's mutex; `cur' is the copy of the  *)
(* run a task works on between two visits of that map.  A task step ends    *)
(* where another thread can act in between: after the stop and budget       *)
(* checks, after the account was read, during the chat turn, and between    *)
(* the update of the map and the event.  Sessions stand for their owners:   *)
(* the account of a session is authorized or not.                           *)
(***************************************************************************)
EXTENDS Naturals, Sequences

CONSTANTS
  Runs, Sessions,
  SessionOf,     \* the session a start request names
  Goals,         \* goal texts
  Watchers,      \* connections to /api/loop/events
  MaxTurns,      \* config.max_turns, 0 is unlimited
  MaxTokens,     \* config.max_total_completion_tokens, 0 is unlimited
  MaxFailures,   \* config.max_failures
  TurnTokens,    \* most completion tokens of one turn
  CoolsDown,     \* config.cooldown_ms > 0
  Lag            \* events the broadcast channel keeps (64)

ASSUME SessionAssumption == SessionOf \in [Runs -> Sessions] /\ "none" \notin Runs
ASSUME LimitsAssumption ==
  /\ MaxTurns \in Nat /\ MaxTokens \in Nat /\ MaxFailures \in Nat \ {0}
  /\ TurnTokens \in Nat /\ CoolsDown \in BOOLEAN /\ Lag \in Nat \ {0}

VARIABLES
  entry,       \* LoopManager.runs
  file,        \* loops/<run_id>.json
  cur,         \* the task's own copy of its run
  pc,          \* where the request or the task of a run is
  turn,        \* chat turns the task has begun
  cancel,      \* cancelled tokens
  goal,        \* the sessions' stored goals
  runGoal,     \* the goal a run was created for
  authorized,  \* sessions whose account may run loop turns
  watch,       \* event streams
  late         \* turns begun after the stop, and after the revocation

loopTaskVars == <<entry, file, cur, pc, turn, late>>
sessVars == <<goal, authorized>>
loopVars == <<loopTaskVars, cancel, sessVars, runGoal, watch>>

-----------------------------------------------------------------------------
Ended == {"stopped", "failed", "done"}
Run == [state : {"absent", "running"} \cup Ended,
        turns : Nat, tokens : Nat, fails : Nat, tools : Nat]
AbsentRun == [state |-> "absent", turns |-> 0, tokens |-> 0, fails |-> 0, tools |-> 0]
FreshRun == [state |-> "running", turns |-> 0, tokens |-> 0, fails |-> 0, tools |-> 0]

(* What a subscriber learns from an event: the run's state, or nothing (an  *)
(* exchange carries no run).                                                *)
Events == {"running", "exchange"} \cup Ended
Stream == [run : Runs \cup {"none"}, queue : Seq(Events), seen : BOOLEAN]

(* A task that has not told the map yet that its run is over.               *)
Working == {"check", "authority", "goal", "calling", "record", "publish", "cooldown", "mark"}
Places == {"none", "requested", "finish", "over"} \cup Working

LoopInit ==
  /\ entry = [r \in Runs |-> AbsentRun] /\ file = [r \in Runs |-> AbsentRun]
  /\ cur = [r \in Runs |-> AbsentRun] /\ pc = [r \in Runs |-> "none"]
  /\ turn = [r \in Runs |-> 0] /\ cancel = {}
  /\ goal \in [Sessions -> Goals] /\ runGoal = [r \in Runs |-> "none"]
  /\ authorized = Sessions
  /\ watch = [w \in Watchers |-> [run |-> "none", queue |-> <<>>, seen |-> FALSE]]
  /\ late = [r \in Runs |-> [stop |-> 0, auth |-> 0]]

(* The broadcast channel drops the oldest event of a receiver that lags.    *)
MutantPushed(q, e) == IF Len(q) < Lag THEN Append(q, e) ELSE q
Pushed(q, e) == IF Len(q) < Lag THEN Append(q, e) ELSE Append(Tail(q), e)
Send(r, e) ==
  watch' = [w \in Watchers |-> IF watch[w].run = r /\ ~watch[w].seen
                               THEN [watch[w] EXCEPT !.queue = Pushed(@, e)] ELSE watch[w]]

-----------------------------------------------------------------------------
(* Requests                                                                 *)

(* start, first half: the goal of the request is stored on the session and  *)
(* the run is built for the goal the session then has.                      *)
Request(r, g) ==
  /\ pc[r] = "none" /\ SessionOf[r] \in authorized
  /\ goal' = [goal EXCEPT ![SessionOf[r]] = g]
  /\ runGoal' = [runGoal EXCEPT ![r] = g]
  /\ pc' = [pc EXCEPT ![r] = "requested"]
  /\ UNCHANGED <<entry, file, cur, turn, late, cancel, authorized, watch>>

(* LoopManager::start: one live run per session, decided under the lock; a  *)
(* session keeps only its newest run.                                       *)
Siblings(r) == {q \in Runs : SessionOf[q] = SessionOf[r]}
MutantAdmissible(r) == TRUE
Admissible(r) == \A q \in Siblings(r) : entry[q].state # "running"

Admit(r) ==
  /\ pc[r] = "requested" /\ Admissible(r)
  /\ entry' = [q \in Runs |-> IF q = r THEN FreshRun
                              ELSE IF q \in Siblings(r) THEN AbsentRun ELSE entry[q]]
  /\ pc' = [pc EXCEPT ![r] = "check"]
  /\ UNCHANGED <<file, cur, turn, late, cancel, sessVars, runGoal, watch>>

(* LOOP_IN_FLIGHT.                                                          *)
Refuse(r) ==
  /\ pc[r] = "requested" /\ ~Admissible(r)
  /\ pc' = [pc EXCEPT ![r] = "over"]
  /\ UNCHANGED <<entry, file, cur, turn, late, cancel, sessVars, runGoal, watch>>

StopRun(r) ==
  /\ entry[r].state # "absent" /\ r \notin cancel
  /\ cancel' = cancel \cup {r}
  /\ UNCHANGED <<loopTaskVars, sessVars, runGoal, watch>>

(* subscribe: the snapshot and the receiver are taken under one lock.       *)
Snapshot(r) == entry[r].state

Subscribe(w, r) ==
  /\ entry[r].state # "absent" /\ watch[w].run = "none"
  /\ watch' = [watch EXCEPT ![w] =
       [run |-> r, queue |-> <<>>, seen |-> Snapshot(r) \in Ended]]
  /\ UNCHANGED <<loopTaskVars, cancel, sessVars, runGoal>>

(* The stream ends after an event with a terminal state.                    *)
Receive(w) ==
  /\ watch[w].queue # <<>> /\ ~watch[w].seen
  /\ watch' = [watch EXCEPT ![w].queue = Tail(@), ![w].seen = Head(watch[w].queue) \in Ended]
  /\ UNCHANGED <<loopTaskVars, cancel, sessVars, runGoal>>

(* Other requests change the session's goal and the account.                *)
SetGoal(s) ==
  /\ \E g \in Goals \ {goal[s]} : goal' = [goal EXCEPT ![s] = g]
  /\ UNCHANGED <<loopTaskVars, cancel, authorized, runGoal, watch>>

Revoke(s) ==
  /\ s \in authorized /\ authorized' = authorized \ {s}
  /\ UNCHANGED <<loopTaskVars, cancel, goal, runGoal, watch>>

Restore(s) ==
  /\ s \notin authorized /\ authorized' = authorized \cup {s}
  /\ late' = [r \in Runs |-> IF SessionOf[r] = s THEN [late[r] EXCEPT !.auth = 0] ELSE late[r]]
  /\ UNCHANGED <<entry, file, cur, pc, turn, cancel, goal, runGoal, watch>>

-----------------------------------------------------------------------------
(* run_turns                                                                *)

MutantTurnsSpent(run) == MaxTurns > 0 /\ run.turns > MaxTurns
TurnsSpent(run) == MaxTurns > 0 /\ run.turns >= MaxTurns

TokensSpent(run) == MaxTokens > 0 /\ run.tokens >= MaxTokens

MutantStopSeen(r) == FALSE
StopSeen(r) == r \in cancel

(* The task ends its run in this state, or goes on at the given place.      *)
End(r, run, state) ==
  /\ cur' = [cur EXCEPT ![r] = [run EXCEPT !.state = state]]
  /\ pc' = [pc EXCEPT ![r] = "mark"]
Go(r, run, place) ==
  /\ cur' = [cur EXCEPT ![r] = run]
  /\ pc' = [pc EXCEPT ![r] = place]

(* The top of the loop: a fresh copy, the stop token, then the budgets.     *)
Check(r) ==
  /\ pc[r] = "check"
  /\ \/ StopSeen(r) /\ End(r, entry[r], "stopped")
     \/ ~StopSeen(r) /\ (TurnsSpent(entry[r]) \/ TokensSpent(entry[r]))
        /\ End(r, entry[r], "done")
     \/ ~StopSeen(r) /\ ~TurnsSpent(entry[r]) /\ ~TokensSpent(entry[r])
        /\ Go(r, entry[r], "authority")
  /\ UNCHANGED <<entry, file, turn, late, cancel, sessVars, runGoal, watch>>

(* current_authority.                                                       *)
HasAuthority(r) == SessionOf[r] \in authorized

CheckAuthority(r) ==
  /\ pc[r] = "authority"
  /\ \/ HasAuthority(r) /\ Go(r, cur[r], "goal")
     \/ ~HasAuthority(r) /\ End(r, cur[r], "failed")
  /\ UNCHANGED <<entry, file, turn, late, cancel, sessVars, runGoal, watch>>

(* chat_inner begins: it loads the session and compares the goal.           *)
Late(r) == [stop |-> late[r].stop + IF r \in cancel THEN 1 ELSE 0,
            auth |-> late[r].auth + IF SessionOf[r] \in authorized THEN 0 ELSE 1]
BeginTurn(r) ==
  /\ pc[r] = "goal"
  /\ turn' = [turn EXCEPT ![r] = @ + 1]
  /\ \/ goal[SessionOf[r]] = runGoal[r] /\ Go(r, cur[r], "calling")
        /\ late' = [late EXCEPT ![r] = Late(r)]
     \/ goal[SessionOf[r]] # runGoal[r] /\ End(r, cur[r], "stopped")
        /\ UNCHANGED late
  /\ UNCHANGED <<entry, file, cancel, sessVars, runGoal, watch>>

(* next_tool_failures: `web' says how the turn's web reads went.            *)
MutantNextTools(tools, web) ==
  IF web = "failed" THEN tools + 1 ELSE IF web = "paused" THEN tools ELSE tools - 1
NextTools(tools, web) ==
  IF web = "failed" THEN tools + 1 ELSE IF web = "paused" THEN tools ELSE 0

(* A turn succeeds; `final' stands for a blocking web code, GOAL_DONE or a  *)
(* repeated reply.                                                          *)
Succeeded(run, tokens, web) ==
  [run EXCEPT !.turns = run.turns + 1, !.tokens = run.tokens + tokens, !.fails = 0,
              !.tools = NextTools(run.tools, web)]
TurnOk(r) ==
  /\ pc[r] = "calling"
  /\ \E tokens \in 0..TurnTokens, web \in {"failed", "paused", "fine"}, final \in BOOLEAN :
       LET run == Succeeded(cur[r], tokens, web) IN
       \/ (final \/ run.tools >= MaxFailures) /\ End(r, run, "done")
       \/ ~final /\ run.tools < MaxFailures /\ Go(r, run, "record")
  /\ Send(r, "exchange")
  /\ UNCHANGED <<entry, file, turn, late, cancel, sessVars, runGoal>>

(* A turn fails: refused by a guard of the chat route, or by the model.     *)
Failed(run, tokens) ==
  [run EXCEPT !.tokens = run.tokens + tokens, !.fails = run.fails + 1]
TurnErr(r) ==
  /\ pc[r] = "calling"
  /\ \E tokens \in 0..TurnTokens :
       LET run == Failed(cur[r], tokens) IN
       \/ run.fails >= MaxFailures /\ End(r, run, "failed")
       \/ run.fails < MaxFailures /\ Go(r, run, "record")
  /\ UNCHANGED <<entry, file, turn, late, cancel, sessVars, runGoal, watch>>

(* The map is brought up to date, under the lock.                           *)
Recorded(r) == [entry EXCEPT ![r] = IF @.state = "absent" THEN @ ELSE cur[r]]
Record(r) ==
  /\ pc[r] = "record"
  /\ entry' = Recorded(r)
  /\ pc' = [pc EXCEPT ![r] = "publish"]
  /\ UNCHANGED <<file, cur, turn, late, cancel, sessVars, runGoal, watch>>

(* Persist (a failed write is only logged), tell the subscribers, cool down.*)
Saved(r) == {file, [file EXCEPT ![r] = cur[r]]}
Publish(r) ==
  /\ pc[r] = "publish"
  /\ file' \in Saved(r)
  /\ Send(r, "running")
  /\ pc' = [pc EXCEPT ![r] = IF CoolsDown THEN "cooldown" ELSE "check"]
  /\ UNCHANGED <<entry, cur, turn, late, cancel, sessVars, runGoal>>

CoolDown(r) ==
  /\ pc[r] = "cooldown"
  /\ \/ StopSeen(r) /\ End(r, cur[r], "stopped")
     \/ ~StopSeen(r) /\ Go(r, cur[r], "check")
  /\ UNCHANGED <<entry, file, turn, late, cancel, sessVars, runGoal, watch>>

(* finish: the map first, then the file and the last event.                 *)
Mark(r) ==
  /\ pc[r] = "mark"
  /\ entry' = Recorded(r)
  /\ pc' = [pc EXCEPT ![r] = "finish"]
  /\ UNCHANGED <<file, cur, turn, late, cancel, sessVars, runGoal, watch>>

AfterFinish == "over"
FinishRun(r) ==
  /\ pc[r] = "finish"
  /\ file' \in Saved(r)
  /\ Send(r, cur[r].state)
  /\ pc' = [pc EXCEPT ![r] = AfterFinish]
  /\ UNCHANGED <<entry, cur, turn, late, cancel, sessVars, runGoal>>

-----------------------------------------------------------------------------
Task(r) ==
  \/ Check(r) \/ CheckAuthority(r) \/ BeginTurn(r) \/ TurnOk(r) \/ TurnErr(r)
  \/ Record(r) \/ Publish(r) \/ CoolDown(r) \/ Mark(r) \/ FinishRun(r)

LoopNext ==
  \/ \E r \in Runs : Task(r) \/ Admit(r) \/ Refuse(r) \/ StopRun(r)
                     \/ \E g \in Goals : Request(r, g)
  \/ \E w \in Watchers : Receive(w) \/ \E r \in Runs : Subscribe(w, r)
  \/ \E s \in Sessions : SetGoal(s) \/ Revoke(s) \/ Restore(s)

LoopSpec == LoopInit /\ [][LoopNext]_loopVars

(* The runtime keeps polling a task and a stream; a chat turn ends, by its  *)
(* inference timeout at the latest.                                         *)
LoopFairness == /\ \A r \in Runs : WF_loopVars(Task(r))
                /\ \A w \in Watchers : WF_loopVars(Receive(w))
LoopFairSpec == LoopSpec /\ LoopFairness

-----------------------------------------------------------------------------
(* Properties                                                               *)

(* Type correctness of every variable.                                      *)
LoopTypeOK ==
  /\ entry \in [Runs -> Run] /\ file \in [Runs -> Run] /\ cur \in [Runs -> Run]
  /\ pc \in [Runs -> Places] /\ turn \in [Runs -> Nat] /\ cancel \subseteq Runs
  /\ goal \in [Sessions -> Goals] /\ runGoal \in [Runs -> Goals \cup {"none"}]
  /\ authorized \subseteq Sessions /\ watch \in [Watchers -> Stream]
  /\ late \in [Runs -> [stop : Nat, auth : Nat]]

(* At most one turn task works on a session, although the manager decides   *)
(* from its map and a task outlives the update that ends its run.           *)
OneTaskPerSession ==
  \A r, q \in Runs :
    SessionOf[r] = SessionOf[q] /\ pc[r] \in Working /\ pc[q] \in Working => r = q

(* Once a stop was accepted, and while the account is revoked, at most one  *)
(* more turn begins: the one whose checks were already past.                *)
AtMostOneLateTurn == \A r \in Runs : late[r].stop <= 1 /\ late[r].auth <= 1

(* Failed turns do not count against max_turns, still the number of chat    *)
(* turns of a bounded run is bounded; the aggregate token budget is         *)
(* exceeded by less than one turn.                                          *)
BudgetsHold ==
  \A r \in Runs :
    /\ MaxTurns > 0 => turn[r] <= MaxTurns * MaxFailures
    /\ MaxTokens > 0 => cur[r].tokens < MaxTokens + TurnTokens

(* A subscriber is never left without the end of its run: when the task is  *)
(* over, it has seen a terminal state or the last event it still has to     *)
(* read carries one, however far the stream lags behind.                    *)
EndReachesWatchers ==
  \A w \in Watchers : \A r \in Runs :
    watch[w].run = r /\ ~watch[w].seen /\ pc[r] = "over" =>
      /\ watch[w].queue # <<>>
      /\ watch[w].queue[Len(watch[w].queue)] \in Ended

(* The recorded end of a run is final: the entry only changes by giving way *)
(* to the session's next run, the file not at all.                          *)
EndIsFinal ==
  [][\A r \in Runs :
       /\ entry[r].state \in Ended => entry'[r] \in {entry[r], AbsentRun}
       /\ file[r].state \in Ended => file'[r] = file[r]]_loopVars

(* A bounded run ends, whatever the model answers, and every event stream   *)
(* ends with the run it watches.                                            *)
RunEnds == /\ \A r \in Runs : pc[r] \in Working ~> pc[r] = "over"
           /\ \A w \in Watchers : watch[w].run # "none" ~> watch[w].seen
=============================================================================
