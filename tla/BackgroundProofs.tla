-------------------------- MODULE BackgroundProofs --------------------------
(***************************************************************************)
(* Proofs about the background of a server: LoopRuns, for every number of   *)
(* runs, sessions, watchers and every limit, and MemoryRuns, for any number *)
(* of suggestions, batches, turns, cancels and restarts.  The inductive     *)
(* invariant of the loop runner says what the map, the task's copy of its   *)
(* run and the counters know of each other at each place of the task.  Of   *)
(* the memory runs, a chat turn does not sleep through the release of the   *)
(* generation gate, and what its owner cancelled stays cancelled.           *)
(***************************************************************************)
EXTENDS MCBackground, AgentJobsProofs, NotificationsProofs, WellFoundedInduction, TLAPS

-----------------------------------------------------------------------------
(* Server-side loop runs.                                                   *)

(* A task that has not reported the end of its run is listed as running,    *)
(* and its copy of the run is current where it is read again.               *)
ListedAt(r) ==
  /\ pc[r] \in Working => entry[r].state = "running"
  /\ pc[r] \in {"none", "requested"} => entry[r].state = "absent"
  /\ pc[r] \in {"finish", "over"} => entry[r].state # "running"
  /\ pc[r] \in Working \ {"check", "mark"} => cur[r].state = "running"
  /\ pc[r] \in {"mark", "finish"} => cur[r].state \in Ended
ListedInv == \A r \in Runs : ListedAt(r)

(* A turn that began after the stop, or after the revocation, was past the  *)
(* check when it happened, and the next check is still to come.             *)
LateAt(r) ==
  /\ late[r].stop <= 1 /\ late[r].auth <= 1
  /\ late[r].stop # 0 => r \in cancel /\ pc[r] \notin {"authority", "goal"}
  /\ late[r].auth # 0 => SessionOf[r] \notin authorized /\ pc[r] # "goal"
LateInv == \A r \in Runs : LateAt(r)

(* What the turns of a run account for.                                     *)
Spent(run) == run.turns * MaxFailures + run.fails

Within(run, n) ==
  /\ n <= Spent(run) /\ run.fails < MaxFailures
  /\ \/ run.turns < MaxTurns
     \/ run.turns = MaxTurns /\ run.fails = 0

(* Every turn begun is a success or one of fewer than max_failures failures *)
(* since the last success.                                                  *)
AttemptAt(r) ==
  /\ pc[r] \in {"none", "requested"} => turn[r] = 0
  /\ pc[r] \in {"check", "publish", "cooldown"} => Within(entry[r], turn[r])
  /\ pc[r] \in {"authority", "goal"} => Within(cur[r], turn[r]) /\ cur[r].turns < MaxTurns
  /\ pc[r] = "calling" =>
       turn[r] <= Spent(cur[r]) + 1 /\ cur[r].turns < MaxTurns /\ cur[r].fails < MaxFailures
  /\ pc[r] = "record" => Within(cur[r], turn[r])
  /\ pc[r] \in {"mark", "finish", "over"} => turn[r] <= MaxTurns * MaxFailures
AttemptInv == MaxTurns > 0 => \A r \in Runs : AttemptAt(r)

(* A turn only begins below the token budget.                               *)
TokenAt(r) ==
  /\ cur[r].tokens < MaxTokens + TurnTokens /\ entry[r].tokens < MaxTokens + TurnTokens
  /\ pc[r] \in {"authority", "goal", "calling"} => cur[r].tokens < MaxTokens
TokenInv == MaxTokens > 0 => \A r \in Runs : TokenAt(r)

(* A run has subscribers only after it was listed, and a subscriber that    *)
(* does not know of the end of a run still holds the event that says so.    *)
StreamAt(w, r) ==
  /\ pc[r] \in {"none", "requested"} => watch[w].run # r
  /\ watch[w].run = r /\ ~watch[w].seen /\ pc[r] = "over" =>
       /\ watch[w].queue # <<>>
       /\ watch[w].queue[Len(watch[w].queue)] \in Ended
StreamInv == \A w \in Watchers, r \in Runs : StreamAt(w, r)

(* The invariant the theorems rest on.                                      *)
LoopInv ==
  /\ LoopTypeOK /\ ListedInv /\ OneTaskPerSession /\ LateInv /\ AttemptInv /\ TokenInv
  /\ StreamInv

-----------------------------------------------------------------------------
(* Arithmetic of the attempts.                                              *)

(* One more turn fits below the product.                                    *)
LEMMA ProductStep ==
  ASSUME NEW a \in Nat, NEW b \in Nat, NEW c \in Nat, a < b
  PROVE  a * c + c <= b * c
<1>1. PICK d \in Nat : b = a + 1 + d
  <2>1. b - a - 1 \in Nat /\ b = a + 1 + (b - a - 1) OBVIOUS
  <2> QED BY <2>1
<1>2. d * c \in Nat OBVIOUS
<1>3. b * c = a * c + c + d * c BY <1>1
<1>4. a * c \in Nat OBVIOUS
<1> QED BY <1>2, <1>3, <1>4

(* A success accounts for the failures before it and for itself.            *)
LEMMA SpentSuccess ==
  ASSUME NEW run \in Run, NEW tokens \in Nat, NEW web, run.fails < MaxFailures
  PROVE  /\ Spent(run) + 1 <= Spent(Succeeded(run, tokens, web))
         /\ Spent(run) \in Nat
<1>1. run.turns \in Nat /\ run.fails \in Nat BY DEF Run
<1>2. MaxFailures \in Nat BY LimitsAssumption
<1>3. run.turns * MaxFailures + MaxFailures <= (run.turns + 1) * MaxFailures
  BY <1>1, <1>2, ProductStep
<1>4. run.turns * MaxFailures \in Nat BY <1>1, <1>2
<1>5. (run.turns + 1) * MaxFailures \in Nat BY <1>1, <1>2
<1>6. Succeeded(run, tokens, web).turns = run.turns + 1 /\ Succeeded(run, tokens, web).fails = 0
  BY DEF Succeeded, Run
<1>7. Spent(Succeeded(run, tokens, web)) = (run.turns + 1) * MaxFailures + 0
  BY <1>6 DEF Spent
<1>8. Spent(run) = run.turns * MaxFailures + run.fails BY DEF Spent
<1> QED BY <1>1, <1>2, <1>3, <1>4, <1>5, <1>7, <1>8

(* A failure accounts for itself.                                           *)
LEMMA SpentFailure ==
  ASSUME NEW run \in Run, NEW tokens \in Nat
  PROVE  Spent(Failed(run, tokens)) = Spent(run) + 1 /\ Spent(run) \in Nat
<1>1. run.turns \in Nat /\ run.fails \in Nat BY DEF Run
<1>2. MaxFailures \in Nat BY LimitsAssumption
<1>3. run.turns * MaxFailures \in Nat BY <1>1, <1>2
<1>4. Failed(run, tokens).turns = run.turns /\ Failed(run, tokens).fails = run.fails + 1
  BY DEF Failed, Run
<1>5. Spent(Failed(run, tokens)) = run.turns * MaxFailures + (run.fails + 1)
  BY <1>4 DEF Spent
<1> QED BY <1>1, <1>3, <1>5 DEF Spent

(* The next turn of a run below both limits is within the bound.            *)
LEMMA SpentBound ==
  ASSUME NEW run \in Run, run.turns < MaxTurns, run.fails < MaxFailures
  PROVE  Spent(run) + 1 <= MaxTurns * MaxFailures /\ Spent(run) \in Nat
<1>1. run.turns \in Nat /\ run.fails \in Nat BY DEF Run
<1>2. MaxFailures \in Nat /\ MaxTurns \in Nat BY LimitsAssumption
<1>3. run.turns * MaxFailures + MaxFailures <= MaxTurns * MaxFailures
  BY <1>1, <1>2, ProductStep
<1>4. run.turns * MaxFailures \in Nat /\ MaxTurns * MaxFailures \in Nat BY <1>1, <1>2
<1>5. Spent(run) = run.turns * MaxFailures + run.fails BY DEF Spent
<1> QED BY <1>1, <1>2, <1>3, <1>4, <1>5

(* Between two turns the bound holds.                                       *)
LEMMA SpentFull ==
  ASSUME NEW run \in Run, NEW n \in Nat, Within(run, n)
  PROVE  n <= MaxTurns * MaxFailures
<1>1. run.turns \in Nat /\ run.fails \in Nat BY DEF Run
<1>2. MaxFailures \in Nat /\ MaxTurns \in Nat BY LimitsAssumption
<1>3. run.turns * MaxFailures \in Nat /\ MaxTurns * MaxFailures \in Nat BY <1>1, <1>2
<1>4. Spent(run) = run.turns * MaxFailures + run.fails BY DEF Spent
<1>5. CASE run.turns < MaxTurns
  <2>1. Spent(run) + 1 <= MaxTurns * MaxFailures BY <1>5, SpentBound DEF Within
  <2> QED BY <2>1, <1>1, <1>3, <1>4 DEF Within
<1>6. CASE run.turns = MaxTurns /\ run.fails = 0
  BY <1>6, <1>3, <1>4 DEF Within
<1> QED BY <1>1, <1>2, <1>5, <1>6 DEF Within

-----------------------------------------------------------------------------
(* Types                                                                    *)

(* The channel keeps events, and the newest one last.                       *)
LEMMA PushedFacts ==
  ASSUME NEW q \in Seq(Events), NEW e \in Events
  PROVE  /\ Pushed(q, e) \in Seq(Events) /\ Pushed(q, e) # <<>>
         /\ Pushed(q, e)[Len(Pushed(q, e))] = e
<1>1. Lag \in Nat \ {0} BY LimitsAssumption
<1>2. CASE Len(q) < Lag
  BY <1>2 DEF Pushed
<1>3. CASE ~(Len(q) < Lag)
  <2>1. q # <<>> BY <1>1, <1>3
  <2>2. Tail(q) \in Seq(Events) BY <2>1
  <2>3. Pushed(q, e) = Append(Tail(q), e) BY <1>3 DEF Pushed
  <2> HIDE DEF Pushed
  <2> QED BY <2>2, <2>3
<1> QED BY <1>2, <1>3

(* Sending an event leaves streams.                                         *)
LEMMA SendType ==
  ASSUME watch \in [Watchers -> Stream], NEW r \in Runs, NEW e \in Events, Send(r, e)
  PROVE  watch' \in [Watchers -> Stream]
<1> SUFFICES ASSUME NEW w \in Watchers PROVE watch'[w] \in Stream
  BY DEF Send
<1>1. watch[w] \in Stream OBVIOUS
<1>2. watch[w].queue \in Seq(Events) BY <1>1 DEF Stream
<1>3. Pushed(watch[w].queue, e) \in Seq(Events) BY <1>2, PushedFacts
<1>4. [watch[w] EXCEPT !.queue = Pushed(@, e)] \in Stream BY <1>1, <1>3 DEF Stream
<1> QED BY <1>1, <1>4 DEF Send

(* The results of a turn are runs.                                          *)
LEMMA TurnTypes ==
  ASSUME NEW run \in Run, NEW tokens \in 0..TurnTokens, NEW web
  PROVE  Succeeded(run, tokens, web) \in Run /\ Failed(run, tokens) \in Run
<1>1. tokens \in Nat BY LimitsAssumption
<1>2. run.turns \in Nat /\ run.tokens \in Nat /\ run.fails \in Nat /\ run.tools \in Nat
  BY DEF Run
<1>3. NextTools(run.tools, web) \in Nat BY <1>2 DEF NextTools
<1>4. Succeeded(run, tokens, web) \in Run
  <2>1. \A a, b, c \in Nat :
          [run EXCEPT !.turns = a, !.tokens = b, !.fails = 0, !.tools = c] \in Run
    BY DEF Run
  <2>2. run.turns + 1 \in Nat /\ run.tokens + tokens \in Nat BY <1>1, <1>2
  <2> QED BY <1>3, <2>1, <2>2, Zenon DEF Succeeded
<1>5. Failed(run, tokens) \in Run
  <2>1. \A a, b \in Nat : [run EXCEPT !.tokens = a, !.fails = b] \in Run
    BY DEF Run
  <2>2. run.tokens + tokens \in Nat /\ run.fails + 1 \in Nat BY <1>1, <1>2
  <2> QED BY <2>1, <2>2, Zenon DEF Failed
<1> QED BY <1>4, <1>5

(* The task goes on, or ends its run, with a run.                           *)
LEMMA GoEndTypes ==
  ASSUME LoopTypeOK, NEW r \in Runs, NEW run \in Run
  PROVE  /\ \A place \in Places : Go(r, run, place) =>
              cur' \in [Runs -> Run] /\ pc' \in [Runs -> Places]
         /\ \A state \in Ended : End(r, run, state) =>
              cur' \in [Runs -> Run] /\ pc' \in [Runs -> Places]
<1>1. \A state \in Ended : [run EXCEPT !.state = state] \in Run BY DEF Run
<1>2. "mark" \in Places BY DEF Places, Working
<1> QED BY <1>1, <1>2 DEF LoopTypeOK, Go, End

(* Every step keeps the types.                                              *)
LEMMA LoopTypeStep == LoopTypeOK /\ ListedInv /\ [LoopNext]_loopVars => LoopTypeOK'
<1> SUFFICES ASSUME LoopTypeOK, ListedInv, [LoopNext]_loopVars PROVE LoopTypeOK'
  OBVIOUS
<1> USE DEF sessVars, loopTaskVars
<1>1. ASSUME NEW r \in Runs, NEW g \in Goals, Request(r, g) PROVE LoopTypeOK'
  BY <1>1 DEF LoopTypeOK, Request, Places
<1>2. ASSUME NEW r \in Runs, Admit(r) PROVE LoopTypeOK'
  <2>1. FreshRun \in Run /\ AbsentRun \in Run BY DEF FreshRun, AbsentRun, Run
  <2>2. entry' \in [Runs -> Run] BY <1>2, <2>1 DEF LoopTypeOK, Admit
  <2> QED BY <1>2, <2>2 DEF LoopTypeOK, Admit, Places, Working
<1>3. ASSUME NEW r \in Runs, Refuse(r) PROVE LoopTypeOK'
  BY <1>3 DEF LoopTypeOK, Refuse, Places
<1>4. ASSUME NEW r \in Runs, StopRun(r) PROVE LoopTypeOK'
  BY <1>4 DEF LoopTypeOK, StopRun
<1>5. ASSUME NEW w \in Watchers, NEW r \in Runs, Subscribe(w, r) PROVE LoopTypeOK'
  <2>1. [run |-> r, queue |-> <<>>, seen |-> Snapshot(r) \in Ended] \in Stream
    BY DEF Stream
  <2>2. watch' \in [Watchers -> Stream] BY <1>5, <2>1 DEF LoopTypeOK, Subscribe
  <2> QED BY <1>5, <2>2 DEF LoopTypeOK, Subscribe
<1>6. ASSUME NEW w \in Watchers, Receive(w) PROVE LoopTypeOK'
  <2>1. watch[w] \in Stream BY DEF LoopTypeOK
  <2>2. watch[w].queue \in Seq(Events) BY <2>1 DEF Stream
  <2>3. Tail(watch[w].queue) \in Seq(Events) BY <2>2, <1>6 DEF Receive
  <2>4. watch'[w] = [run |-> watch[w].run, queue |-> Tail(watch[w].queue),
                     seen |-> Head(watch[w].queue) \in Ended]
    BY <1>6, <2>1 DEF LoopTypeOK, Receive, Stream
  <2>5. watch[w].run \in Runs \cup {"none"} BY <2>1 DEF Stream
  <2>6. watch'[w] \in Stream BY <2>3, <2>4, <2>5 DEF Stream
  <2>7. watch' = [watch EXCEPT ![w] = watch'[w]] BY <1>6 DEF LoopTypeOK, Receive
  <2>8. watch' \in [Watchers -> Stream] BY <2>6, <2>7 DEF LoopTypeOK
  <2> QED BY <1>6, <2>8 DEF LoopTypeOK, Receive
<1>7. ASSUME NEW s \in Sessions, SetGoal(s) PROVE LoopTypeOK'
  BY <1>7 DEF LoopTypeOK, SetGoal
<1>8. ASSUME NEW s \in Sessions, Revoke(s) PROVE LoopTypeOK'
  BY <1>8 DEF LoopTypeOK, Revoke
<1>9. ASSUME NEW s \in Sessions, Restore(s) PROVE LoopTypeOK'
  <2>1. late' \in [Runs -> [stop : Nat, auth : Nat]] BY <1>9 DEF LoopTypeOK, Restore
  <2> QED BY <1>9, <2>1 DEF LoopTypeOK, Restore
<1>10. ASSUME NEW r \in Runs, Check(r) PROVE LoopTypeOK'
  <2>1. entry[r] \in Run BY DEF LoopTypeOK
  <2>2. cur' \in [Runs -> Run] /\ pc' \in [Runs -> Places]
    BY <1>10, <2>1, GoEndTypes DEF Check, Ended, Places, Working
  <2> QED BY <1>10, <2>2 DEF LoopTypeOK, Check
<1>11. ASSUME NEW r \in Runs, CheckAuthority(r) PROVE LoopTypeOK'
  <2>1. cur[r] \in Run BY DEF LoopTypeOK
  <2>2. cur' \in [Runs -> Run] /\ pc' \in [Runs -> Places]
    BY <1>11, <2>1, GoEndTypes DEF CheckAuthority, Ended, Places, Working
  <2> QED BY <1>11, <2>2 DEF LoopTypeOK, CheckAuthority
<1>12. ASSUME NEW r \in Runs, BeginTurn(r) PROVE LoopTypeOK'
  <2>1. cur[r] \in Run BY DEF LoopTypeOK
  <2>2. cur' \in [Runs -> Run] /\ pc' \in [Runs -> Places]
    BY <1>12, <2>1, GoEndTypes DEF BeginTurn, Ended, Places, Working
  <2>3. Late(r) \in [stop : Nat, auth : Nat] BY DEF LoopTypeOK, Late
  <2>4. late' \in [Runs -> [stop : Nat, auth : Nat]] BY <1>12, <2>3 DEF LoopTypeOK, BeginTurn
  <2>5. turn' \in [Runs -> Nat] BY <1>12 DEF LoopTypeOK, BeginTurn
  <2> QED BY <1>12, <2>2, <2>4, <2>5 DEF LoopTypeOK, BeginTurn
<1>13. ASSUME NEW r \in Runs, TurnOk(r) PROVE LoopTypeOK'
  <2>1. cur[r] \in Run BY DEF LoopTypeOK
  <2>2. PICK tokens \in 0..TurnTokens, web \in {"failed", "paused", "fine"} :
          \/ End(r, Succeeded(cur[r], tokens, web), "done")
          \/ Go(r, Succeeded(cur[r], tokens, web), "record")
    BY <1>13, Zenon DEF TurnOk
  <2>3. Succeeded(cur[r], tokens, web) \in Run BY <2>1, TurnTypes
  <2>4. cur' \in [Runs -> Run] /\ pc' \in [Runs -> Places]
    BY <2>2, <2>3, GoEndTypes DEF Ended, Places, Working
  <2>5. watch' \in [Watchers -> Stream]
    BY <1>13, SendType DEF LoopTypeOK, TurnOk, Events
  <2> QED BY <1>13, <2>4, <2>5 DEF LoopTypeOK, TurnOk
<1>14. ASSUME NEW r \in Runs, TurnErr(r) PROVE LoopTypeOK'
  <2>1. cur[r] \in Run BY DEF LoopTypeOK
  <2>2. PICK tokens \in 0..TurnTokens :
          End(r, Failed(cur[r], tokens), "failed") \/ Go(r, Failed(cur[r], tokens), "record")
    BY <1>14, Zenon DEF TurnErr
  <2>3. Failed(cur[r], tokens) \in Run BY <2>1, TurnTypes
  <2>4. cur' \in [Runs -> Run] /\ pc' \in [Runs -> Places]
    BY <2>2, <2>3, GoEndTypes DEF Ended, Places, Working
  <2> QED BY <1>14, <2>4 DEF LoopTypeOK, TurnErr
<1>15. ASSUME NEW r \in Runs, Record(r) PROVE LoopTypeOK'
  BY <1>15 DEF LoopTypeOK, Record, Recorded, Places, Working
<1>16. ASSUME NEW r \in Runs, Publish(r) PROVE LoopTypeOK'
  <2>1. watch' \in [Watchers -> Stream]
    BY <1>16, SendType DEF LoopTypeOK, Publish, Events
  <2>2. file' \in [Runs -> Run] BY <1>16 DEF LoopTypeOK, Publish, Saved
  <2>3. pc' \in [Runs -> Places] BY <1>16 DEF LoopTypeOK, Publish, Places, Working
  <2> QED BY <1>16, <2>1, <2>2, <2>3 DEF LoopTypeOK, Publish
<1>17. ASSUME NEW r \in Runs, CoolDown(r) PROVE LoopTypeOK'
  <2>1. cur[r] \in Run BY DEF LoopTypeOK
  <2>2. cur' \in [Runs -> Run] /\ pc' \in [Runs -> Places]
    BY <1>17, <2>1, GoEndTypes DEF CoolDown, Ended, Places, Working
  <2> QED BY <1>17, <2>2 DEF LoopTypeOK, CoolDown
<1>18. ASSUME NEW r \in Runs, Mark(r) PROVE LoopTypeOK'
  BY <1>18 DEF LoopTypeOK, Mark, Recorded, Places, Working
<1>19. ASSUME NEW r \in Runs, FinishRun(r) PROVE LoopTypeOK'
  <2>1. cur[r].state \in Events BY <1>19 DEF ListedInv, ListedAt, FinishRun, Events
  <2>2. watch' \in [Watchers -> Stream]
    BY <1>19, <2>1, SendType DEF LoopTypeOK, FinishRun
  <2>3. file' \in [Runs -> Run] BY <1>19 DEF LoopTypeOK, FinishRun, Saved
  <2>4. pc' \in [Runs -> Places] BY <1>19 DEF LoopTypeOK, FinishRun, AfterFinish, Places
  <2> QED BY <1>19, <2>2, <2>3, <2>4 DEF LoopTypeOK, FinishRun
<1>20. CASE UNCHANGED loopVars
  BY <1>20 DEF LoopTypeOK, loopVars
<1> QED
  BY <1>1, <1>2, <1>3, <1>4, <1>5, <1>6, <1>7, <1>8, <1>9, <1>10, <1>11, <1>12, <1>13,
     <1>14, <1>15, <1>16, <1>17, <1>18, <1>19, <1>20 DEF LoopNext, Task

-----------------------------------------------------------------------------
(* Who touches what                                                         *)

(* The requests that leave every task and the map alone.                    *)
Outside ==
  \/ \E r \in Runs : StopRun(r)
  \/ \E w \in Watchers : Receive(w) \/ \E r \in Runs : Subscribe(w, r)
  \/ \E s \in Sessions : SetGoal(s) \/ Revoke(s) \/ Restore(s)
  \/ UNCHANGED loopVars

(* What happens outside the tasks changes no entry and no task.             *)
LEMMA OutsideKeeps == Outside => UNCHANGED <<entry, cur, pc, turn>>
BY DEF Outside, StopRun, Receive, Subscribe, SetGoal, Revoke, Restore, loopTaskVars, loopVars

(* A task changes its own run only, no token and no account.                *)
LEMMA TaskLocal ==
  ASSUME LoopTypeOK, NEW r \in Runs, Task(r), NEW q \in Runs, q # r
  PROVE  /\ pc'[q] = pc[q] /\ cur'[q] = cur[q] /\ entry'[q] = entry[q]
         /\ turn'[q] = turn[q] /\ late'[q] = late[q]
<1> USE DEF LoopTypeOK, Go, End
<1>1. CASE Check(r) BY <1>1 DEF Check
<1>2. CASE CheckAuthority(r) BY <1>2 DEF CheckAuthority
<1>3. CASE BeginTurn(r) BY <1>3 DEF BeginTurn
<1>4. CASE TurnOk(r) BY <1>4 DEF TurnOk
<1>5. CASE TurnErr(r) BY <1>5 DEF TurnErr
<1>6. CASE Record(r) BY <1>6 DEF Record, Recorded
<1>7. CASE Publish(r) BY <1>7 DEF Publish
<1>8. CASE CoolDown(r) BY <1>8 DEF CoolDown
<1>9. CASE Mark(r) BY <1>9 DEF Mark, Recorded
<1>10. CASE FinishRun(r) BY <1>10 DEF FinishRun
<1> QED BY <1>1, <1>2, <1>3, <1>4, <1>5, <1>6, <1>7, <1>8, <1>9, <1>10 DEF Task

(* A task changes neither a cancel token nor a goal nor an account.         *)
LEMMA TaskKeeps ==
  ASSUME NEW r \in Runs, Task(r)
  PROVE  UNCHANGED <<cancel, goal, authorized, runGoal>>
BY DEF Task, Check, CheckAuthority, BeginTurn, TurnOk, TurnErr, Record, Publish, CoolDown,
       Mark, FinishRun, sessVars

(* The kinds of steps.                                                      *)
LEMMA StepKinds ==
  ASSUME [LoopNext]_loopVars
  PROVE  \/ Outside
         \/ \E r \in Runs : Task(r) \/ Admit(r) \/ Refuse(r) \/ \E g \in Goals : Request(r, g)
BY Zenon DEF LoopNext, Outside

-----------------------------------------------------------------------------
(* The map and the tasks                                                    *)

(* An admitted run ends no other: its siblings were not running.            *)
LEMMA AdmitFacts ==
  ASSUME LoopTypeOK, ListedInv, NEW r \in Runs, Admit(r), NEW q \in Runs, q # r
  PROVE  /\ pc'[q] = pc[q] /\ cur'[q] = cur[q] /\ turn'[q] = turn[q]
         /\ entry'[q] = entry[q] \/ entry'[q] = AbsentRun
         /\ pc[q] \in Working => entry'[q] = entry[q] /\ q \notin Siblings(r)
<1>1. pc'[q] = pc[q] /\ cur'[q] = cur[q] /\ turn'[q] = turn[q]
  BY DEF LoopTypeOK, Admit
<1>2. entry'[q] = IF q \in Siblings(r) THEN AbsentRun ELSE entry[q]
  BY DEF Admit
<1>3. pc[q] \in Working => q \notin Siblings(r)
  BY DEF ListedInv, ListedAt, Admit, Admissible
<1> QED BY <1>1, <1>2, <1>3

(* Every step keeps a run listed where its task stands.                     *)
LEMMA ListedStep ==
  ASSUME LoopTypeOK, ListedInv, [LoopNext]_loopVars
  PROVE  ListedInv'
<1>1. CASE Outside
  BY <1>1, OutsideKeeps DEF ListedInv, ListedAt
<1>2. ASSUME NEW r \in Runs, NEW g \in Goals, Request(r, g) PROVE ListedInv'
  BY <1>2 DEF Request, ListedInv, ListedAt, LoopTypeOK, Working
<1>3. ASSUME NEW r \in Runs, Refuse(r) PROVE ListedInv'
  BY <1>3 DEF Refuse, ListedInv, ListedAt, LoopTypeOK, Working
<1>4. ASSUME NEW r \in Runs, Admit(r) PROVE ListedInv'
  <2> SUFFICES ASSUME NEW q \in Runs PROVE ListedAt(q)'
    BY DEF ListedInv
  <2>1. CASE q = r
    BY <1>4, <2>1 DEF Admit, ListedAt, LoopTypeOK, Working, FreshRun
  <2>2. CASE q # r
    <3>1. ListedAt(q) BY DEF ListedInv
    <3> QED BY <1>4, <2>2, <3>1, AdmitFacts DEF ListedAt, AbsentRun
  <2> QED BY <2>1, <2>2
<1>5. ASSUME NEW r \in Runs, Task(r) PROVE ListedInv'
  <2>1. ASSUME NEW q \in Runs, q # r PROVE ListedAt(q)'
    BY <1>5, <2>1, TaskLocal DEF ListedInv, ListedAt
  <2>2. ListedAt(r)'
    <3>0. ListedAt(r) /\ cur[r] \in Run /\ entry[r] \in Run BY DEF ListedInv, LoopTypeOK
    <3> USE <3>0 DEF ListedAt, LoopTypeOK, Working, Ended
    <3>1. CASE Check(r) BY <3>1 DEF Check, Go, End, Run
    <3>2. CASE CheckAuthority(r) BY <3>2 DEF CheckAuthority, Go, End, Run
    <3>3. CASE BeginTurn(r) BY <3>3 DEF BeginTurn, Go, End, Run
    <3>4. CASE TurnOk(r)
      <4>1. PICK tokens \in 0..TurnTokens, web \in {"failed", "paused", "fine"} :
              \/ End(r, Succeeded(cur[r], tokens, web), "done")
              \/ Go(r, Succeeded(cur[r], tokens, web), "record")
        BY <3>4, Zenon DEF TurnOk
      <4>2. Succeeded(cur[r], tokens, web) \in Run BY TurnTypes
      <4>3. Succeeded(cur[r], tokens, web).state = cur[r].state BY DEF Succeeded, Run
      <4>4. entry' = entry /\ pc[r] = "calling" BY <3>4 DEF TurnOk
      <4> QED BY <4>1, <4>2, <4>3, <4>4 DEF Go, End, Run
    <3>5. CASE TurnErr(r)
      <4>1. PICK tokens \in 0..TurnTokens :
              \/ End(r, Failed(cur[r], tokens), "failed")
              \/ Go(r, Failed(cur[r], tokens), "record")
        BY <3>5, Zenon DEF TurnErr
      <4>2. Failed(cur[r], tokens) \in Run BY TurnTypes
      <4>3. Failed(cur[r], tokens).state = cur[r].state BY DEF Failed, Run
      <4>4. entry' = entry /\ pc[r] = "calling" BY <3>5 DEF TurnErr
      <4> QED BY <4>1, <4>2, <4>3, <4>4 DEF Go, End, Run
    <3>6. CASE Record(r) BY <3>6 DEF Record, Recorded
    <3>7. CASE Publish(r) BY <3>7 DEF Publish
    <3>8. CASE CoolDown(r) BY <3>8 DEF CoolDown, Go, End, Run
    <3>9. CASE Mark(r) BY <3>9 DEF Mark, Recorded
    <3>10. CASE FinishRun(r) BY <3>10 DEF FinishRun, AfterFinish
    <3> QED BY <1>5, <3>1, <3>2, <3>3, <3>4, <3>5, <3>6, <3>7, <3>8, <3>9, <3>10 DEF Task
  <2> QED BY <2>1, <2>2 DEF ListedInv
<1> QED BY <1>1, <1>2, <1>3, <1>4, <1>5, StepKinds

(* A step of a task starts no second one; an admission has the map's word.  *)
LEMMA OneTaskStep ==
  ASSUME LoopTypeOK, ListedInv, OneTaskPerSession, [LoopNext]_loopVars
  PROVE  OneTaskPerSession'
<1>1. CASE Outside
  BY <1>1, OutsideKeeps DEF OneTaskPerSession
<1>2. ASSUME NEW r \in Runs, NEW g \in Goals, Request(r, g) PROVE OneTaskPerSession'
  BY <1>2 DEF Request, OneTaskPerSession, LoopTypeOK, Working
<1>3. ASSUME NEW r \in Runs, Refuse(r) PROVE OneTaskPerSession'
  BY <1>3 DEF Refuse, OneTaskPerSession, LoopTypeOK, Working
<1>4. ASSUME NEW r \in Runs, Admit(r) PROVE OneTaskPerSession'
  <2>1. \A q \in Runs : q # r /\ pc[q] \in Working => SessionOf[q] # SessionOf[r]
    BY <1>4, AdmitFacts DEF Siblings
  <2>2. \A q \in Runs : q # r => pc'[q] = pc[q] BY <1>4, AdmitFacts
  <2> QED BY <2>1, <2>2 DEF OneTaskPerSession
<1>5. ASSUME NEW r \in Runs, Task(r) PROVE OneTaskPerSession'
  <2>1. \A q \in Runs : q # r => pc'[q] = pc[q] BY <1>5, TaskLocal
  <2>2. pc'[r] \in Working => pc[r] \in Working
    BY <1>5 DEF Task, Check, CheckAuthority, BeginTurn, TurnOk, TurnErr, Record, Publish,
                CoolDown, Mark, FinishRun, AfterFinish, Working, LoopTypeOK
  <2> QED BY <2>1, <2>2 DEF OneTaskPerSession
<1> QED BY <1>1, <1>2, <1>3, <1>4, <1>5, StepKinds

-----------------------------------------------------------------------------
(* Stop and revocation                                                      *)

LEMMA LateStep ==
  ASSUME LoopTypeOK, LateInv, [LoopNext]_loopVars
  PROVE  LateInv'
<1>1. CASE Outside
  <2> SUFFICES ASSUME NEW q \in Runs PROVE LateAt(q)'
    BY DEF LateInv
  <2>0. LateAt(q) /\ pc' = pc BY <1>1, OutsideKeeps DEF LateInv
  <2>1. ASSUME NEW r \in Runs, StopRun(r) PROVE LateAt(q)'
    BY <2>0, <2>1 DEF StopRun, LateAt, loopTaskVars, sessVars
  <2>2. ASSUME NEW s \in Sessions, Revoke(s) PROVE LateAt(q)'
    BY <2>0, <2>2 DEF Revoke, LateAt, loopTaskVars
  <2>3. ASSUME NEW s \in Sessions, Restore(s) PROVE LateAt(q)'
    <3>1. CASE SessionOf[q] = s
      <4>1. late'[q] = [late[q] EXCEPT !.auth = 0] BY <2>3, <3>1 DEF Restore
      <4>2. late'[q].auth = 0 /\ late'[q].stop = late[q].stop BY <4>1 DEF LoopTypeOK
      <4> QED BY <2>0, <2>3, <4>2 DEF Restore, LateAt
    <3>2. CASE SessionOf[q] # s
      <4>1. late'[q] = late[q] BY <2>3, <3>2 DEF Restore
      <4> QED BY <2>0, <2>3, <3>2, <4>1 DEF Restore, LateAt
    <3> QED BY <3>1, <3>2
  <2>4. ASSUME NEW w \in Watchers, Receive(w) \/ \E r \in Runs : Subscribe(w, r)
        PROVE  LateAt(q)'
    BY <2>0, <2>4 DEF Receive, Subscribe, LateAt, loopTaskVars, sessVars
  <2>5. ASSUME NEW s \in Sessions, SetGoal(s) PROVE LateAt(q)'
    BY <2>0, <2>5 DEF SetGoal, LateAt, loopTaskVars
  <2>6. CASE UNCHANGED loopVars
    BY <2>0, <2>6 DEF LateAt, loopVars, loopTaskVars, sessVars
  <2> QED BY <1>1, <2>1, <2>2, <2>3, <2>4, <2>5, <2>6 DEF Outside
<1>2. ASSUME NEW r \in Runs, NEW g \in Goals, Request(r, g) PROVE LateInv'
  BY <1>2 DEF Request, LateInv, LateAt, LoopTypeOK
<1>3. ASSUME NEW r \in Runs, Refuse(r) PROVE LateInv'
  BY <1>3 DEF Refuse, LateInv, LateAt, LoopTypeOK, sessVars
<1>4. ASSUME NEW r \in Runs, Admit(r) PROVE LateInv'
  BY <1>4 DEF Admit, LateInv, LateAt, LoopTypeOK, sessVars
<1>5. ASSUME NEW r \in Runs, Task(r) PROVE LateInv'
  <2>1. ASSUME NEW q \in Runs, q # r PROVE LateAt(q)'
    BY <1>5, <2>1, TaskLocal, TaskKeeps DEF LateInv, LateAt
  <2>2. LateAt(r)'
    <3>0. LateAt(r) /\ UNCHANGED <<cancel, authorized>> BY <1>5, TaskKeeps DEF LateInv
    <3>1. CASE Check(r) BY <3>0, <3>1 DEF Check, Go, End, StopSeen, LateAt, LoopTypeOK
    <3>2. CASE CheckAuthority(r)
      BY <3>0, <3>2 DEF CheckAuthority, HasAuthority, Go, End, LateAt, LoopTypeOK
    <3>3. CASE BeginTurn(r)
      <4>0. late[r] \in [stop : Nat, auth : Nat] BY DEF LoopTypeOK
      <4>1. late[r].stop = 0 /\ late[r].auth = 0 BY <3>0, <3>3, <4>0 DEF BeginTurn, LateAt
      <4>2. pc'[r] \in {"calling", "mark"} BY <3>3 DEF BeginTurn, Go, End, LoopTypeOK
      <4>3. late'[r] = late[r] \/ late'[r] = Late(r) BY <3>3 DEF BeginTurn, LoopTypeOK
      <4>4. /\ Late(r).stop = IF r \in cancel THEN 1 ELSE 0
            /\ Late(r).auth = IF SessionOf[r] \in authorized THEN 0 ELSE 1
        BY <4>1 DEF Late
      <4> QED BY <3>0, <4>1, <4>2, <4>3, <4>4 DEF LateAt
    <3>4. CASE TurnOk(r) BY <3>0, <3>4 DEF TurnOk, Go, End, LateAt, LoopTypeOK
    <3>5. CASE TurnErr(r) BY <3>0, <3>5 DEF TurnErr, Go, End, LateAt, LoopTypeOK
    <3>6. CASE Record(r) BY <3>0, <3>6 DEF Record, LateAt, LoopTypeOK
    <3>7. CASE Publish(r) BY <3>0, <3>7 DEF Publish, LateAt, LoopTypeOK
    <3>8. CASE CoolDown(r) BY <3>0, <3>8 DEF CoolDown, Go, End, LateAt, LoopTypeOK
    <3>9. CASE Mark(r) BY <3>0, <3>9 DEF Mark, LateAt, LoopTypeOK
    <3>10. CASE FinishRun(r) BY <3>0, <3>10 DEF FinishRun, AfterFinish, LateAt, LoopTypeOK
    <3> QED BY <1>5, <3>1, <3>2, <3>3, <3>4, <3>5, <3>6, <3>7, <3>8, <3>9, <3>10 DEF Task
  <2> QED BY <2>1, <2>2 DEF LateInv
<1> QED BY <1>1, <1>2, <1>3, <1>4, <1>5, StepKinds

-----------------------------------------------------------------------------
(* Attempts                                                                 *)

LEMMA AttemptStep ==
  ASSUME LoopTypeOK, ListedInv, AttemptInv, [LoopNext]_loopVars
  PROVE  AttemptInv'
<1> SUFFICES ASSUME MaxTurns > 0 PROVE \A q \in Runs : AttemptAt(q)'
  BY DEF AttemptInv
<1>0. \A q \in Runs : AttemptAt(q) BY DEF AttemptInv
<1> DEFINE MF == MaxTurns * MaxFailures
<1>m. MF \in Nat /\ MaxFailures \in Nat \ {0} /\ MaxTurns \in Nat BY LimitsAssumption
<1>1. CASE Outside
  BY <1>0, <1>1, OutsideKeeps DEF AttemptAt
<1>2. ASSUME NEW r \in Runs, NEW g \in Goals, Request(r, g) PROVE \A q \in Runs : AttemptAt(q)'
  BY <1>0, <1>2 DEF Request, AttemptAt, LoopTypeOK
<1>3. ASSUME NEW r \in Runs, Refuse(r) PROVE \A q \in Runs : AttemptAt(q)'
  <2>1. turn[r] = 0 BY <1>0, <1>3 DEF Refuse, AttemptAt
  <2>2. 0 <= MaxTurns * MaxFailures BY <1>m
  <2> QED BY <1>0, <1>3, <2>1, <2>2 DEF Refuse, AttemptAt, LoopTypeOK
<1>4. ASSUME NEW r \in Runs, Admit(r) PROVE \A q \in Runs : AttemptAt(q)'
  <2>1. ASSUME NEW q \in Runs, q # r PROVE AttemptAt(q)'
    <3>1. pc[q] \in {"check", "publish", "cooldown"} => entry'[q] = entry[q]
      BY <1>4, <2>1, AdmitFacts DEF Working
    <3> QED BY <1>0, <1>4, <2>1, <3>1, AdmitFacts DEF AttemptAt
  <2>2. AttemptAt(r)'
    <3>1. turn'[r] = 0 /\ entry'[r] = FreshRun /\ pc'[r] = "check"
      BY <1>0, <1>4 DEF Admit, AttemptAt, LoopTypeOK
    <3>2. Spent(FreshRun) = 0 * MaxFailures + 0 BY DEF Spent, FreshRun
    <3>3. 0 <= Spent(FreshRun) BY <1>m, <3>2
    <3>4. Within(FreshRun, 0) BY <1>m, <3>3 DEF Within, FreshRun
    <3> QED BY <3>1, <3>4 DEF AttemptAt
  <2> QED BY <2>1, <2>2
<1>5. ASSUME NEW r \in Runs, Task(r) PROVE \A q \in Runs : AttemptAt(q)'
  <2>1. ASSUME NEW q \in Runs, q # r PROVE AttemptAt(q)'
    BY <1>0, <1>5, <2>1, TaskLocal DEF AttemptAt
  <2>2. AttemptAt(r)'
    <3>0. /\ AttemptAt(r) /\ ListedAt(r) /\ cur[r] \in Run /\ entry[r] \in Run
          /\ turn[r] \in Nat
      BY <1>0 DEF ListedInv, LoopTypeOK
    <3>1. CASE Check(r)
      <4>1. Within(entry[r], turn[r]) BY <3>0, <3>1 DEF Check, AttemptAt
      <4>2. turn'[r] = turn[r] BY <3>1 DEF Check
      <4>3. CASE Go(r, entry[r], "authority")
        <5>1. cur'[r] = entry[r] /\ pc'[r] = "authority" BY <4>3 DEF Go, LoopTypeOK
        <5>2. ~TurnsSpent(entry[r]) BY <3>1, <5>1 DEF Check, End, LoopTypeOK
        <5>3. entry[r].turns < MaxTurns
          BY <1>m, <3>0, <5>2 DEF TurnsSpent, Run
        <5> QED BY <4>1, <4>2, <5>1, <5>3 DEF AttemptAt
      <4>4. CASE \E state \in Ended : End(r, entry[r], state)
        <5>1. turn[r] <= MF BY <3>0, <4>1, SpentFull
        <5>2. pc'[r] = "mark" BY <4>4 DEF End, LoopTypeOK
        <5> QED BY <4>2, <5>1, <5>2 DEF AttemptAt
      <4> QED BY <3>1, <4>3, <4>4 DEF Check, Ended
    <3>2. CASE CheckAuthority(r)
      <4>1. Within(cur[r], turn[r]) /\ cur[r].turns < MaxTurns
        BY <3>0, <3>2 DEF CheckAuthority, AttemptAt
      <4>2. turn[r] <= MF BY <3>0, <4>1, SpentFull
      <4>3. turn'[r] = turn[r] BY <3>2 DEF CheckAuthority
      <4>4. \/ pc'[r] = "goal" /\ cur'[r] = cur[r]
            \/ pc'[r] = "mark"
        BY <3>2 DEF CheckAuthority, Go, End, LoopTypeOK
      <4> QED BY <4>1, <4>2, <4>3, <4>4 DEF AttemptAt
    <3>3. CASE BeginTurn(r)
      <4>1. Within(cur[r], turn[r]) /\ cur[r].turns < MaxTurns
        BY <3>0, <3>3 DEF BeginTurn, AttemptAt
      <4>2. Spent(cur[r]) + 1 <= MF /\ Spent(cur[r]) \in Nat
        BY <3>0, <4>1, SpentBound DEF Within
      <4>3. turn'[r] = turn[r] + 1 BY <3>3 DEF BeginTurn, LoopTypeOK
      <4>4. turn'[r] <= Spent(cur[r]) + 1 BY <3>0, <4>1, <4>2, <4>3 DEF Within
      <4>5. turn'[r] <= MF BY <1>m, <3>0, <4>2, <4>3, <4>4
      <4>6. \/ pc'[r] = "calling" /\ cur'[r] = cur[r]
            \/ pc'[r] = "mark"
        BY <3>3 DEF BeginTurn, Go, End, LoopTypeOK
      <4>7. cur[r].fails < MaxFailures BY <4>1 DEF Within
      <4> QED BY <4>1, <4>4, <4>5, <4>6, <4>7 DEF AttemptAt
    <3>4. CASE TurnOk(r)
      <4>1. PICK tokens \in 0..TurnTokens, web \in {"failed", "paused", "fine"} :
              \/ End(r, Succeeded(cur[r], tokens, web), "done")
              \/ Go(r, Succeeded(cur[r], tokens, web), "record")
        BY <3>4, Zenon DEF TurnOk
      <4> DEFINE run == Succeeded(cur[r], tokens, web)
      <4>2. /\ turn[r] <= Spent(cur[r]) + 1 /\ cur[r].turns < MaxTurns
            /\ cur[r].fails < MaxFailures
        BY <3>0, <3>4 DEF TurnOk, AttemptAt
      <4>3. run \in Run BY <3>0, TurnTypes
      <4>4. run.turns = cur[r].turns + 1 /\ run.fails = 0 BY <3>0 DEF Succeeded, Run
      <4>5. tokens \in Nat BY LimitsAssumption
      <4>6. Spent(cur[r]) + 1 <= Spent(run) /\ Spent(cur[r]) \in Nat
        BY <3>0, <4>2, <4>5, SpentSuccess
      <4>7. Spent(run) \in Nat
        <5>1. run.turns \in Nat /\ run.fails \in Nat BY <4>3 DEF Run
        <5>2. run.turns * MaxFailures \in Nat BY <5>1, <1>m
        <5> QED BY <5>1, <5>2 DEF Spent
      <4>8. turn[r] <= Spent(run) BY <3>0, <4>2, <4>6, <4>7
      <4>9. cur[r].turns \in Nat BY <3>0 DEF Run
      <4>10. run.turns < MaxTurns \/ run.turns = MaxTurns BY <1>m, <4>2, <4>4, <4>9
      <4>11. 0 < MaxFailures BY <1>m
      <4> HIDE DEF run
      <4>12. Within(run, turn[r]) BY <4>4, <4>8, <4>10, <4>11 DEF Within
      <4>13. turn[r] <= MF BY <3>0, <4>3, <4>12, SpentFull
      <4>14. turn'[r] = turn[r] BY <3>4 DEF TurnOk
      <4>15. \/ pc'[r] = "record" /\ cur'[r] = run
             \/ pc'[r] = "mark"
        BY <4>1 DEF Go, End, LoopTypeOK, run
      <4> QED BY <4>12, <4>13, <4>14, <4>15 DEF AttemptAt
    <3>5. CASE TurnErr(r)
      <4>1. PICK tokens \in 0..TurnTokens :
              \/ End(r, Failed(cur[r], tokens), "failed")
              \/ /\ Failed(cur[r], tokens).fails < MaxFailures
                 /\ Go(r, Failed(cur[r], tokens), "record")
        BY <3>5, Zenon DEF TurnErr
      <4> DEFINE run == Failed(cur[r], tokens)
      <4>2. /\ turn[r] <= Spent(cur[r]) + 1 /\ cur[r].turns < MaxTurns
            /\ cur[r].fails < MaxFailures
        BY <3>0, <3>5 DEF TurnErr, AttemptAt
      <4>3. run \in Run BY <3>0, TurnTypes
      <4>4. run.turns = cur[r].turns BY <3>0 DEF Failed, Run
      <4>5. tokens \in Nat BY LimitsAssumption
      <4>6. Spent(run) = Spent(cur[r]) + 1 BY <3>0, <4>5, SpentFailure
      <4>7. Spent(cur[r]) + 1 <= MF /\ Spent(cur[r]) \in Nat BY <3>0, <4>2, SpentBound
      <4>8. turn[r] <= MF BY <1>m, <3>0, <4>2, <4>7
      <4> HIDE DEF run
      <4>9. run.fails < MaxFailures => Within(run, turn[r])
        BY <4>2, <4>4, <4>6 DEF Within
      <4>10. turn'[r] = turn[r] BY <3>5 DEF TurnErr
      <4>11. \/ pc'[r] = "record" /\ cur'[r] = run /\ run.fails < MaxFailures
             \/ pc'[r] = "mark"
        BY <4>1 DEF Go, End, LoopTypeOK, run
      <4> QED BY <4>8, <4>9, <4>10, <4>11 DEF AttemptAt
    <3>6. CASE Record(r)
      <4>1. entry'[r] = cur[r]
        BY <3>0, <3>6 DEF Record, Recorded, ListedAt, Working, LoopTypeOK
      <4>2. pc'[r] = "publish" /\ turn'[r] = turn[r] BY <3>6 DEF Record, LoopTypeOK
      <4>3. Within(cur[r], turn[r]) BY <3>0, <3>6 DEF Record, AttemptAt
      <4> QED BY <4>1, <4>2, <4>3 DEF AttemptAt
    <3>7. CASE Publish(r)
      <4>1. Within(entry[r], turn[r]) BY <3>0, <3>7 DEF Publish, AttemptAt
      <4>2. pc'[r] \in {"cooldown", "check"} /\ turn'[r] = turn[r] /\ entry'[r] = entry[r]
        BY <3>7 DEF Publish, LoopTypeOK
      <4> QED BY <4>1, <4>2 DEF AttemptAt
    <3>8. CASE CoolDown(r)
      <4>1. Within(entry[r], turn[r]) BY <3>0, <3>8 DEF CoolDown, AttemptAt
      <4>2. turn[r] <= MF BY <3>0, <4>1, SpentFull
      <4>3. pc'[r] \in {"mark", "check"} /\ turn'[r] = turn[r] /\ entry'[r] = entry[r]
        BY <3>8 DEF CoolDown, Go, End, LoopTypeOK
      <4> QED BY <4>1, <4>2, <4>3 DEF AttemptAt
    <3>9. CASE Mark(r) BY <3>0, <3>9 DEF Mark, AttemptAt, LoopTypeOK
    <3>10. CASE FinishRun(r) BY <3>0, <3>10 DEF FinishRun, AfterFinish, AttemptAt, LoopTypeOK
    <3> QED BY <1>5, <3>1, <3>2, <3>3, <3>4, <3>5, <3>6, <3>7, <3>8, <3>9, <3>10 DEF Task
  <2> QED BY <2>1, <2>2
<1> QED BY <1>1, <1>2, <1>3, <1>4, <1>5, StepKinds

-----------------------------------------------------------------------------
(* Tokens                                                                   *)

LEMMA TokenStep ==
  ASSUME LoopTypeOK, ListedInv, TokenInv, [LoopNext]_loopVars
  PROVE  TokenInv'
<1> SUFFICES ASSUME MaxTokens > 0 PROVE \A q \in Runs : TokenAt(q)'
  BY DEF TokenInv
<1>0. \A q \in Runs : TokenAt(q) BY DEF TokenInv
<1>m. MaxTokens \in Nat /\ TurnTokens \in Nat /\ 0 < MaxTokens + TurnTokens
  BY LimitsAssumption
<1>1. CASE Outside
  BY <1>0, <1>1, OutsideKeeps DEF TokenAt
<1>2. ASSUME NEW r \in Runs, NEW g \in Goals, Request(r, g) PROVE \A q \in Runs : TokenAt(q)'
  BY <1>0, <1>2 DEF Request, TokenAt, LoopTypeOK
<1>3. ASSUME NEW r \in Runs, Refuse(r) PROVE \A q \in Runs : TokenAt(q)'
  BY <1>0, <1>3 DEF Refuse, TokenAt, LoopTypeOK
<1>4. ASSUME NEW r \in Runs, Admit(r) PROVE \A q \in Runs : TokenAt(q)'
  <2>1. ASSUME NEW q \in Runs, q # r PROVE TokenAt(q)'
    BY <1>0, <1>4, <1>m, <2>1, AdmitFacts DEF TokenAt, AbsentRun
  <2>2. entry'[r] = FreshRun /\ cur'[r] = cur[r] /\ pc'[r] = "check"
    BY <1>4 DEF Admit, LoopTypeOK
  <2>3. TokenAt(r)' BY <1>0, <1>m, <2>2 DEF TokenAt, FreshRun
  <2> QED BY <2>1, <2>3
<1>5. ASSUME NEW r \in Runs, Task(r) PROVE \A q \in Runs : TokenAt(q)'
  <2>1. ASSUME NEW q \in Runs, q # r PROVE TokenAt(q)'
    BY <1>0, <1>5, <2>1, TaskLocal DEF TokenAt
  <2>2. TokenAt(r)'
    <3>0. TokenAt(r) /\ cur[r] \in Run /\ entry[r] \in Run BY <1>0 DEF LoopTypeOK
    <3>t. cur[r].tokens \in Nat /\ entry[r].tokens \in Nat BY <3>0 DEF Run
    <3>1. CASE Check(r)
      <4>1. entry'[r] = entry[r] BY <3>1 DEF Check
      <4>2. CASE Go(r, entry[r], "authority")
        <5>1. cur'[r] = entry[r] /\ pc'[r] = "authority" BY <4>2 DEF Go, LoopTypeOK
        <5>2. ~TokensSpent(entry[r]) BY <3>1, <5>1 DEF Check, End, LoopTypeOK
        <5>3. entry[r].tokens < MaxTokens BY <1>m, <3>t, <5>2 DEF TokensSpent
        <5> QED BY <3>0, <4>1, <5>1, <5>3 DEF TokenAt
      <4>3. CASE \E state \in Ended : End(r, entry[r], state)
        <5>1. cur'[r].tokens = entry[r].tokens /\ pc'[r] = "mark"
          BY <3>0, <4>3 DEF End, LoopTypeOK, Run
        <5> QED BY <3>0, <4>1, <5>1 DEF TokenAt
      <4> QED BY <3>1, <4>2, <4>3 DEF Check, Ended
    <3>2. CASE CheckAuthority(r)
      <4>1. entry'[r] = entry[r] /\ pc[r] = "authority" BY <3>2 DEF CheckAuthority
      <4>2. cur'[r].tokens = cur[r].tokens BY <3>0, <3>2 DEF CheckAuthority, Go, End, LoopTypeOK, Run
      <4> QED BY <3>0, <4>1, <4>2 DEF TokenAt
    <3>3. CASE BeginTurn(r)
      <4>1. entry'[r] = entry[r] /\ pc[r] = "goal" BY <3>3 DEF BeginTurn
      <4>2. cur'[r].tokens = cur[r].tokens BY <3>0, <3>3 DEF BeginTurn, Go, End, LoopTypeOK, Run
      <4> QED BY <3>0, <4>1, <4>2 DEF TokenAt
    <3>4. CASE TurnOk(r)
      <4>1. PICK tokens \in 0..TurnTokens, web \in {"failed", "paused", "fine"} :
              \/ End(r, Succeeded(cur[r], tokens, web), "done")
              \/ Go(r, Succeeded(cur[r], tokens, web), "record")
        BY <3>4, Zenon DEF TurnOk
      <4> DEFINE run == Succeeded(cur[r], tokens, web)
      <4>2. run \in Run BY <3>0, TurnTypes
      <4>3. run.tokens = cur[r].tokens + tokens BY <3>0 DEF Succeeded, Run
      <4>4. cur[r].tokens < MaxTokens BY <3>0, <3>4 DEF TurnOk, TokenAt
      <4>5. run.tokens < MaxTokens + TurnTokens BY <1>m, <3>t, <4>3, <4>4
      <4> HIDE DEF run
      <4>6. cur'[r].tokens = run.tokens /\ pc'[r] \in {"record", "mark"}
        <5>1. End(r, run, "done") \/ Go(r, run, "record") BY <4>1 DEF run
        <5> QED BY <4>2, <5>1 DEF Go, End, LoopTypeOK, Run
      <4>7. entry'[r] = entry[r] BY <3>4 DEF TurnOk
      <4> QED BY <3>0, <4>5, <4>6, <4>7 DEF TokenAt
    <3>5. CASE TurnErr(r)
      <4>1. PICK tokens \in 0..TurnTokens :
              \/ End(r, Failed(cur[r], tokens), "failed")
              \/ Go(r, Failed(cur[r], tokens), "record")
        BY <3>5, Zenon DEF TurnErr
      <4> DEFINE run == Failed(cur[r], tokens)
      <4>2. run \in Run BY <3>0, TurnTypes
      <4>3. run.tokens = cur[r].tokens + tokens BY <3>0 DEF Failed, Run
      <4>4. cur[r].tokens < MaxTokens BY <3>0, <3>5 DEF TurnErr, TokenAt
      <4>5. run.tokens < MaxTokens + TurnTokens BY <1>m, <3>t, <4>3, <4>4
      <4> HIDE DEF run
      <4>6. cur'[r].tokens = run.tokens /\ pc'[r] \in {"record", "mark"}
        <5>1. End(r, run, "failed") \/ Go(r, run, "record") BY <4>1 DEF run
        <5> QED BY <4>2, <5>1 DEF Go, End, LoopTypeOK, Run
      <4>7. entry'[r] = entry[r] BY <3>5 DEF TurnErr
      <4> QED BY <3>0, <4>5, <4>6, <4>7 DEF TokenAt
    <3>6. CASE Record(r)
      BY <3>0, <3>6 DEF Record, Recorded, TokenAt, LoopTypeOK
    <3>7. CASE Publish(r)
      BY <3>0, <3>7 DEF Publish, TokenAt, LoopTypeOK
    <3>8. CASE CoolDown(r)
      <4>1. entry'[r] = entry[r] /\ pc'[r] \in {"mark", "check"}
        BY <3>8 DEF CoolDown, Go, End, LoopTypeOK
      <4>2. cur'[r].tokens = cur[r].tokens BY <3>0, <3>8 DEF CoolDown, Go, End, LoopTypeOK, Run
      <4> QED BY <3>0, <4>1, <4>2 DEF TokenAt
    <3>9. CASE Mark(r) BY <3>0, <3>9 DEF Mark, Recorded, TokenAt, LoopTypeOK
    <3>10. CASE FinishRun(r) BY <3>0, <3>10 DEF FinishRun, AfterFinish, TokenAt, LoopTypeOK
    <3> QED BY <1>5, <3>1, <3>2, <3>3, <3>4, <3>5, <3>6, <3>7, <3>8, <3>9, <3>10 DEF Task
  <2> QED BY <2>1, <2>2
<1> QED BY <1>1, <1>2, <1>3, <1>4, <1>5, StepKinds

-----------------------------------------------------------------------------
(* Event streams                                                            *)

LEMMA StreamStep ==
  ASSUME LoopTypeOK, ListedInv, StreamInv, [LoopNext]_loopVars
  PROVE  StreamInv'
<1> SUFFICES ASSUME NEW w \in Watchers, NEW r \in Runs PROVE StreamAt(w, r)'
  BY DEF StreamInv
<1>0. StreamAt(w, r) BY DEF StreamInv
<1>t. watch[w] \in Stream /\ watch[w].queue \in Seq(Events) BY DEF LoopTypeOK, Stream
<1>1. CASE UNCHANGED loopVars
  BY <1>0, <1>1 DEF StreamAt, loopVars, loopTaskVars
<1>2. ASSUME NEW s \in Sessions, SetGoal(s) \/ Revoke(s) \/ Restore(s) PROVE StreamAt(w, r)'
  BY <1>0, <1>2 DEF StreamAt, SetGoal, Revoke, Restore, loopTaskVars
<1>3. ASSUME NEW q \in Runs, StopRun(q) PROVE StreamAt(w, r)'
  BY <1>0, <1>3 DEF StreamAt, StopRun, loopTaskVars
<1>4. ASSUME NEW v \in Watchers, NEW q \in Runs, Subscribe(v, q) PROVE StreamAt(w, r)'
  <2>1. pc' = pc /\ entry' = entry BY <1>4 DEF Subscribe, loopTaskVars
  <2>2. CASE v # w
    <3>1. watch'[w] = watch[w] BY <1>4, <2>2 DEF Subscribe, LoopTypeOK
    <3> QED BY <1>0, <2>1, <3>1 DEF StreamAt
  <2>3. CASE v = w
    <3>1. watch'[w] = [run |-> q, queue |-> <<>>, seen |-> Snapshot(q) \in Ended]
      BY <1>4, <2>3 DEF Subscribe, LoopTypeOK
    <3>2. watch'[w].run = q /\ watch'[w].seen = (entry[q].state \in Ended)
      BY <3>1 DEF Snapshot
    <3>3. entry[q].state # "absent" BY <1>4 DEF Subscribe
    <3>4. entry[q].state \in {"absent", "running"} \cup Ended BY DEF LoopTypeOK, Run
    <3>5. ListedAt(q) BY DEF ListedInv
    <3>6. pc[q] \notin {"none", "requested"} BY <3>3, <3>5 DEF ListedAt
    <3>7. pc[q] = "over" => entry[q].state \in Ended BY <3>3, <3>4, <3>5 DEF ListedAt
    <3> QED BY <2>1, <3>2, <3>6, <3>7 DEF StreamAt
  <2> QED BY <2>2, <2>3
<1>5. ASSUME NEW v \in Watchers, Receive(v) PROVE StreamAt(w, r)'
  <2>1. pc' = pc BY <1>5 DEF Receive, loopTaskVars
  <2>2. CASE v # w
    <3>1. watch'[w] = watch[w] BY <1>5, <2>2 DEF Receive, LoopTypeOK
    <3> QED BY <1>0, <2>1, <3>1 DEF StreamAt
  <2>3. CASE v = w
    <3> DEFINE q == watch[w].queue
    <3>1. /\ watch'[w].run = watch[w].run /\ watch'[w].queue = Tail(q)
          /\ watch'[w].seen = (Head(q) \in Ended)
      BY <1>5, <1>t, <2>3 DEF Receive, LoopTypeOK, Stream
    <3>2. q # <<>> /\ ~watch[w].seen BY <1>5, <2>3 DEF Receive
    <3>3. q \in Seq(Events) BY <1>t
    <3> HIDE DEF q
    <3>4. Len(q) = 1 => Head(q) = q[Len(q)] BY <3>2, <3>3
    <3>5. Len(q) # 1 => Tail(q) # <<>> /\ Tail(q)[Len(Tail(q))] = q[Len(q)]
      <4>1. Tail(q) \in Seq(Events) /\ Len(Tail(q)) = Len(q) - 1 /\ Len(q) \in Nat
        BY <3>2, <3>3
      <4>2. \A i \in 1..Len(q)-1 : Tail(q)[i] = q[i+1] BY <3>2, <3>3
      <4>3. Len(q) # 0 BY <3>2, <3>3
      <4>4. Len(q) # 1 => Tail(q) # <<>>
        <5>1. Len(<<>>) = 0 OBVIOUS
        <5>2. Tail(q) = <<>> => Len(Tail(q)) = 0 BY <5>1, Zenon
        <5>3. Len(q) # 1 => Len(Tail(q)) # 0 BY <4>1, <4>3
        <5> QED BY <5>2, <5>3, Zenon
      <4>5. Len(q) # 1 => Tail(q)[Len(q) - 1] = q[Len(q)]
        <5>1. Len(q) # 1 => Len(q) - 1 \in 1..Len(q)-1 /\ Len(q) - 1 + 1 = Len(q)
          BY <4>1, <4>3
        <5> QED BY <4>2, <5>1
      <4> QED BY <4>1, <4>4, <4>5
    <3>6. watch[w].run = r /\ pc[r] = "over" => q[Len(q)] \in Ended
      BY <1>0, <3>2 DEF StreamAt, q
    <3>7. CASE Len(q) = 1
      BY <1>0, <2>1, <3>1, <3>4, <3>6, <3>7 DEF StreamAt
    <3>8. CASE Len(q) # 1
      BY <1>0, <2>1, <3>1, <3>5, <3>6, <3>8 DEF StreamAt
    <3> QED BY <3>7, <3>8
  <2> QED BY <2>2, <2>3
<1>6. ASSUME NEW q \in Runs, NEW g \in Goals, Request(q, g) PROVE StreamAt(w, r)'
  BY <1>0, <1>6 DEF StreamAt, Request, LoopTypeOK
<1>7. ASSUME NEW q \in Runs, Admit(q) PROVE StreamAt(w, r)'
  BY <1>0, <1>7 DEF StreamAt, Admit, LoopTypeOK
<1>8. ASSUME NEW q \in Runs, Refuse(q) PROVE StreamAt(w, r)'
  BY <1>0, <1>8 DEF StreamAt, Refuse, LoopTypeOK
<1>9. ASSUME NEW q \in Runs,
             Check(q) \/ CheckAuthority(q) \/ BeginTurn(q) \/ TurnErr(q) \/ Record(q)
               \/ CoolDown(q) \/ Mark(q)
      PROVE  StreamAt(w, r)'
  <2>1. watch' = watch
    BY <1>9 DEF Check, CheckAuthority, BeginTurn, TurnErr, Record, CoolDown, Mark
  <2>2. r # q => pc'[r] = pc[r]
    BY <1>9, TaskLocal DEF Task
  <2>3. pc'[q] \notin {"none", "requested", "over"}
    BY <1>9 DEF Check, CheckAuthority, BeginTurn, TurnErr, Record, CoolDown, Mark, Go, End, LoopTypeOK
  <2> QED BY <1>0, <2>1, <2>2, <2>3 DEF StreamAt
<1>10. ASSUME NEW q \in Runs, NEW e \in Events, Send(q, e),
              pc'[q] \notin {"none", "requested"}, pc'[q] = "over" => e \in Ended,
              r # q => pc'[r] = pc[r]
       PROVE  StreamAt(w, r)'
  <2>1. CASE watch[w].run = q /\ ~watch[w].seen
    <3>1. watch'[w] = [watch[w] EXCEPT !.queue = Pushed(@, e)] BY <1>10, <2>1 DEF Send
    <3>2. watch'[w].run = q /\ watch'[w].queue = Pushed(watch[w].queue, e)
      BY <1>t, <2>1, <3>1 DEF Stream
    <3>3. /\ watch'[w].queue # <<>>
          /\ watch'[w].queue[Len(watch'[w].queue)] = e
      BY <1>t, <3>2, PushedFacts
    <3> QED BY <1>10, <3>2, <3>3 DEF StreamAt
  <2>2. CASE ~(watch[w].run = q /\ ~watch[w].seen)
    <3>1. watch'[w] = watch[w] BY <1>10, <2>2 DEF Send
    <3> QED BY <1>0, <1>10, <2>2, <3>1 DEF StreamAt
  <2> QED BY <2>1, <2>2
<1>11. ASSUME NEW q \in Runs, TurnOk(q) PROVE StreamAt(w, r)'
  <2>1. pc'[q] \in {"record", "mark"} BY <1>11 DEF TurnOk, Go, End, LoopTypeOK
  <2>2. r # q => pc'[r] = pc[r] BY <1>11, TaskLocal DEF Task
  <2>3. Send(q, "exchange") /\ "exchange" \in Events BY <1>11 DEF TurnOk, Events
  <2> QED BY <1>10, <2>1, <2>2, <2>3
<1>12. ASSUME NEW q \in Runs, Publish(q) PROVE StreamAt(w, r)'
  <2>1. pc'[q] \in {"cooldown", "check"} BY <1>12 DEF Publish, LoopTypeOK
  <2>2. r # q => pc'[r] = pc[r] BY <1>12, TaskLocal DEF Task
  <2>3. Send(q, "running") /\ "running" \in Events BY <1>12 DEF Publish, Events
  <2> QED BY <1>10, <2>1, <2>2, <2>3
<1>13. ASSUME NEW q \in Runs, FinishRun(q) PROVE StreamAt(w, r)'
  <2>1. pc'[q] = "over" BY <1>13 DEF FinishRun, AfterFinish, LoopTypeOK
  <2>2. r # q => pc'[r] = pc[r] BY <1>13, TaskLocal DEF Task
  <2>3. Send(q, cur[q].state) BY <1>13 DEF FinishRun
  <2>4. cur[q].state \in Ended BY <1>13 DEF FinishRun, ListedInv, ListedAt
  <2>5. cur[q].state \in Events BY <2>4 DEF Events
  <2> QED BY <1>10, <2>1, <2>2, <2>3, <2>4, <2>5
<1> QED
  BY <1>1, <1>2, <1>3, <1>4, <1>5, <1>6, <1>7, <1>8, <1>9, <1>11, <1>12, <1>13 DEF LoopNext, Task

-----------------------------------------------------------------------------
(* Theorems                                                                 *)

LEMMA InitInv == LoopInit => LoopInv
<1> SUFFICES ASSUME LoopInit PROVE LoopInv
  OBVIOUS
<1> USE DEF LoopInit
<1>1. AbsentRun \in Run BY DEF AbsentRun, Run
<1>2. LoopTypeOK
  <2>1. \A w \in Watchers : [run |-> "none", queue |-> <<>>, seen |-> FALSE] \in Stream
    BY DEF Stream
  <2>2. watch \in [Watchers -> Stream] BY <2>1
  <2>3. "none" \in Places BY DEF Places
  <2> QED BY <1>1, <2>2, <2>3 DEF LoopTypeOK
<1>3. ListedInv BY DEF ListedInv, ListedAt, AbsentRun, Working
<1>4. OneTaskPerSession BY DEF OneTaskPerSession, Working
<1>5. LateInv
  <2> SUFFICES ASSUME NEW r \in Runs PROVE LateAt(r)
    BY DEF LateInv
  <2>1. late[r].stop = 0 /\ late[r].auth = 0 OBVIOUS
  <2>2. late[r].stop <= 1 /\ late[r].auth <= 1 BY <2>1
  <2> QED BY <2>1, <2>2 DEF LateAt
<1>6. AttemptInv BY DEF AttemptInv, AttemptAt
<1>7. TokenInv
  <2>1. MaxTokens > 0 => 0 < MaxTokens + TurnTokens BY LimitsAssumption
  <2> QED BY <2>1 DEF TokenInv, TokenAt, AbsentRun
<1>8. StreamInv BY SessionAssumption DEF StreamInv, StreamAt
<1> QED BY <1>2, <1>3, <1>4, <1>5, <1>6, <1>7, <1>8 DEF LoopInv

(* Every step keeps the invariant.                                          *)
LEMMA LoopInvStep == LoopInv /\ [LoopNext]_loopVars => LoopInv'
BY LoopTypeStep, ListedStep, OneTaskStep, LateStep, AttemptStep, TokenStep, StreamStep DEF LoopInv

(* The inductive invariant of the loop runner holds throughout.             *)
LEMMA LoopInvHolds == LoopSpec => []LoopInv
BY InitInv, LoopInvStep, PTL DEF LoopSpec

(* Every variable keeps its type, for any number of runs and watchers.      *)
THEOREM LoopTypesHold == LoopSpec => []LoopTypeOK
BY LoopInvHolds, PTL DEF LoopInv

(* LoopManager::start admits from its map alone, and still no session ever  *)
(* has two turn tasks at work.                                              *)
THEOREM OneTask == LoopSpec => []OneTaskPerSession
BY LoopInvHolds, PTL DEF LoopInv

(* After an accepted stop, and while its account is revoked, a run begins   *)
(* at most one more turn.                                                   *)
THEOREM LateTurns == LoopSpec => []AtMostOneLateTurn
<1>1. LoopInv => AtMostOneLateTurn BY DEF LoopInv, LateInv, LateAt, AtMostOneLateTurn
<1> QED BY <1>1, LoopInvHolds, PTL

(* A run with a turn budget makes at most max_turns * max_failures chat     *)
(* turns, although failed turns do not count against the budget, and a      *)
(* token budget is exceeded by less than one turn's tokens.                 *)
THEOREM Budgets == LoopSpec => []BudgetsHold
<1>1. ASSUME LoopInv, MaxTurns > 0, NEW r \in Runs
      PROVE  turn[r] <= MaxTurns * MaxFailures
  <2>1. AttemptAt(r) /\ turn[r] \in Nat /\ cur[r] \in Run /\ entry[r] \in Run /\ pc[r] \in Places
    BY <1>1 DEF LoopInv, AttemptInv, LoopTypeOK
  <2>2. MaxTurns * MaxFailures \in Nat BY LimitsAssumption
  <2>3. CASE pc[r] \in {"none", "requested"} BY <1>1, <2>1, <2>2, <2>3 DEF AttemptAt
  <2>4. CASE pc[r] \in {"check", "publish", "cooldown"}
    BY <1>1, <2>1, <2>4, SpentFull DEF AttemptAt
  <2>5. CASE pc[r] \in {"authority", "goal", "record"}
    BY <1>1, <2>1, <2>5, SpentFull DEF AttemptAt
  <2>6. CASE pc[r] = "calling"
    <3>1. Spent(cur[r]) + 1 <= MaxTurns * MaxFailures /\ Spent(cur[r]) \in Nat
      BY <1>1, <2>1, <2>6, SpentBound DEF AttemptAt
    <3> QED BY <1>1, <2>1, <2>2, <2>6, <3>1 DEF AttemptAt
  <2>7. CASE pc[r] \in {"mark", "finish", "over"} BY <1>1, <2>1, <2>7 DEF AttemptAt
  <2> QED BY <2>1, <2>3, <2>4, <2>5, <2>6, <2>7 DEF Places, Working
<1>2. ASSUME LoopInv, MaxTokens > 0, NEW r \in Runs
      PROVE  cur[r].tokens < MaxTokens + TurnTokens
  BY <1>2 DEF LoopInv, TokenInv, TokenAt
<1>3. LoopInv => BudgetsHold BY <1>1, <1>2 DEF BudgetsHold
<1> QED BY <1>3, LoopInvHolds, PTL

(* No event stream loses the end of its run, for any lag of the channel.    *)
THEOREM StreamsLearnTheEnd == LoopSpec => []EndReachesWatchers
<1>1. LoopInv => EndReachesWatchers BY DEF LoopInv, StreamInv, StreamAt, EndReachesWatchers
<1> QED BY <1>1, LoopInvHolds, PTL

(* The file of a run says that it ended only once its task is over: the     *)
(* task saves a running copy before that (LoopManager publish, finish).     *)
FileInv == \A r \in Runs : file[r].state \in Ended => pc[r] = "over"

(* No step leaves the place where a task is over.                           *)
LEMMA OverStays ==
  ASSUME LoopInv, NEW r \in Runs, pc[r] = "over", [LoopNext]_loopVars
  PROVE  pc'[r] = "over"
<1>0. pc \in [Runs -> Places] BY DEF LoopInv, LoopTypeOK
<1>1. CASE UNCHANGED loopVars BY <1>1 DEF loopVars, loopTaskVars
<1>2. ASSUME NEW q \in Runs, Task(q) PROVE pc'[r] = "over"
  <2>1. pc[q] # "over"
    BY <1>2 DEF Task, Check, CheckAuthority, BeginTurn, TurnOk, TurnErr, Record, Publish, CoolDown, Mark, FinishRun
  <2>2. q # r BY <2>1
  <2>3. QED BY <1>2, <2>2, TaskLocal DEF LoopInv
<1>3. ASSUME NEW q \in Runs, Admit(q) \/ Refuse(q) \/ StopRun(q) \/ \E g \in Goals : Request(q, g)
      PROVE  pc'[r] = "over"
  BY <1>0, <1>3 DEF Admit, Refuse, StopRun, Request, loopTaskVars
<1>4. CASE \E w \in Watchers : Receive(w) \/ \E q \in Runs : Subscribe(w, q)
  BY <1>4 DEF Receive, Subscribe, loopTaskVars
<1>5. CASE \E s \in Sessions : SetGoal(s) \/ Revoke(s) \/ Restore(s)
  BY <1>5 DEF SetGoal, Revoke, Restore, loopTaskVars
<1>6. QED BY <1>1, <1>2, <1>3, <1>4, <1>5 DEF LoopNext

(* Only a task that is not over writes a run's file: a running copy, or the *)
(* end as its last step.                                                    *)
LEMMA FileWrites ==
  ASSUME LoopInv, NEW r \in Runs, [LoopNext]_loopVars
  PROVE  \/ file'[r] = file[r]
         \/ pc[r] # "over" /\ file'[r].state = "running"
         \/ pc[r] # "over" /\ pc'[r] = "over"
<1>0. pc \in [Runs -> Places] /\ file \in [Runs -> Run] BY DEF LoopInv, LoopTypeOK
<1>1. CASE UNCHANGED loopVars BY <1>1 DEF loopVars, loopTaskVars
<1>2. ASSUME NEW q \in Runs, Publish(q)
      PROVE  file'[r] = file[r] \/ (pc[r] # "over" /\ file'[r].state = "running")
  <2>1. cur[q].state = "running" BY <1>2 DEF Publish, LoopInv, ListedInv, ListedAt, Working
  <2>2. file' = file \/ file' = [file EXCEPT ![q] = cur[q]] BY <1>2 DEF Publish, Saved
  <2>3. QED BY <1>0, <1>2, <2>1, <2>2 DEF Publish
<1>3. ASSUME NEW q \in Runs, FinishRun(q)
      PROVE  file'[r] = file[r] \/ (pc[r] # "over" /\ pc'[r] = "over")
  <2>1. file' = file \/ file' = [file EXCEPT ![q] = cur[q]] BY <1>3 DEF FinishRun, Saved
  <2>2. pc[q] # "over" /\ pc'[q] = "over" BY <1>0, <1>3 DEF FinishRun, AfterFinish
  <2>3. QED BY <1>0, <2>1, <2>2
<1>4. ASSUME NEW q \in Runs,
             \/ Check(q) \/ CheckAuthority(q) \/ BeginTurn(q) \/ TurnOk(q) \/ TurnErr(q)
             \/ Record(q) \/ CoolDown(q) \/ Mark(q) \/ Admit(q) \/ Refuse(q) \/ StopRun(q)
             \/ \E g \in Goals : Request(q, g)
      PROVE  file' = file
  BY <1>4 DEF Check, CheckAuthority, BeginTurn, TurnOk, TurnErr, Record, CoolDown, Mark, Admit, Refuse,
              StopRun, Request, loopTaskVars
<1>5. CASE \E w \in Watchers : Receive(w) \/ \E q \in Runs : Subscribe(w, q)
  BY <1>5 DEF Receive, Subscribe, loopTaskVars
<1>6. CASE \E s \in Sessions : SetGoal(s) \/ Revoke(s) \/ Restore(s)
  BY <1>6 DEF SetGoal, Revoke, Restore, loopTaskVars
<1>7. QED BY <1>1, <1>2, <1>3, <1>4, <1>5, <1>6 DEF LoopNext, Task

(* An entry that says its run ended is kept, or dropped for the session's   *)
(* next run.                                                                *)
LEMMA EntryEnds ==
  ASSUME LoopInv, NEW r \in Runs, entry[r].state \in Ended, [LoopNext]_loopVars
  PROVE  entry'[r] \in {entry[r], AbsentRun}
<1>0. entry \in [Runs -> Run] /\ entry[r].state \notin {"absent", "running"}
  BY DEF LoopInv, LoopTypeOK, Ended
<1>1. CASE UNCHANGED loopVars BY <1>1 DEF loopVars, loopTaskVars
<1>2. ASSUME NEW q \in Runs, Record(q) \/ Mark(q) PROVE entry'[r] = entry[r]
  <2>1. entry[q].state = "running" BY <1>2 DEF Record, Mark, LoopInv, ListedInv, ListedAt, Working
  <2>2. entry' = [entry EXCEPT ![q] = IF @.state = "absent" THEN @ ELSE cur[q]] BY <1>2 DEF Record, Mark, Recorded
  <2>3. q # r BY <1>0, <2>1
  <2>4. QED BY <1>0, <2>2, <2>3
<1>3. ASSUME NEW q \in Runs, Admit(q) PROVE entry'[r] \in {entry[r], AbsentRun}
  <2>1. entry[q].state = "absent" BY <1>3 DEF Admit, LoopInv, ListedInv, ListedAt
  <2>2. q # r BY <1>0, <2>1
  <2>3. QED BY <1>3, <2>2 DEF Admit
<1>4. ASSUME NEW q \in Runs,
             \/ Check(q) \/ CheckAuthority(q) \/ BeginTurn(q) \/ TurnOk(q) \/ TurnErr(q)
             \/ Publish(q) \/ FinishRun(q) \/ CoolDown(q) \/ Refuse(q) \/ StopRun(q)
             \/ \E g \in Goals : Request(q, g)
      PROVE  entry' = entry
  BY <1>4 DEF Check, CheckAuthority, BeginTurn, TurnOk, TurnErr, Publish, FinishRun, CoolDown, Refuse,
              StopRun, Request, loopTaskVars
<1>5. CASE \E w \in Watchers : Receive(w) \/ \E q \in Runs : Subscribe(w, q)
  BY <1>5 DEF Receive, Subscribe, loopTaskVars
<1>6. CASE \E s \in Sessions : SetGoal(s) \/ Revoke(s) \/ Restore(s)
  BY <1>6 DEF SetGoal, Revoke, Restore, loopTaskVars
<1>7. QED BY <1>1, <1>2, <1>3, <1>4, <1>5, <1>6 DEF LoopNext, Task

(* The recorded end of a run is final, whatever its task and the requests   *)
(* do next: its entry only gives way to the session's next run, and its     *)
(* file is not written again (LoopManager finish, start).                   *)
THEOREM EndStands == LoopSpec => EndIsFinal
<1>1. LoopInit => FileInv BY DEF LoopInit, FileInv, AbsentRun, Ended
<1>2. LoopInv /\ FileInv /\ [LoopNext]_loopVars => FileInv'
  <2> SUFFICES ASSUME LoopInv, FileInv, [LoopNext]_loopVars, NEW r \in Runs, file'[r].state \in Ended
               PROVE  pc'[r] = "over"
    BY DEF FileInv
  <2>1. CASE file'[r] = file[r] BY <2>1, OverStays DEF FileInv
  <2>2. CASE file'[r].state = "running" BY <2>2 DEF Ended
  <2>3. QED BY <2>1, <2>2, FileWrites
<1>3. LoopInv /\ FileInv /\ [LoopNext]_loopVars =>
        \A r \in Runs :
          /\ entry[r].state \in Ended => entry'[r] \in {entry[r], AbsentRun}
          /\ file[r].state \in Ended => file'[r] = file[r]
  <2> SUFFICES ASSUME LoopInv, FileInv, [LoopNext]_loopVars, NEW r \in Runs
               PROVE  /\ entry[r].state \in Ended => entry'[r] \in {entry[r], AbsentRun}
                      /\ file[r].state \in Ended => file'[r] = file[r]
    OBVIOUS
  <2>1. entry[r].state \in Ended => entry'[r] \in {entry[r], AbsentRun} BY EntryEnds
  <2>2. file[r].state \in Ended => file'[r] = file[r] BY FileWrites DEF FileInv
  <2>3. QED BY <2>1, <2>2
<1>4. LoopSpec => [](LoopInv /\ FileInv)
  BY <1>1, <1>2, InitInv, LoopInvStep, PTL DEF LoopSpec
<1> QED BY <1>3, <1>4, PTL DEF LoopSpec, EndIsFinal

-----------------------------------------------------------------------------
(* The generation gate.                                                     *)

(* A turn begins to wait only while a suggestion holds the gate, whoever    *)
(* frees the gate announces it, and the announcement reaches a turn that    *)
(* registered before it looked.                                             *)
LEMMA ReleaseStep == NoMissedRelease /\ [RunsNext]_runsVars => NoMissedRelease'
<1> SUFFICES ASSUME NoMissedRelease, [RunsNext]_runsVars PROVE NoMissedRelease' OBVIOUS
<1> USE DEF NoMissedRelease
<1>1. CASE UNCHANGED runsVars BY <1>1 DEF runsVars, turnVars
<1>2. CASE TurnStarts \/ TurnWakes BY <1>2 DEF TurnStarts, TurnWakes, Registered
<1>3. CASE Look BY <1>3 DEF Look, Claim
<1>4. CASE Deadline BY <1>4 DEF Deadline, Claim
<1>5. CASE TurnCancelled BY <1>5 DEF TurnCancelled
<1>6. CASE TurnEnds BY <1>6 DEF TurnEnds, Release
<1>7. CASE NotifyWaiters BY <1>7 DEF NotifyWaiters
<1>8. CASE WorkerTick
  <2>1. (gate' = gate \/ gate' = "suggestion") /\ UNCHANGED <<cpc, woken, notifying>>
    BY <1>8 DEF WorkerTick, Claim, turnVars
  <2>2. QED BY <2>1
<1>9. CASE WorkerRecheck \/ WorkerBegin \/ WorkerSelect \/ WorkerFinish \/ WorkerFail
  BY <1>9 DEF WorkerRecheck, WorkerBegin, WorkerSelect, WorkerFinish, WorkerFail, turnVars
<1>10. CASE WorkerSettle BY <1>10 DEF WorkerSettle, Release, turnVars
<1>11. CASE ConsolidationBegin BY <1>11 DEF ConsolidationBegin, Leave, Release, turnVars
<1>12. CASE ConsolidationReply BY <1>12 DEF ConsolidationReply, turnVars
<1>13. CASE ConsolidationEnd \/ ConsolidationDropped
  BY <1>13 DEF ConsolidationEnd, ConsolidationDropped, Leave, Release, turnVars
<1>14. CASE ClearChat \/ SetEnabled \/ \E r \in Receipts : CancelRun(r)
  BY <1>14 DEF ClearChat, SetEnabled, CancelRun, turnVars
<1>15. CASE \E b \in Batches, by \in {"request", "idle"} : ConsolidationClaim(b, by)
  BY <1>15 DEF ConsolidationClaim, Claim, turnVars
<1>16. CASE \E s \in Suggestions : Enqueue(s) \/ RemoveInput(s) \/ Age(s)
  <2>1. ASSUME NEW s \in Suggestions, Enqueue(s) PROVE UNCHANGED <<gate, notifying, cpc, woken>>
    BY <2>1 DEF Enqueue, turnVars
  <2>2. ASSUME NEW s \in Suggestions, RemoveInput(s) PROVE UNCHANGED <<gate, notifying, cpc, woken>>
    BY <2>2 DEF RemoveInput, turnVars
  <2>3. ASSUME NEW s \in Suggestions, Age(s) PROVE UNCHANGED <<gate, notifying, cpc, woken>>
    BY <2>3 DEF Age, turnVars
  <2>4. QED BY <1>16, <2>1, <2>2, <2>3
<1>17. CASE MemoryCrash \/ Recover BY <1>17 DEF MemoryCrash, Recover, turnVars
<1>18. QED
  BY <1>1, <1>2, <1>3, <1>4, <1>5, <1>6, <1>7, <1>8, <1>9, <1>10, <1>11, <1>12, <1>13, <1>14, <1>15,
     <1>16, <1>17
  DEF RunsNext, TurnStep, WorkerStep, ConsolidationStep, OwnerStep

(* claim_preempting registers for the release before it looks at the gate:  *)
(* a chat turn that waits for a free gate was woken or is about to be,      *)
(* whoever held it and however it was released (generation_gate.rs).        *)
THEOREM ReleaseIsHeard == RunsSpec => []NoMissedRelease
<1>1. RunsInit => NoMissedRelease BY DEF RunsInit, NoMissedRelease
<1>2. QED BY <1>1, ReleaseStep, PTL DEF RunsSpec

-----------------------------------------------------------------------------
(* Cancelled runs.                                                          *)

(* A run its owner cancelled is closed: it is neither open nor preempted.   *)
ClosedRow(row) == row.state \in {"cancelled", "failed"} /\ row.class # "preempted"
RefusedInv == DOMAIN runs = Receipts /\ \A r \in refused : r \in Receipts /\ ClosedRow(runs[r])

(* fail_consolidation_run and finish_consolidation_run leave a closed run   *)
(* as it is.                                                                *)
LEMMA ClosedStays ==
  ASSUME RefusedInv, NEW r \in refused, NEW q, NEW class
  PROVE  /\ FailedRun(q, class)[r] = runs[r] /\ DOMAIN FailedRun(q, class) = Receipts
         /\ FinishOutcome(q)[r] = runs[r] /\ DOMAIN FinishOutcome(q) = Receipts
         /\ ~OpenReceipt(r) /\ ~Proposes(r) /\ ~Startable(r)
<1>1. ~OpenReceipt(r) /\ ~Proposes(r) /\ ~Startable(r) /\ runs[r].state # "running"
  BY DEF RefusedInv, ClosedRow, OpenReceipt, Preempted, Proposes, Startable
<1>2. \A c : FailedRun(q, c)[r] = runs[r] /\ DOMAIN FailedRun(q, c) = Receipts
  BY <1>1 DEF FailedRun, RefusedInv
<1>3. FinishOutcome(q)[r] = runs[r] /\ DOMAIN FinishOutcome(q) = Receipts
  BY <1>1, <1>2 DEF FinishOutcome, RefusedInv
<1>4. QED BY <1>1, <1>2, <1>3

(* What a step may do to the runs that stay refused, and who is refused     *)
(* after it.                                                                *)
KeepsRefused ==
  /\ DOMAIN runs' = Receipts
  /\ \A r \in refused : r \in refused' => runs'[r] = runs[r] /\ (r \in proposed' <=> r \in proposed)
  /\ \A r \in refused' \ refused : r \in Receipts /\ ClosedRow(runs'[r]) /\ (r \in proposed' <=> r \in proposed)

(* A step of the worker keeps a refused run as it is.                       *)
LEMMA WorkerKeeps ==
  ASSUME RefusedInv, WorkerStep
  PROVE  KeepsRefused
<1> USE DEF KeepsRefused
<1>0. DOMAIN runs = Receipts BY DEF RefusedInv
<1>1. CASE WorkerTick
  <2>1. /\ runs' = [r \in Receipts |-> IF r \in Dropped THEN FailedRun(r, "error")[r] ELSE runs[r]]
        /\ UNCHANGED <<proposed, refused>>
    BY <1>1 DEF WorkerTick
  <2>2. QED BY <2>1, ClosedStays DEF RefusedInv
<1>2. CASE WorkerRecheck \/ WorkerSelect BY <1>0, <1>2 DEF WorkerRecheck, WorkerSelect
<1>3. CASE WorkerBegin
  <2>1. /\ UNCHANGED <<proposed, refused>>
        /\ runs' = runs \/ (Startable(job) /\ runs' = [runs EXCEPT ![job] = ReceiptRow("running", NoClass)])
    BY <1>3 DEF WorkerBegin
  <2>2. \A r \in refused : Startable(job) => r # job BY ClosedStays
  <2>3. QED BY <1>0, <2>1, <2>2 DEF RefusedInv
<1>4. CASE WorkerFinish
  <2>1. /\ UNCHANGED refused
        /\ \/ UNCHANGED <<runs, proposed>>
           \/ runs' = FinishOutcome(job) /\ proposed' = IF Proposes(job) THEN proposed \cup {job} ELSE proposed
    BY <1>4 DEF WorkerFinish
  <2>2. \A r \in refused : Proposes(job) => r # job BY ClosedStays
  <2>3. \A r \in refused : FinishOutcome(job)[r] = runs[r] BY ClosedStays
  <2>4. DOMAIN FinishOutcome(job) = Receipts BY <1>0 DEF FinishOutcome, FailedRun
  <2>5. QED BY <1>0, <2>1, <2>2, <2>3, <2>4
<1>5. CASE WorkerFail
  <2>1. runs' = FailedRun(job, result) /\ UNCHANGED <<proposed, refused>> BY <1>5 DEF WorkerFail
  <2>2. DOMAIN FailedRun(job, result) = Receipts BY <1>0 DEF FailedRun
  <2>3. \A r \in refused : FailedRun(job, result)[r] = runs[r] BY ClosedStays
  <2>4. QED BY <2>1, <2>2, <2>3
<1>6. CASE WorkerSettle
  <2>1. /\ runs' = runs \/ runs' = FailedRun(job, DiscardClass)
        /\ UNCHANGED <<proposed, refused>>
    BY <1>6 DEF WorkerSettle, SettledRuns
  <2>2. DOMAIN FailedRun(job, DiscardClass) = Receipts BY <1>0 DEF FailedRun
  <2>3. \A r \in refused : FailedRun(job, DiscardClass)[r] = runs[r] BY ClosedStays
  <2>4. QED BY <1>0, <2>1, <2>2, <2>3
<1>7. QED BY <1>1, <1>2, <1>3, <1>4, <1>5, <1>6 DEF WorkerStep

(* An explicit consolidation of a cancelled batch makes it no longer        *)
(* refused; any other step of a consolidation leaves the refused alone.     *)
LEMMA ConsolidationKeeps ==
  ASSUME RefusedInv, ConsolidationStep
  PROVE  KeepsRefused
<1> USE DEF KeepsRefused
<1>0. DOMAIN runs = Receipts BY DEF RefusedInv
<1>1. CASE ConsolidationBegin
  <2>1. /\ UNCHANGED proposed
        /\ \/ UNCHANGED <<runs, refused>>
           \/ runs' = [runs EXCEPT ![batch] = ReceiptRow("running", NoClass)] /\ refused' = refused \ {batch}
    BY <1>1 DEF ConsolidationBegin
  <2>2. QED BY <1>0, <2>1 DEF RefusedInv
<1>2. CASE ConsolidationReply \/ ConsolidationDropped
  BY <1>0, <1>2 DEF ConsolidationReply, ConsolidationDropped
<1>3. CASE ConsolidationEnd
  <2>1. PICK class :
          /\ UNCHANGED refused
          /\ \/ runs' = FailedRun(batch, class) /\ UNCHANGED proposed
             \/ runs' = FinishOutcome(batch) /\ proposed' = IF Proposes(batch) THEN proposed \cup {batch} ELSE proposed
    BY <1>3 DEF ConsolidationEnd
  <2>2. \A r \in refused : Proposes(batch) => r # batch BY ClosedStays
  <2>3. \A r \in refused : FinishOutcome(batch)[r] = runs[r] /\ FailedRun(batch, class)[r] = runs[r] BY ClosedStays
  <2>4. DOMAIN FinishOutcome(batch) = Receipts /\ DOMAIN FailedRun(batch, class) = Receipts
    BY <1>0 DEF FinishOutcome, FailedRun
  <2>5. QED BY <2>1, <2>2, <2>3, <2>4
<1>4. QED BY <1>1, <1>2, <1>3 DEF ConsolidationStep

(* The steps of the owner, of turns, of the queue and of the process.       *)
LEMMA OthersKeep ==
  ASSUME RefusedInv,
         \/ TurnStarts \/ TurnCancelled \/ TurnStep \/ OwnerStep
         \/ \E s \in Suggestions : Enqueue(s) \/ RemoveInput(s) \/ Age(s)
         \/ MemoryCrash \/ Recover \/ UNCHANGED runsVars
  PROVE  KeepsRefused
<1> USE DEF KeepsRefused
<1>0. DOMAIN runs = Receipts BY DEF RefusedInv
<1>1. CASE TurnStarts \/ TurnCancelled \/ TurnStep
  BY <1>0, <1>1 DEF TurnStarts, TurnCancelled, TurnStep, TurnWakes, Registered, Look, Deadline, TurnEnds, NotifyWaiters
<1>2. CASE ClearChat
  <2>1. /\ runs' = [r \in Receipts |-> IF r \in {s \in ChatSources : Queued(s)} THEN FailedRun(r, "cancelled")[r] ELSE runs[r]]
        /\ UNCHANGED <<proposed, refused>>
    BY <1>2 DEF ClearChat
  <2>2. QED BY <2>1, ClosedStays DEF RefusedInv
<1>3. CASE SetEnabled \/ \E b \in Batches, by \in {"request", "idle"} : ConsolidationClaim(b, by)
  BY <1>0, <1>3 DEF SetEnabled, ConsolidationClaim
<1>4. ASSUME NEW r \in Receipts, CancelRun(r) PROVE KeepsRefused
  <2>1. /\ OpenReceipt(r) /\ runs' = [runs EXCEPT ![r] = ReceiptRow("cancelled", "cancelled")]
        /\ refused' = refused \cup {r} /\ UNCHANGED proposed
    BY <1>4 DEF CancelRun
  <2>2. r \notin refused BY <2>1, ClosedStays
  <2>3. ClosedRow(runs'[r]) BY <1>0, <2>1 DEF ClosedRow, ReceiptRow
  <2>4. QED BY <1>0, <2>1, <2>2, <2>3
<1>5. CASE OwnerStep BY <1>2, <1>3, <1>4, <1>5 DEF OwnerStep
<1>6. ASSUME NEW s \in Suggestions, Enqueue(s) PROVE KeepsRefused
  <2>1. /\ runs[s].state = "absent" /\ runs' = [runs EXCEPT ![s] = ReceiptRow("idle", NoClass)]
        /\ UNCHANGED <<proposed, refused>>
    BY <1>6 DEF Enqueue
  <2>2. s \notin refused BY <2>1 DEF RefusedInv, ClosedRow
  <2>3. QED BY <1>0, <2>1, <2>2 DEF RefusedInv
<1>7. CASE \E s \in Suggestions : RemoveInput(s) \/ Age(s) BY <1>0, <1>7 DEF RemoveInput, Age
<1>8. CASE MemoryCrash BY <1>0, <1>8 DEF MemoryCrash
<1>9. CASE Recover
  <2>1. /\ runs' = [r \in Receipts |-> IF OpenReceipt(r) THEN ReceiptRow("failed", "error") ELSE runs[r]]
        /\ UNCHANGED <<proposed, refused>>
    BY <1>9 DEF Recover
  <2>2. QED BY <2>1, ClosedStays DEF RefusedInv
<1>10. CASE UNCHANGED runsVars BY <1>0, <1>10 DEF runsVars
<1>11. QED BY <1>1, <1>5, <1>6, <1>7, <1>8, <1>9, <1>10

(* Every step keeps the refused runs closed.                                *)
LEMMA RefusedStep ==
  ASSUME RefusedInv, [RunsNext]_runsVars
  PROVE  KeepsRefused /\ RefusedInv'
<1>1. KeepsRefused BY WorkerKeeps, ConsolidationKeeps, OthersKeep DEF RunsNext
<1>2. RefusedInv' BY <1>1 DEF KeepsRefused, RefusedInv
<1>3. QED BY <1>1, <1>2

(* What a cancelled run does not do, without any fairness.                  *)
LEMMA CancelSafe == RunsInit /\ [][RunsNext]_runsVars => CancelIsFinal
<1>1. RunsInit => RefusedInv BY DEF RunsInit, RefusedInv
<1>2. RefusedInv /\ [RunsNext]_runsVars => RefusedInv' BY RefusedStep
<1>3. RefusedInv /\ [RunsNext]_runsVars =>
        \A r \in Receipts : r \in refused /\ r \in refused' =>
          /\ runs'[r].state \in {"cancelled", "failed"} /\ ~(runs'[r].class = "preempted")
          /\ (r \in proposed') = (r \in proposed)
  <2> SUFFICES ASSUME RefusedInv, [RunsNext]_runsVars, NEW r \in Receipts, r \in refused, r \in refused'
               PROVE  /\ runs'[r].state \in {"cancelled", "failed"} /\ ~(runs'[r].class = "preempted")
                      /\ (r \in proposed') = (r \in proposed)
    OBVIOUS
  <2>1. KeepsRefused BY RefusedStep
  <2>2. ClosedRow(runs'[r]) BY <2>1 DEF KeepsRefused, RefusedInv
  <2>3. (r \in proposed') = (r \in proposed) BY <2>1 DEF KeepsRefused
  <2>4. QED BY <2>2, <2>3 DEF ClosedRow
<1>4. QED BY <1>1, <1>2, <1>3, PTL DEF CancelIsFinal

(* cancel_consolidation_run is final: whatever the worker, a preempting     *)
(* turn, a restart or another cancel does next, the run creates no          *)
(* proposals and is not resumed, until its owner starts the batch again     *)
(* (structured_memory.rs, structured_memory_suggest.rs).                    *)
THEOREM CancelStands == RunsSpec => CancelIsFinal
BY CancelSafe, PTL DEF RunsSpec

-----------------------------------------------------------------------------
(* Sequences that lose some of their elements.                              *)

(* A set of numbers that is not empty has a smallest one.                   *)
LEMMA SmallestIn == ASSUME NEW T, T \subseteq Nat, T # {} PROVE \E x \in T : \A y \in T : x <= y
<1>1. PICK R : IsWellFoundedOn(R, Nat) /\ \A x, y \in Nat : x < y => <<x, y>> \in R
  <2>1. \A x, y \in Nat : x < y => <<x, y>> \in OpToRel(<, Nat) BY DEF OpToRel
  <2> QED BY <2>1, NatLessThanWellFounded, Zenon
<1>2. IsWellFoundedOn(R, Nat) BY <1>1
<1>3. PICK x \in T : \A y \in T : ~ (<<y, x>> \in R) BY <1>2, WFMin, Zenon
<1>4. ASSUME NEW y \in T PROVE x <= y
  <2>1. x \in Nat /\ y \in Nat OBVIOUS
  <2>2. ~(y < x) BY <1>1, <1>3, <2>1
  <2> QED BY <2>1, <2>2
<1> QED BY <1>4

(* A property of 0 that every number below n hands to the next one holds of *)
(* all of 0..n: the set of the numbers that have it leaves out none.        *)
LEMMA Climb ==
  ASSUME NEW n \in Nat, NEW T, 0 \in T, \A m \in 1..n : m - 1 \in T => m \in T
  PROVE  0..n \subseteq T
<1> DEFINE Bad == (0..n) \ T
<1>1. SUFFICES ASSUME Bad # {} PROVE FALSE OBVIOUS
<1>2. PICK m \in Bad : \A x \in Bad : m <= x
  <2>1. Bad \subseteq Nat OBVIOUS
  <2> HIDE DEF Bad
  <2> QED BY <1>1, <2>1, SmallestIn
<1>3. m \in 0..n /\ m \notin T OBVIOUS
<1>4. m \in 1..n /\ m - 1 \in 0..n /\ ~(m <= m - 1) BY <1>3
<1>5. m - 1 \notin Bad
  <2> HIDE DEF Bad
  <2> QED BY <1>2, <1>4
<1> QED BY <1>3, <1>4, <1>5

(* The steps of Without: an input that goes is skipped, any other is appended. *)
KeepOne(q, gone, a, i) == IF q[i] \in gone THEN a ELSE Append(a, q[i])
LeftUpto(q, gone, g, m) == g = [k \in 0..m |-> g[k]] /\ g[0] = <<>> /\ \A k \in 1..m : g[k] = KeepOne(q, gone, g[k - 1], k)

LEMMA LeftExists ==
  ASSUME NEW q, NEW gone, NEW n \in Nat
  PROVE  \E g : LeftUpto(q, gone, g, n)
<1> DEFINE T == {m \in 0..n : \E g : LeftUpto(q, gone, g, m)}
<1>1. 0 \in T
  <2>1. LeftUpto(q, gone, [k \in 0..0 |-> <<>>], 0) BY DEF LeftUpto
  <2> QED BY <2>1
<1>2. ASSUME NEW m \in 1..n, m - 1 \in T PROVE m \in T
  <2>1. PICK g : LeftUpto(q, gone, g, m - 1) BY <1>2
  <2>2. PICK h : h = [k \in 0..m |-> IF k = m THEN KeepOne(q, gone, g[m - 1], m) ELSE g[k]] OBVIOUS
  <2>3. h = [k \in 0..m |-> h[k]] BY <2>2
  <2>4. h[0] = <<>>
    <3>1. 0 \in 0..m /\ 0 # m BY <1>2
    <3> QED BY <2>1, <2>2, <3>1 DEF LeftUpto
  <2>5. ASSUME NEW k \in 1..m PROVE h[k] = KeepOne(q, gone, h[k - 1], k)
    <3>1. k \in 0..m /\ k - 1 \in 0..m /\ k - 1 # m BY <1>2, <2>5
    <3>2. h[k - 1] = g[k - 1] BY <2>2, <3>1
    <3>3. CASE k = m
      <4>1. h[k] = KeepOne(q, gone, g[k - 1], k) BY <2>2, <3>1, <3>3
      <4> QED BY <3>2, <4>1
    <3>4. CASE k # m
      <4>1. k \in 1..(m - 1) BY <1>2, <2>5, <3>4
      <4>2. h[k] = g[k] BY <2>2, <3>1, <3>4
      <4> QED BY <2>1, <3>2, <4>1, <4>2 DEF LeftUpto
    <3> QED BY <3>3, <3>4
  <2>6. LeftUpto(q, gone, h, m) BY <2>3, <2>4, <2>5 DEF LeftUpto
  <2> QED BY <2>6
<1>3. 0..n \subseteq T
  <2> HIDE DEF T
  <2> QED BY <1>1, <1>2, Climb
<1>4. n \in 0..n OBVIOUS
<1> QED BY <1>3, <1>4

(* What stays is what was there and does not go, and it is no longer.       *)
Has(s, x) == \E i \in DOMAIN s : s[i] = x
LEMMA WithoutHolds ==
  ASSUME NEW S, NEW q \in Seq(S), NEW gone
  PROVE  /\ Without(q, gone) \in Seq(S) /\ Len(Without(q, gone)) <= Len(q)
         /\ \A x : Has(Without(q, gone), x) <=> x \notin gone /\ Has(q, x)
<1>1. PICK n \in Nat : n = Len(q) OBVIOUS
<1>2. PICK h : LeftUpto(q, gone, h, n) BY LeftExists
<1> DEFINE Unrolls(g) == g = [i \in 0..n |-> IF i = 0 THEN <<>>
                            ELSE IF q[i] \in gone THEN g[i - 1] ELSE Append(g[i - 1], q[i])]
<1>3. PICK g : Unrolls(g)
  <2>1. \A i \in 0..n : i # 0 => i \in 1..n OBVIOUS
  <2>2. ASSUME NEW i \in 0..n
        PROVE h[i] = IF i = 0 THEN <<>> ELSE IF q[i] \in gone THEN h[i - 1] ELSE Append(h[i - 1], q[i])
    BY <1>2, <2>1 DEF LeftUpto, KeepOne
  <2>3. h = [i \in 0..n |-> h[i]] BY <1>2 DEF LeftUpto
  <2>4. Unrolls(h) BY <2>2, <2>3
  <2> QED BY <2>4
<1>4. PICK c : c = CHOOSE e : Unrolls(e) OBVIOUS
<1>5. Unrolls(c) BY <1>3, <1>4
<1>6. Without(q, gone) = c[n] BY <1>1, <1>4 DEF Without
<1>7. c[0] = <<>> /\ \A k \in 1..n : c[k] = IF q[k] \in gone THEN c[k - 1] ELSE Append(c[k - 1], q[k])
  <2>1. 0 \in 0..n /\ \A k \in 1..n : k \in 0..n /\ k # 0 OBVIOUS
  <2> QED BY <1>5, <2>1
<1> HIDE DEF Unrolls
<1> DEFINE Good(m) == /\ c[m] \in Seq(S) /\ Len(c[m]) <= m
                      /\ \A x : Has(c[m], x) <=> x \notin gone /\ \E j \in 1..m : q[j] = x
           T == {m \in 0..n : Good(m)}
<1>8. 0 \in T
  <2>1. \A x : ~Has(<<>>, x) BY DEF Has
  <2>2. Good(0) BY <1>7, <2>1
  <2> QED BY <2>2
<1>9. ASSUME NEW m \in 1..n, m - 1 \in T PROVE m \in T
  <2>1. PICK a \in Seq(S) : a = c[m - 1] /\ Len(a) <= m - 1
                            /\ \A x : Has(a, x) <=> x \notin gone /\ \E j \in 1..(m - 1) : q[j] = x
    BY <1>9
  <2>2. PICK v \in S : v = q[m] BY <1>1, <1>9
  <2>3. \A x : (\E j \in 1..m : q[j] = x) <=> (x = v \/ \E j \in 1..(m - 1) : q[j] = x)
    <3>1. 1..m = 1..(m - 1) \cup {m} BY <1>9
    <3> QED BY <2>2, <3>1
  <2>4. CASE v \in gone
    <3>1. c[m] = a BY <1>7, <2>1, <2>2, <2>4
    <3>2. c[m] \in Seq(S) /\ Len(c[m]) <= m BY <1>9, <2>1, <3>1
    <3>3. ASSUME NEW x PROVE Has(c[m], x) <=> x \notin gone /\ \E j \in 1..m : q[j] = x
      BY <2>1, <2>3, <2>4, <3>1
    <3>4. Good(m) BY <3>2, <3>3
    <3> QED BY <3>4
  <2>5. CASE v \notin gone
    <3>1. c[m] = Append(a, v) BY <1>7, <2>1, <2>2, <2>5
    <3>2. Append(a, v) \in Seq(S) /\ Len(Append(a, v)) <= m BY <1>9, <2>1
    <3>3. \A x : Has(Append(a, v), x) <=> Has(a, x) \/ x = v
      <4>1. /\ \A i \in 1..Len(a) : i \in DOMAIN Append(a, v) /\ Append(a, v)[i] = a[i]
            /\ \A i \in DOMAIN Append(a, v) : i \in 1..Len(a) \/ i = Len(a) + 1
            /\ Len(a) + 1 \in DOMAIN Append(a, v) /\ Append(a, v)[Len(a) + 1] = v
            /\ DOMAIN a = 1..Len(a)
        OBVIOUS
      <4> QED BY ONLY <4>1 DEF Has
    <3>4. ASSUME NEW x PROVE Has(c[m], x) <=> x \notin gone /\ \E j \in 1..m : q[j] = x
      BY <2>1, <2>3, <2>5, <3>1, <3>3
    <3>5. Good(m) BY <3>1, <3>2, <3>4
    <3> QED BY <3>5
  <2> QED BY <2>4, <2>5
<1>10. 0..n \subseteq T
  <2> HIDE DEF T
  <2> QED BY <1>8, <1>9, Climb
<1>11. Good(n)
  <2>1. n \in 0..n OBVIOUS
  <2> QED BY <1>10, <2>1
<1>12. DOMAIN q = 1..n BY <1>1
<1> QED BY <1>1, <1>6, <1>11, <1>12 DEF Has

-----------------------------------------------------------------------------
(* Memory runs and their inputs.                                            *)
AtWork == wpc \notin {"off", "sleep"}
Rows == [state : RunStates, class : Classes]
OpenRow(row) == row.state \in {"idle", "running"} \/ row.class = "preempted"

(* Only a cancelled row is preempted.                                       *)
RowFits(row) == row \in Rows /\ (row.class = "preempted" => row.state = "cancelled")
RowsFit(f) == f \in [Receipts -> Rows] /\ \A r \in Receipts : RowFits(f[r])
OnlyRow(f, r) == \A q \in Receipts : q # r => f[q] = runs[q]
RowInv == RowsFit(runs)

(* Where the worker is says what it holds, and the counters keep their      *)
(* bounds.                                                                  *)
PlaceInv ==
  /\ AtWork => job \in Suggestions /\ Len(queue) <= MaxQueue
  /\ kpc # "none" => batch \in Batches
  /\ wpc = "failing" => result # "ok"
  /\ ~memoryUp => starts < MaxStarts

(* An input that is still to be removed has a closed receipt; the receipt   *)
(* at work is running, or it was closed meanwhile; one that ended well is   *)
(* not open; any other open receipt has its input queued or at work.        *)
InputInv ==
  /\ \A s \in removing : ~OpenRow(runs[s]) /\ runs[s].state # "absent"
  /\ wpc \in {"generating", "replied"} => runs[job].state = "running" \/ (OpenRow(runs[job]) => Has(queue, job))
  /\ wpc = "settle" /\ result = "ok" => (OpenRow(runs[job]) => Has(queue, job))
  /\ memoryUp => \A s \in Suggestions : OpenRow(runs[s]) => Has(queue, s) \/ (AtWork /\ job = s)

(* The parts of RunsTypeOK beside the rows.                                 *)
ClockType ==
  /\ memoryUp \in BOOLEAN /\ starts \in 0..MaxStarts /\ enabled \in BOOLEAN
  /\ gate \in Holders /\ notifying \in BOOLEAN
  /\ cpc \in {"none", "registered", "waiting", "holding"} /\ woken \in BOOLEAN
  /\ turns \in 0..MaxChatTurns /\ cancels \in 0..MaxCancels
RamType ==
  /\ queue \in Seq(Suggestions) /\ Len(queue) <= MaxQueue + 1
  /\ wpc \in {"off", "sleep", "claimed", "begin", "generating", "replied", "failing", "settle"}
  /\ job \in Suggestions \cup {None} /\ token \in BOOLEAN /\ cleared \in BOOLEAN
  /\ result \in {"ok", "error", "cancelled", "preempted"}
SetsType ==
  /\ flagged \subseteq Receipts /\ aged \subseteq Suggestions /\ removing \subseteq Suggestions
  /\ proposed \subseteq Receipts /\ refused \subseteq Receipts
ConsType ==
  /\ kpc \in {"none", "begin", "generating", "replied"} /\ batch \in Batches \cup {None}
  /\ kind \in {"request", "idle", None}
TypeRest == ClockType /\ RamType /\ SetsType /\ ConsType

MemoryInv == TypeRest /\ RowInv /\ PlaceInv /\ InputInv

LEMMA MemoryTypeParts == TypeRest /\ RowInv => RunsTypeOK
  BY DEF TypeRest, ClockType, RamType, SetsType, ConsType, RowInv, RowsFit, Rows, RunsTypeOK

LEMMA ClassNames == NoClass # "preempted" /\ NoClass \in Classes BY DEF NoClass, Classes

LEMMA RowFields ==
  ASSUME NEW state \in RunStates, NEW class \in Classes
  PROVE  ReceiptRow(state, class) \in Rows /\ ReceiptRow(state, class).state = state /\ ReceiptRow(state, class).class = class
  BY DEF ReceiptRow, Rows

LEMMA OpenIs == \A r : OpenReceipt(r) <=> OpenRow(runs[r])
  BY DEF OpenReceipt, Preempted, OpenRow
LEMMA QueuedIs == \A s : Queued(s) <=> Has(queue, s)
  BY DEF Queued, Has

LEMMA Named == /\ {"absent", "idle", "running", "done", "failed", "cancelled"} = RunStates
               /\ {"preempted", "cancelled", "error"} \subseteq Classes
  BY DEF RunStates, Classes

(* One row written.                                                         *)
LEMMA Written ==
  ASSUME RowInv, NEW r \in Receipts, NEW row, RowFits(row)
  PROVE  LET f == [runs EXCEPT ![r] = row] IN RowsFit(f) /\ OnlyRow(f, r) /\ f[r] = row
<1>1. row \in Rows /\ runs \in [Receipts -> Rows] BY DEF RowFits, RowInv, RowsFit
<1>2. PICK f : f = [runs EXCEPT ![r] = row] OBVIOUS
<1>3. f \in [Receipts -> Rows] /\ f[r] = row /\ OnlyRow(f, r) BY <1>1, <1>2 DEF OnlyRow
<1>4. ASSUME NEW q \in Receipts PROVE RowFits(f[q])
  BY <1>3 DEF RowInv, RowsFit, OnlyRow
<1>5. RowsFit(f) BY <1>3, <1>4 DEF RowsFit
<1> QED BY <1>2, <1>3, <1>5

(* fail_consolidation_run: a row that is closed stays, an open one becomes  *)
(* what the class says.                                                     *)
LEMMA FailedFacts ==
  ASSUME RowInv, NEW r \in Receipts, NEW class \in {"preempted", "cancelled", "error"}
  PROVE  /\ RowsFit(FailedRun(r, class)) /\ OnlyRow(FailedRun(r, class), r)
         /\ ~OpenRow(runs[r]) => FailedRun(r, class) = runs
         /\ OpenRow(runs[r]) => FailedRun(r, class)[r].state \in {"failed", "cancelled"}
         /\ class # "preempted" => ~OpenRow(FailedRun(r, class)[r])
<1>1. PICK row : row = ReceiptRow(IF class = "error" THEN "failed" ELSE "cancelled", class) OBVIOUS
<1>2. /\ row \in Rows /\ row.class = class /\ row.state \in {"failed", "cancelled"}
      /\ class # "error" => row.state = "cancelled"
  BY <1>1, RowFields, Named DEF RunStates, Classes
<1>3. RowFits(row) BY <1>2 DEF RowFits
<1>4. CASE OpenRow(runs[r])
  <2>1. FailedRun(r, class) = [runs EXCEPT ![r] = row] BY <1>1, <1>4, OpenIs DEF FailedRun
  <2>2. PICK f : f = FailedRun(r, class) /\ RowsFit(f) /\ OnlyRow(f, r) /\ f[r] = row BY <1>3, <2>1, Written
  <2>3. class # "preempted" => ~OpenRow(f[r]) BY <1>2, <2>2 DEF OpenRow
  <2> QED BY <1>2, <1>4, <2>2, <2>3
<1>5. CASE ~OpenRow(runs[r])
  <2>1. FailedRun(r, class) = runs BY <1>5, OpenIs DEF FailedRun
  <2>2. RowsFit(runs) /\ OnlyRow(runs, r) BY DEF RowInv, OnlyRow
  <2> QED BY <1>5, <2>1, <2>2
<1> QED BY <1>4, <1>5

(* The front of a queue is taken, or put back.                              *)
LEMMA FrontTaken ==
  ASSUME NEW S, NEW s \in Seq(S), s # <<>>
  PROVE  /\ Head(s) \in S /\ Tail(s) \in Seq(S) /\ Len(Tail(s)) = Len(s) - 1 /\ Len(s) > 0
         /\ \A x : Has(s, x) => x = Head(s) \/ Has(Tail(s), x)
<1>1. /\ Head(s) \in S /\ Tail(s) \in Seq(S) /\ Len(Tail(s)) = Len(s) - 1 /\ Len(s) > 0 /\ DOMAIN s = 1..Len(s)
      /\ Head(s) = s[1] /\ \A i \in 1..Len(s) : i # 1 => i - 1 \in DOMAIN Tail(s) /\ Tail(s)[i - 1] = s[i]
  OBVIOUS
<1>2. ASSUME NEW x, Has(s, x) PROVE x = Head(s) \/ Has(Tail(s), x)
  <2>1. PICK i \in 1..Len(s) : s[i] = x BY <1>1, <1>2 DEF Has
  <2> QED BY <1>1, <2>1 DEF Has
<1> QED BY <1>1, <1>2
LEMMA FrontPut ==
  ASSUME NEW S, NEW s \in Seq(S), NEW v \in S
  PROVE  /\ <<v>> \o s \in Seq(S) /\ Len(<<v>> \o s) = Len(s) + 1 /\ Has(<<v>> \o s, v)
         /\ \A x : Has(s, x) => Has(<<v>> \o s, x)
<1>1. /\ <<v>> \o s \in Seq(S) /\ Len(<<v>> \o s) = Len(s) + 1 /\ DOMAIN s = 1..Len(s) /\ DOMAIN (<<v>> \o s) = 1..(Len(s) + 1)
      /\ (<<v>> \o s)[1] = v /\ Len(s) \in Nat
  OBVIOUS
<1>2. ASSUME NEW i \in 1..Len(s) PROVE i + 1 \in 1..(Len(s) + 1) /\ (<<v>> \o s)[i + 1] = s[i] BY <1>2
<1>3. 1 \in 1..(Len(s) + 1) BY <1>1
<1> QED BY <1>1, <1>2, <1>3 DEF Has
LEMMA BackPut ==
  ASSUME NEW S, NEW s \in Seq(S), NEW v \in S
  PROVE  /\ Append(s, v) \in Seq(S) /\ Len(Append(s, v)) = Len(s) + 1 /\ Has(Append(s, v), v)
         /\ \A x : Has(s, x) => Has(Append(s, v), x)
<1>1. /\ Append(s, v) \in Seq(S) /\ Len(Append(s, v)) = Len(s) + 1 /\ DOMAIN s = 1..Len(s)
      /\ DOMAIN Append(s, v) = 1..(Len(s) + 1) /\ Append(s, v)[Len(s) + 1] = v /\ Len(s) \in Nat
  OBVIOUS
<1>2. ASSUME NEW i \in 1..Len(s) PROVE i \in 1..(Len(s) + 1) /\ Append(s, v)[i] = s[i] BY <1>2
<1>3. Len(s) + 1 \in 1..(Len(s) + 1) BY <1>1
<1> QED BY <1>1, <1>2, <1>3 DEF Has

(* finish_consolidation_run closes a running row and leaves any other.      *)
LEMMA FinishFacts ==
  ASSUME RowInv, NEW r \in Receipts
  PROVE  /\ RowsFit(FinishOutcome(r)) /\ OnlyRow(FinishOutcome(r), r)
         /\ ~OpenRow(runs[r]) => FinishOutcome(r) = runs
         /\ ~OpenRow(FinishOutcome(r)[r]) \/ (FinishOutcome(r) = runs /\ runs[r].state # "running")
<1>1. CASE r \in flagged
  <2>1. FinishOutcome(r) = FailedRun(r, "cancelled") BY <1>1 DEF FinishOutcome
  <2> QED BY <2>1, FailedFacts
<1>2. CASE r \notin flagged /\ runs[r].state # "running"
  <2>1. FinishOutcome(r) = runs BY <1>2 DEF FinishOutcome
  <2>2. RowsFit(runs) /\ OnlyRow(runs, r) BY DEF RowInv, OnlyRow
  <2> QED BY <1>2, <2>1, <2>2
<1>3. CASE r \notin flagged /\ runs[r].state = "running"
  <2>1. PICK row : row = ReceiptRow("done", NoClass) OBVIOUS
  <2>2. row \in Rows /\ row.class = NoClass /\ row.state = "done" BY <2>1, RowFields, Named, ClassNames
  <2>3. RowFits(row) /\ ~OpenRow(row) BY <2>2, ClassNames DEF RowFits, OpenRow
  <2>4. FinishOutcome(r) = [runs EXCEPT ![r] = row] BY <1>3, <2>1 DEF FinishOutcome
  <2>5. PICK f : f = FinishOutcome(r) /\ RowsFit(f) /\ OnlyRow(f, r) /\ f[r] = row BY <2>3, <2>4, Written
  <2>6. OpenRow(runs[r]) BY <1>3 DEF OpenRow
  <2> QED BY <2>3, <2>5, <2>6
<1> QED BY <1>1, <1>2, <1>3

(* A step that leaves the runs, the queue and the worker where they are.    *)
Quiet == UNCHANGED <<memoryUp, starts, runs, queue, wpc, job, result, removing>>
LEMMA QuietKeeps == RowInv /\ InputInv /\ Quiet => RowInv' /\ InputInv'
<1> SUFFICES ASSUME RowInv, InputInv, Quiet PROVE RowInv' /\ InputInv' OBVIOUS
<1>1. RowInv' BY DEF RowInv, RowsFit, Quiet
<1>2. InputInv' BY DEF InputInv, Quiet, AtWork
<1> QED BY <1>1, <1>2

(* A step that leaves the receipts of the suggestions as they are.          *)
LEMMA OtherRows ==
  ASSUME MemoryInv, RowsFit(runs'), \A s \in Suggestions : runs'[s] = runs[s],
         UNCHANGED <<memoryUp, queue, wpc, job, result, removing>>
  PROVE  RowInv' /\ InputInv'
<1>1. RowInv' BY DEF RowInv
<1>2. removing \subseteq Suggestions /\ (AtWork => job \in Suggestions) BY DEF MemoryInv, TypeRest, SetsType, PlaceInv
<1>3. InputInv BY DEF MemoryInv
<1>4. (\A s \in removing : ~OpenRow(runs[s]) /\ runs[s].state # "absent")' BY <1>2, <1>3 DEF InputInv
<1>5. AtWork => runs'[job] = runs[job] BY <1>2
<1>6. (wpc \in {"generating", "replied"} => runs[job].state = "running" \/ (OpenRow(runs[job]) => Has(queue, job)))'
  BY <1>3, <1>5 DEF InputInv, AtWork
<1>7. (wpc = "settle" /\ result = "ok" => (OpenRow(runs[job]) => Has(queue, job)))'
  BY <1>3, <1>5 DEF InputInv, AtWork
<1>8. (memoryUp => \A s \in Suggestions : OpenRow(runs[s]) => Has(queue, s) \/ (AtWork /\ job = s))'
  BY <1>3 DEF InputInv, AtWork
<1> QED BY <1>1, <1>4, <1>6, <1>7, <1>8 DEF InputInv

(* The steps of turns and of the gate.                                      *)
LEMMA TurnsKeepInputs ==
  ASSUME MemoryInv, TurnStarts \/ TurnCancelled \/ TurnStep
  PROVE  MemoryInv'
<1>1. Quiet BY DEF Quiet, TurnStarts, TurnCancelled, TurnStep, TurnWakes, Registered, Look, Deadline, TurnEnds, NotifyWaiters, ramVars
<1>2. RowInv' /\ InputInv' BY <1>1, QuietKeeps DEF MemoryInv
<1>a. TypeRest BY DEF MemoryInv
<1>3. PlaceInv'
  <2>1. UNCHANGED <<kpc, batch>>
    BY DEF TurnStarts, TurnCancelled, TurnStep, TurnWakes, Registered, Look, Deadline, TurnEnds, NotifyWaiters, consVars
  <2> QED BY <1>1, <2>1 DEF Quiet, PlaceInv, AtWork, MemoryInv
<1>4. ConsType' /\ SetsType'
  BY <1>a DEF TypeRest, ConsType, SetsType, consVars, ramVars,
     TurnStarts, TurnCancelled, TurnStep, TurnWakes, Registered, Look, Deadline, TurnEnds, NotifyWaiters
<1>5. RamType'
  <2>1. token' \in BOOLEAN /\ UNCHANGED cleared
    BY <1>a DEF TypeRest, RamType, ramVars, TurnStarts, TurnCancelled, TurnStep, TurnWakes, Registered, Look, Deadline,
       TurnEnds, NotifyWaiters
  <2> QED BY <1>a, <1>1, <2>1 DEF TypeRest, RamType, Quiet
<1>6. ClockType'
  <2>1. UNCHANGED <<memoryUp, starts, enabled, cancels>>
    BY DEF TurnStarts, TurnCancelled, TurnStep, TurnWakes, Registered, Look, Deadline, TurnEnds, NotifyWaiters
  <2>2. turns' \in 0..MaxChatTurns
    BY <1>a, RunLimitAssumption DEF TypeRest, ClockType, TurnStarts, TurnCancelled, TurnStep, TurnWakes, Registered, Look, Deadline,
       TurnEnds, NotifyWaiters
  <2>3. gate' \in Holders /\ cpc' \in {"none", "registered", "waiting", "holding"} /\ notifying' \in BOOLEAN /\ woken' \in BOOLEAN
    BY <1>a DEF TypeRest, ClockType, Holders, TurnStarts, TurnCancelled, TurnStep, TurnWakes, Registered, Look, Deadline,
       TurnEnds, NotifyWaiters, Claim, Release
  <2> QED BY <1>a, <2>1, <2>2, <2>3 DEF TypeRest, ClockType
<1> QED BY <1>2, <1>3, <1>4, <1>5, <1>6 DEF MemoryInv, TypeRest

(* The owner's switch, the clock, and the steps of a consolidation that     *)
(* write no row.                                                            *)
LEMMA QuietStepsKeep ==
  ASSUME MemoryInv,
         \/ SetEnabled \/ ConsolidationReply \/ ConsolidationDropped \/ UNCHANGED runsVars
         \/ \E b \in Batches, by \in {"request", "idle"} : ConsolidationClaim(b, by)
         \/ \E s \in Suggestions : Age(s)
  PROVE  MemoryInv'
<1> USE DEF runsVars, ramVars, turnVars, consVars
<1>0. TypeRest /\ RowInv /\ PlaceInv /\ InputInv BY DEF MemoryInv
<1>1. Quiet /\ UNCHANGED <<flagged, removing, proposed, refused, token, cleared>>
  BY DEF Quiet, SetEnabled, ConsolidationReply, ConsolidationDropped, ConsolidationClaim, Age
<1>2. RowInv' /\ InputInv' BY <1>0, <1>1, QuietKeeps
<1>3. aged' \subseteq Suggestions
  BY <1>0 DEF TypeRest, SetsType, SetEnabled, ConsolidationReply, ConsolidationDropped, ConsolidationClaim, Age
<1>4. SetsType' /\ RamType' BY <1>0, <1>1, <1>3 DEF TypeRest, SetsType, RamType, Quiet
<1>5. ConsType' /\ (kpc # "none" => batch \in Batches)'
  BY <1>0 DEF TypeRest, ConsType, PlaceInv, SetEnabled, ConsolidationReply, ConsolidationDropped, ConsolidationClaim, Age, Leave, None
<1>6. PlaceInv' BY <1>0, <1>1, <1>5 DEF PlaceInv, Quiet, AtWork
<1>7. ClockType'
  <2>1. UNCHANGED <<cpc, woken, turns>>
    BY DEF SetEnabled, ConsolidationReply, ConsolidationDropped, ConsolidationClaim, Age
  <2>2. cancels' \in 0..MaxCancels
    <3>1. cancels' = cancels \/ (cancels' = cancels + 1 /\ cancels < MaxCancels)
      BY DEF SetEnabled, ConsolidationReply, ConsolidationDropped, ConsolidationClaim, Age
    <3> QED BY <1>0, <3>1, RunLimitAssumption DEF TypeRest, ClockType
  <2>4. enabled' \in BOOLEAN
    BY <1>0 DEF TypeRest, ClockType, SetEnabled, ConsolidationReply, ConsolidationDropped, ConsolidationClaim, Age
  <2>3. gate' \in Holders /\ notifying' \in BOOLEAN
    BY <1>0 DEF TypeRest, ClockType, Holders, SetEnabled, ConsolidationReply, ConsolidationDropped, ConsolidationClaim, Age,
       Leave, Claim, Release
  <2> QED BY <1>0, <1>1, <2>1, <2>2, <2>3, <2>4 DEF TypeRest, ClockType, Quiet
<1> QED BY <1>2, <1>4, <1>5, <1>6, <1>7 DEF MemoryInv, TypeRest

(* A consolidation writes the row of its batch, which is no suggestion.     *)
LEMMA ConsolidationWrites ==
  ASSUME MemoryInv, ConsolidationBegin \/ ConsolidationEnd
  PROVE  RowsFit(runs') /\ \A s \in Suggestions : runs'[s] = runs[s]
<1>0. RowInv BY DEF MemoryInv
<1>1. batch \in Batches BY DEF MemoryInv, PlaceInv, ConsolidationBegin, ConsolidationEnd
<1>2. batch \in Receipts /\ batch \notin Suggestions BY <1>1, RunAssumption DEF Receipts
<1>3. \A s \in Suggestions : s \in Receipts BY DEF Receipts
<1>4. RowsFit(runs) BY <1>0 DEF RowInv
<1>5. SUFFICES RowsFit(runs') /\ (OnlyRow(runs', batch) \/ runs' = runs)
  BY <1>2, <1>3 DEF OnlyRow
<1>6. CASE ConsolidationBegin
  <2>1. PICK row : row = ReceiptRow("running", NoClass) OBVIOUS
  <2>2. RowFits(row) BY <2>1, RowFields, Named, ClassNames DEF RowFits
  <2>3. runs' = runs \/ runs' = [runs EXCEPT ![batch] = row] BY <1>6, <2>1 DEF ConsolidationBegin
  <2> QED BY <1>0, <1>2, <1>4, <2>2, <2>3, Written
<1>7. CASE ConsolidationEnd
  <2>1. PICK class \in {"preempted", "cancelled", "error"} : runs' = FailedRun(batch, class) \/ runs' = FinishOutcome(batch)
    BY <1>7 DEF ConsolidationEnd
  <2> QED BY <1>0, <1>2, <2>1, FailedFacts, FinishFacts
<1> QED BY <1>6, <1>7

LEMMA ConsolidationKeepsInputs ==
  ASSUME MemoryInv, ConsolidationBegin \/ ConsolidationEnd
  PROVE  MemoryInv'
<1> USE DEF ramVars, turnVars, consVars
<1>0. TypeRest /\ RowInv /\ PlaceInv /\ InputInv BY DEF MemoryInv
<1>1. UNCHANGED <<memoryUp, starts, queue, wpc, job, token, cleared, result, removing, aged, enabled, cpc, woken, turns, cancels>>
  BY DEF ConsolidationBegin, ConsolidationEnd
<1>2. RowInv' /\ InputInv' BY <1>1, ConsolidationWrites, OtherRows
<1>3. batch \in Batches BY <1>0 DEF PlaceInv, ConsolidationBegin, ConsolidationEnd
<1>4. ConsType' /\ (kpc # "none" => batch \in Batches)'
  BY <1>0, <1>3 DEF TypeRest, ConsType, ConsolidationBegin, ConsolidationEnd, Leave, None
<1>5. PlaceInv' BY <1>0, <1>1, <1>4 DEF PlaceInv, AtWork
<1>6. RamType' BY <1>0, <1>1 DEF TypeRest, RamType
<1>7. SetsType'
  <2>1. flagged' \subseteq flagged /\ refused' \subseteq refused /\ proposed' \subseteq proposed \cup {batch}
    BY DEF ConsolidationBegin, ConsolidationEnd
  <2> QED BY <1>0, <1>1, <1>3, <2>1 DEF TypeRest, SetsType, Receipts
<1>8. ClockType'
  <2>1. gate' \in Holders /\ notifying' \in BOOLEAN
    BY <1>0 DEF TypeRest, ClockType, Holders, ConsolidationBegin, ConsolidationEnd, Leave, Release
  <2> QED BY <1>0, <1>1, <2>1 DEF TypeRest, ClockType
<1> QED BY <1>2, <1>4, <1>5, <1>6, <1>7, <1>8 DEF MemoryInv, TypeRest

(* What a step of the worker on its job changes: at most the row of the     *)
(* job, and that one only while it is open.                                 *)
JobStep ==
  /\ AtWork /\ AtWork'
  /\ UNCHANGED <<memoryUp, starts, queue, job, token, cleared, aged, removing, enabled, gate, notifying, cpc, woken, turns, cancels,
                 kpc, batch, kind, refused>>
  /\ RowsFit(runs') /\ (runs' = runs \/ (OnlyRow(runs', job) /\ OpenRow(runs[job])))
  /\ flagged' \subseteq flagged /\ proposed' \subseteq proposed \cup {job}
  /\ wpc' \in {"begin", "generating", "replied", "failing", "settle"}
  /\ result' \in {"ok", "error", "cancelled", "preempted"} /\ (wpc' = "failing" => result' # "ok")
  /\ wpc' \in {"generating", "replied"} => runs'[job].state = "running" \/ (OpenRow(runs'[job]) => Has(queue, job))
  /\ wpc' = "settle" /\ result' = "ok" => (OpenRow(runs'[job]) => Has(queue, job))
LEMMA JobStepKeeps ==
  ASSUME MemoryInv, JobStep
  PROVE  MemoryInv'
<1>0. TypeRest /\ RowInv /\ PlaceInv /\ InputInv BY DEF MemoryInv
<1>1. RowInv' BY DEF JobStep, RowInv
<1>2. job \in Suggestions /\ Suggestions \subseteq Receipts /\ removing \subseteq Suggestions
  BY <1>0 DEF PlaceInv, JobStep, Receipts, TypeRest, SetsType
<1>3. ASSUME NEW s \in removing PROVE runs'[s] = runs[s]
  <2>1. ~OpenRow(runs[s]) /\ s \in Receipts BY <1>0, <1>2 DEF InputInv
  <2> QED BY <2>1 DEF JobStep, OnlyRow
<1>4. (\A s \in removing : ~OpenRow(runs[s]) /\ runs[s].state # "absent")' BY <1>0, <1>3 DEF InputInv, JobStep
<1>5. ASSUME memoryUp', NEW s \in Suggestions, OpenRow(runs'[s]), s # job PROVE Has(queue, s)
  <2>1. runs'[s] = runs[s] BY <1>2, <1>5 DEF JobStep, OnlyRow
  <2> QED BY <1>0, <1>5, <2>1 DEF InputInv, JobStep
<1>6. InputInv' BY <1>4, <1>5 DEF InputInv, JobStep
<1>7. PlaceInv' BY <1>0 DEF PlaceInv, JobStep
<1>8. RamType' BY <1>0 DEF TypeRest, RamType, JobStep
<1>9. SetsType' BY <1>0, <1>2 DEF TypeRest, SetsType, JobStep
<1>10. ConsType' /\ ClockType' BY <1>0 DEF TypeRest, ConsType, ClockType, JobStep
<1> QED BY <1>1, <1>6, <1>7, <1>8, <1>9, <1>10 DEF MemoryInv, TypeRest

LEMMA JobSteps ==
  ASSUME MemoryInv, WorkerRecheck \/ WorkerBegin \/ WorkerSelect \/ WorkerFinish \/ WorkerFail
  PROVE  JobStep
<1> USE DEF Finished, Failing, turnVars, consVars
<1>0. TypeRest /\ RowInv /\ PlaceInv /\ InputInv BY DEF MemoryInv
<1>1. AtWork /\ AtWork' BY DEF AtWork, WorkerRecheck, WorkerBegin, WorkerSelect, WorkerFinish, WorkerFail
<1>2. UNCHANGED <<memoryUp, starts, queue, job, token, cleared, aged, removing, enabled, gate, notifying, cpc, woken, turns, cancels,
                 kpc, batch, kind, refused>>
  BY DEF WorkerRecheck, WorkerBegin, WorkerSelect, WorkerFinish, WorkerFail
<1>3. flagged' \subseteq flagged /\ proposed' \subseteq proposed \cup {job}
  BY DEF WorkerRecheck, WorkerBegin, WorkerSelect, WorkerFinish, WorkerFail
<1>4. job \in Suggestions /\ job \in Receipts BY <1>0, <1>1 DEF PlaceInv, Receipts
<1>5. RowsFit(runs) BY <1>0 DEF RowInv
<1>6. result \in {"ok", "error", "cancelled", "preempted"} BY <1>0 DEF TypeRest, RamType
<1>7. CASE WorkerRecheck
  <2>1. runs' = runs /\ (wpc' = "begin" \/ (wpc' = "settle" /\ result' \in {"error", "cancelled"})) /\ (wpc' = "begin" => result' = result)
    BY <1>7 DEF WorkerRecheck
  <2> QED BY <1>1, <1>2, <1>3, <1>5, <1>6, <2>1 DEF JobStep
<1>8. CASE WorkerBegin
  <2>1. PICK row : row = ReceiptRow("running", NoClass) OBVIOUS
  <2>2. RowFits(row) /\ row.state = "running" BY <2>1, RowFields, Named, ClassNames DEF RowFits
  <2>3. CASE runs' = runs /\ wpc' = "settle" /\ result' = "ok" /\ runs[job].state = "done"
    <3>1. RowFits(runs[job]) BY <1>4, <1>5 DEF RowsFit
    <3>2. ~OpenRow(runs[job]) BY <2>3, <3>1 DEF RowFits, OpenRow
    <3> QED BY <1>1, <1>2, <1>3, <1>5, <2>3, <3>2 DEF JobStep
  <2>4. CASE runs' = runs /\ wpc' = "settle" /\ result' \in {"error", "cancelled"}
    BY <1>1, <1>2, <1>3, <1>5, <2>4 DEF JobStep
  <2>5. CASE runs' = [runs EXCEPT ![job] = row] /\ Startable(job) /\ wpc' = "generating" /\ result' = result
    <3>1. RowsFit(runs') /\ OnlyRow(runs', job) /\ runs'[job] = row BY <1>0, <1>4, <2>2, <2>5, Written
    <3>2. OpenRow(runs[job]) BY <2>5 DEF Startable, OpenRow, Preempted
    <3> QED BY <1>1, <1>2, <1>3, <1>6, <2>2, <2>5, <3>1, <3>2 DEF JobStep
  <2> QED BY <1>8, <2>1, <2>3, <2>4, <2>5 DEF WorkerBegin
<1>9. CASE WorkerSelect
  <2>1. /\ runs' = runs /\ wpc = "generating"
        /\ (wpc' = "replied" /\ result' = result) \/ (wpc' = "failing" /\ result' \in {"error", "cancelled", "preempted"})
    BY <1>9 DEF WorkerSelect
  <2>2. runs[job].state = "running" \/ (OpenRow(runs[job]) => Has(queue, job)) BY <1>0, <2>1 DEF InputInv
  <2> QED BY <1>1, <1>2, <1>3, <1>5, <1>6, <2>1, <2>2 DEF JobStep
<1>10. CASE WorkerFinish
  <2>1. wpc = "replied" BY <1>10 DEF WorkerFinish
  <2>2. runs[job].state = "running" \/ (OpenRow(runs[job]) => Has(queue, job)) BY <1>0, <2>1 DEF InputInv
  <2>3. CASE runs' = runs /\ wpc' = "failing" /\ result' \in {"error", "cancelled"}
    BY <1>1, <1>2, <1>3, <1>5, <2>3 DEF JobStep
  <2>4. CASE runs' = FinishOutcome(job) /\ wpc' = "settle" /\ result' = "ok"
    <3>1. /\ RowsFit(runs') /\ OnlyRow(runs', job) /\ (~OpenRow(runs[job]) => runs' = runs)
          /\ ~OpenRow(runs'[job]) \/ (runs' = runs /\ runs[job].state # "running")
      BY <1>0, <1>4, <2>4, FinishFacts
    <3>2. OpenRow(runs'[job]) => Has(queue, job) BY <2>2, <3>1
    <3> QED BY <1>1, <1>2, <1>3, <2>4, <3>1, <3>2 DEF JobStep
  <2> QED BY <1>10, <2>3, <2>4 DEF WorkerFinish
<1>11. CASE WorkerFail
  <2>1. wpc = "failing" /\ runs' = FailedRun(job, result) /\ wpc' = "settle" /\ result' = result BY <1>11 DEF WorkerFail
  <2>2. result \in {"error", "cancelled", "preempted"} BY <1>0, <1>6, <2>1 DEF PlaceInv
  <2>3. RowsFit(runs') /\ OnlyRow(runs', job) /\ (~OpenRow(runs[job]) => runs' = runs)
    BY <1>0, <1>4, <2>1, <2>2, FailedFacts
  <2> QED BY <1>1, <1>2, <1>3, <2>1, <2>2, <2>3 DEF JobStep
<1> QED BY <1>7, <1>8, <1>9, <1>10, <1>11

(* Several receipts are closed at once.                                     *)
LEMMA SweptRows ==
  ASSUME RowInv, NEW gone \in SUBSET Receipts, NEW class \in {"cancelled", "error"}, NEW f,
         f = [r \in Receipts |-> IF r \in gone THEN FailedRun(r, class)[r] ELSE runs[r]]
  PROVE  /\ RowsFit(f)
         /\ \A r \in Receipts : r \in gone => ~OpenRow(f[r])
         /\ \A r \in Receipts : r \notin gone \/ ~OpenRow(runs[r]) => f[r] = runs[r]
<1>1. ASSUME NEW r \in Receipts
      PROVE  /\ RowFits(f[r]) /\ (r \in gone => ~OpenRow(f[r]))
             /\ r \notin gone \/ ~OpenRow(runs[r]) => f[r] = runs[r]
  <2>1. f[r] = IF r \in gone THEN FailedRun(r, class)[r] ELSE runs[r] OBVIOUS
  <2>2. CASE r \in gone
    <3>1. class \in {"preempted", "cancelled", "error"} /\ class # "preempted" OBVIOUS
    <3>2. PICK g : g = FailedRun(r, class) /\ RowsFit(g) /\ ~OpenRow(g[r]) /\ (~OpenRow(runs[r]) => g = runs)
      BY <3>1, FailedFacts
    <3> QED BY <2>1, <2>2, <3>2 DEF RowsFit
  <2>3. CASE r \notin gone BY <2>1, <2>3 DEF RowInv, RowsFit
  <2> QED BY <2>2, <2>3
<1>2. \A r \in Receipts : f[r] \in Rows BY <1>1 DEF RowFits
<1>3. f \in [Receipts -> Rows] BY <1>2
<1> QED BY <1>1, <1>3 DEF RowsFit

(* Under the queue lock the worker drops inputs together with their         *)
(* receipts, and takes the first of what is left.                           *)
LEMMA TickKeeps ==
  ASSUME MemoryInv, WorkerTick
  PROVE  MemoryInv'
<1>0. TypeRest /\ RowInv /\ PlaceInv /\ InputInv BY DEF MemoryInv
<1>1. PICK rest : rest = Without(queue, Dropped) OBVIOUS
<1>2. /\ wpc = "sleep" /\ runs' = [r \in Receipts |-> IF r \in Dropped THEN FailedRun(r, "error")[r] ELSE runs[r]]
      /\ aged' \subseteq aged
      /\ UNCHANGED <<memoryUp, starts, flagged, notifying, result, enabled, removing, cpc, woken, turns, cancels,
                     kpc, batch, kind, proposed, refused>>
  BY DEF WorkerTick, turnVars, consVars
<1>3. \/ wpc' \in {"off", "sleep"} /\ queue' = rest /\ UNCHANGED <<gate, job, token, cleared>>
      \/ /\ rest # <<>> /\ gate' = "suggestion" /\ wpc' = "claimed"
         /\ queue' = Tail(rest) /\ job' = Head(rest) /\ token' = FALSE /\ cleared' = FALSE
  BY <1>1 DEF WorkerTick, Claim
<1>4. queue \in Seq(Suggestions) /\ Len(queue) <= MaxQueue + 1 BY <1>0 DEF TypeRest, RamType
<1>5. rest \in Seq(Suggestions) /\ Len(rest) <= Len(queue) /\ \A x : Has(rest, x) <=> x \notin Dropped /\ Has(queue, x)
  BY <1>1, <1>4, WithoutHolds
<1>6. Len(rest) \in Nat /\ Len(rest) <= MaxQueue + 1 BY <1>4, <1>5, RunLimitAssumption
<1>7. Dropped \in SUBSET Receipts /\ Suggestions \subseteq Receipts BY DEF Dropped, Receipts
<1>8. /\ RowsFit(runs') /\ \A r \in Receipts : r \in Dropped => ~OpenRow(runs'[r])
      /\ \A r \in Receipts : r \notin Dropped \/ ~OpenRow(runs[r]) => runs'[r] = runs[r]
  BY <1>0, <1>2, <1>7, SweptRows
<1>9. RowInv' BY <1>8 DEF RowInv
<1>10. ASSUME memoryUp', NEW s \in Suggestions, OpenRow(runs'[s]) PROVE Has(rest, s)
  <2>1. s \notin Dropped /\ OpenRow(runs[s]) BY <1>7, <1>8, <1>10
  <2>2. Has(queue, s) BY <1>0, <1>2, <1>10, <2>1 DEF InputInv, AtWork
  <2> QED BY <1>5, <2>1, <2>2
<1>11. (\A s \in removing : ~OpenRow(runs[s]) /\ runs[s].state # "absent")'
  <2>1. removing \subseteq Receipts BY <1>0, <1>7 DEF TypeRest, SetsType
  <2>2. ASSUME NEW s \in removing PROVE ~OpenRow(runs'[s]) /\ runs'[s].state # "absent"
    BY <1>0, <1>8, <2>1 DEF InputInv
  <2> QED BY <1>2, <2>2
<1>12. SetsType' /\ ConsType' BY <1>0, <1>2 DEF TypeRest, SetsType, ConsType
<1>13. ClockType' BY <1>0, <1>2, <1>3 DEF TypeRest, ClockType, Holders
<1>14. CASE wpc' \in {"off", "sleep"} /\ queue' = rest /\ UNCHANGED <<gate, job, token, cleared>>
  <2>1. InputInv' BY <1>10, <1>11, <1>14 DEF InputInv
  <2>2. PlaceInv' BY <1>0, <1>2, <1>14 DEF PlaceInv, AtWork
  <2>3. RamType' BY <1>0, <1>2, <1>5, <1>6, <1>14 DEF TypeRest, RamType
  <2> QED BY <1>9, <1>12, <1>13, <2>1, <2>2, <2>3 DEF MemoryInv, TypeRest
<1>15. CASE /\ rest # <<>> /\ gate' = "suggestion" /\ wpc' = "claimed"
            /\ queue' = Tail(rest) /\ job' = Head(rest) /\ token' = FALSE /\ cleared' = FALSE
  <2>1. /\ job' \in Suggestions /\ queue' \in Seq(Suggestions) /\ Len(queue') = Len(rest) - 1
        /\ \A x : Has(rest, x) => x = job' \/ Has(queue', x)
    BY <1>5, <1>15, FrontTaken
  <2>2. Len(queue') <= MaxQueue BY <1>6, <2>1, RunLimitAssumption
  <2>3. AtWork' BY <1>15 DEF AtWork
  <2>4. InputInv' BY <1>10, <1>11, <1>15, <2>1, <2>3 DEF InputInv
  <2>5. PlaceInv' BY <1>0, <1>2, <1>15, <2>1, <2>2 DEF PlaceInv
  <2>6. RamType'
    <3>1. Len(queue') \in Nat BY <2>1
    <3>2. Len(queue') <= MaxQueue + 1 BY <2>2, <3>1, RunLimitAssumption
    <3> QED BY <1>0, <1>2, <1>15, <2>1, <3>2 DEF TypeRest, RamType
  <2> QED BY <1>9, <1>12, <1>13, <2>4, <2>5, <2>6 DEF MemoryInv, TypeRest
<1> QED BY <1>3, <1>14, <1>15

(* A job that ends leaves its receipt closed, or goes back to the queue.    *)
LEMMA SettleKeeps ==
  ASSUME MemoryInv, WorkerSettle
  PROVE  MemoryInv'
<1>0. TypeRest /\ RowInv /\ PlaceInv /\ InputInv BY DEF MemoryInv
<1>1. /\ wpc = "settle" /\ wpc' = "sleep" /\ runs' = SettledRuns /\ aged' \subseteq aged
      /\ job' = None /\ token' = FALSE /\ result' = "ok" /\ gate' = "free" /\ notifying' = TRUE
      /\ queue' = IF Requeues THEN <<job>> \o queue ELSE queue
      /\ UNCHANGED <<memoryUp, starts, flagged, cleared, enabled, removing, cpc, woken, turns, cancels, kpc, batch, kind, proposed, refused>>
  BY DEF WorkerSettle, Release, turnVars, consVars
<1>2. job \in Suggestions /\ Len(queue) <= MaxQueue /\ queue \in Seq(Suggestions) /\ job \in Receipts
  BY <1>0, <1>1 DEF PlaceInv, AtWork, TypeRest, RamType, Receipts
<1>3. Suggestions \subseteq Receipts /\ removing \subseteq Suggestions BY <1>0 DEF Receipts, TypeRest, SetsType
<1>4. /\ RowsFit(runs') /\ (runs' = runs \/ (OnlyRow(runs', job) /\ OpenRow(runs[job])))
      /\ OpenRow(runs'[job]) => Has(queue', job)
  <2>1. CASE Requeues
    <3>1. runs' = runs /\ queue' = <<job>> \o queue BY <1>1, <2>1 DEF SettledRuns
    <3> QED BY <1>0, <1>2, <3>1, FrontPut DEF RowInv
  <2>2. CASE ~Requeues /\ result = "ok"
    <3>1. runs' = runs /\ queue' = queue BY <1>1, <2>2 DEF SettledRuns
    <3> QED BY <1>0, <1>1, <2>2, <3>1 DEF RowInv, InputInv
  <2>3. CASE ~Requeues /\ result # "ok"
    <3>1. PICK class \in {"cancelled", "error"} : runs' = FailedRun(job, class)
      BY <1>0, <1>1, <2>3 DEF SettledRuns, DiscardClass, TypeRest, RamType
    <3>2. class \in {"preempted", "cancelled", "error"} /\ class # "preempted" OBVIOUS
    <3> QED BY <1>0, <1>2, <3>1, <3>2, FailedFacts
  <2> QED BY <2>1, <2>2, <2>3
<1>5. queue' \in Seq(Suggestions) /\ Len(queue') <= MaxQueue + 1 /\ \A x : Has(queue, x) => Has(queue', x)
  <2>1. CASE Requeues
    <3>1. queue' = <<job>> \o queue BY <1>1, <2>1
    <3>2. queue' \in Seq(Suggestions) /\ Len(queue') = Len(queue) + 1 /\ \A x : Has(queue, x) => Has(queue', x)
      BY <1>2, <3>1, FrontPut
    <3>3. Len(queue) \in Nat BY <1>2
    <3> QED BY <1>2, <3>2, <3>3, RunLimitAssumption
  <2>2. CASE ~Requeues
    <3>1. queue' = queue BY <1>1, <2>2
    <3>2. Len(queue) \in Nat BY <1>2
    <3> QED BY <1>2, <3>1, <3>2, RunLimitAssumption
  <2> QED BY <2>1, <2>2
<1>6. RowInv' BY <1>4 DEF RowInv
<1>7. (\A s \in removing : ~OpenRow(runs[s]) /\ runs[s].state # "absent")'
  <2>1. ASSUME NEW s \in removing PROVE runs'[s] = runs[s]
    <3>1. ~OpenRow(runs[s]) /\ s \in Receipts BY <1>0, <1>3 DEF InputInv
    <3> QED BY <1>4, <3>1 DEF OnlyRow
  <2> QED BY <1>0, <1>1, <2>1 DEF InputInv
<1>8. ASSUME memoryUp', NEW s \in Suggestions, OpenRow(runs'[s]) PROVE Has(queue', s)
  <2>1. CASE s = job BY <1>4, <1>8, <2>1
  <2>2. CASE s # job
    <3>1. runs'[s] = runs[s] BY <1>3, <1>4, <2>2 DEF OnlyRow
    <3>2. Has(queue, s) BY <1>0, <1>1, <1>8, <2>2, <3>1 DEF InputInv
    <3> QED BY <1>5, <3>2
  <2> QED BY <2>1, <2>2
<1>9. InputInv' BY <1>1, <1>7, <1>8 DEF InputInv
<1>10. PlaceInv' BY <1>0, <1>1 DEF PlaceInv, AtWork
<1>11. RamType' BY <1>0, <1>1, <1>5 DEF TypeRest, RamType
<1>12. SetsType' /\ ConsType' BY <1>0, <1>1 DEF TypeRest, SetsType, ConsType
<1>13. ClockType' BY <1>0, <1>1 DEF TypeRest, ClockType, Holders
<1> QED BY <1>6, <1>9, <1>10, <1>11, <1>12, <1>13 DEF MemoryInv, TypeRest

LEMMA EnqueueKeeps ==
  ASSUME MemoryInv, NEW s \in Suggestions, Enqueue(s)
  PROVE  MemoryInv'
<1>0. TypeRest /\ RowInv /\ PlaceInv /\ InputInv BY DEF MemoryInv
<1>1. PICK row : row = ReceiptRow("idle", NoClass) OBVIOUS
<1>2. RowFits(row) BY <1>1, RowFields, Named, ClassNames DEF RowFits
<1>3. /\ memoryUp /\ Len(queue) < MaxQueue /\ runs[s].state = "absent" /\ runs' = [runs EXCEPT ![s] = row]
      /\ queue' = Append(queue, s) /\ wpc' = IF wpc = "off" THEN "sleep" ELSE wpc
      /\ UNCHANGED <<memoryUp, starts, flagged, gate, notifying, job, token, cleared, result, aged, enabled, removing,
                     cpc, woken, turns, cancels, kpc, batch, kind, proposed, refused>>
  BY <1>1 DEF Enqueue, turnVars, consVars
<1>4. AtWork' = AtWork /\ (wpc' = wpc \/ (wpc = "off" /\ wpc' = "sleep")) BY <1>3 DEF AtWork
<1>5. queue \in Seq(Suggestions) /\ Suggestions \subseteq Receipts /\ removing \subseteq Suggestions
  BY <1>0 DEF TypeRest, RamType, SetsType, Receipts
<1>6. RowsFit(runs') /\ OnlyRow(runs', s) BY <1>0, <1>2, <1>3, <1>5, Written
<1>7. /\ queue' \in Seq(Suggestions) /\ Len(queue') = Len(queue) + 1 /\ Has(queue', s)
      /\ \A x : Has(queue, x) => Has(queue', x)
  BY <1>3, <1>5, BackPut
<1>8. Len(queue') <= MaxQueue /\ Len(queue') <= MaxQueue + 1
  <2>1. Len(queue) \in Nat BY <1>5
  <2> QED BY <1>3, <1>7, <2>1, RunLimitAssumption
<1>9. ASSUME NEW q \in Suggestions, q # s PROVE runs'[q] = runs[q] BY <1>5, <1>6, <1>9 DEF OnlyRow
<1>10. (\A q \in removing : ~OpenRow(runs[q]) /\ runs[q].state # "absent")'
  <2>1. s \notin removing BY <1>0, <1>3 DEF InputInv
  <2>2. ASSUME NEW q \in removing PROVE runs'[q] = runs[q] BY <1>5, <1>9, <2>1
  <2> QED BY <1>0, <1>3, <2>2 DEF InputInv
<1>11. ASSUME NEW q \in Suggestions, OpenRow(runs'[q]) PROVE Has(queue', q) \/ (AtWork /\ job = q)
  <2>1. CASE q = s BY <1>7, <2>1
  <2>2. CASE q # s BY <1>0, <1>3, <1>7, <1>9, <1>11, <2>2 DEF InputInv
  <2> QED BY <2>1, <2>2
<1>12. (wpc \in {"generating", "replied"} => runs[job].state = "running" \/ (OpenRow(runs[job]) => Has(queue, job)))'
  <2>1. SUFFICES ASSUME wpc' \in {"generating", "replied"} PROVE runs'[job].state = "running" \/ (OpenRow(runs'[job]) => Has(queue', job))
    BY <1>3
  <2>2. wpc' = wpc /\ job \in Suggestions BY <1>0, <1>4, <2>1 DEF PlaceInv, AtWork
  <2>3. CASE job = s BY <1>7, <2>3
  <2>4. CASE job # s
    <3>1. runs'[job] = runs[job] BY <1>9, <2>2, <2>4
    <3> QED BY <1>0, <1>7, <2>1, <2>2, <3>1 DEF InputInv
  <2> QED BY <2>3, <2>4
<1>13. (wpc = "settle" /\ result = "ok" => (OpenRow(runs[job]) => Has(queue, job)))'
  <2>1. SUFFICES ASSUME wpc' = "settle", result = "ok" PROVE OpenRow(runs'[job]) => Has(queue', job)
    BY <1>3
  <2>2. wpc' = wpc /\ job \in Suggestions BY <1>0, <1>4, <2>1 DEF PlaceInv, AtWork
  <2>3. CASE job = s BY <1>7, <2>3
  <2>4. CASE job # s
    <3>1. runs'[job] = runs[job] BY <1>9, <2>2, <2>4
    <3> QED BY <1>0, <1>7, <2>1, <2>2, <3>1 DEF InputInv
  <2> QED BY <2>3, <2>4
<1>14. InputInv' BY <1>3, <1>4, <1>10, <1>11, <1>12, <1>13 DEF InputInv
<1>15. RowInv' BY <1>6 DEF RowInv
<1>16. PlaceInv' BY <1>0, <1>3, <1>4, <1>8 DEF PlaceInv
<1>17. RamType' BY <1>0, <1>3, <1>4, <1>7, <1>8 DEF TypeRest, RamType
<1>18. SetsType' /\ ConsType' /\ ClockType' BY <1>0, <1>3 DEF TypeRest, SetsType, ConsType, ClockType
<1> QED BY <1>14, <1>15, <1>16, <1>17, <1>18 DEF MemoryInv, TypeRest

(* What the owner or a restart does to the inputs: the receipts that change *)
(* become closed, an input that leaves the queue has a closed receipt, and  *)
(* the worker stays where it is.                                            *)
Closing ==
  /\ RowsFit(runs') /\ queue' \in Seq(Suggestions) /\ Len(queue') <= Len(queue)
  /\ \A r \in Receipts : runs'[r] = runs[r] \/ (~OpenRow(runs'[r]) /\ runs'[r].state # "absent")
  /\ \A s \in Suggestions : OpenRow(runs'[s]) /\ Has(queue, s) => Has(queue', s)
  /\ \A s \in removing' : s \in Suggestions /\ (s \in removing \/ (~OpenRow(runs'[s]) /\ runs'[s].state # "absent"))
  /\ UNCHANGED <<wpc, job, result, gate, notifying, cpc, woken, turns, kpc, batch, kind, proposed, enabled>>
  /\ flagged' \subseteq Receipts /\ refused' \subseteq Receipts /\ aged' \subseteq aged
  /\ token' \in BOOLEAN /\ cleared' \in BOOLEAN /\ cancels' \in 0..MaxCancels
  /\ \/ UNCHANGED <<memoryUp, starts>>
     \/ memoryUp' = TRUE /\ starts' \in 0..MaxStarts /\ \A r \in Receipts : ~OpenRow(runs'[r])
LEMMA ClosingKeeps ==
  ASSUME MemoryInv, Closing
  PROVE  MemoryInv'
<1>0. TypeRest /\ RowInv /\ PlaceInv /\ InputInv BY DEF MemoryInv
<1>1. RowInv' BY DEF Closing, RowInv
<1>2. Suggestions \subseteq Receipts /\ removing \subseteq Suggestions BY <1>0 DEF Receipts, TypeRest, SetsType
<1>3. (\A s \in removing : ~OpenRow(runs[s]) /\ runs[s].state # "absent")'
  <2>1. ASSUME NEW s \in removing' PROVE ~OpenRow(runs'[s]) /\ runs'[s].state # "absent"
    <3>1. CASE s \in removing BY <1>0, <1>2, <3>1 DEF InputInv, Closing
    <3>2. CASE s \notin removing BY <3>2 DEF Closing
    <3> QED BY <3>1, <3>2
  <2> QED BY <2>1
<1>4. ASSUME NEW s \in Suggestions, OpenRow(runs'[s])
      PROVE  runs'[s] = runs[s] /\ memoryUp' = memoryUp /\ (Has(queue, s) => Has(queue', s))
  BY <1>2, <1>4 DEF Closing
<1>5. ASSUME memoryUp', NEW s \in Suggestions, OpenRow(runs'[s]) PROVE Has(queue', s) \/ (AtWork /\ job = s)
  BY <1>0, <1>4, <1>5 DEF InputInv
<1>6. AtWork => job \in Suggestions BY <1>0 DEF PlaceInv
<1>7. wpc \in {"generating", "replied"} => runs'[job].state = "running" \/ (OpenRow(runs'[job]) => Has(queue', job))
  <2>1. SUFFICES ASSUME wpc \in {"generating", "replied"}, OpenRow(runs'[job])
                 PROVE runs'[job].state = "running" \/ Has(queue', job)
    OBVIOUS
  <2>2. job \in Suggestions BY <1>6, <2>1 DEF AtWork
  <2>3. runs'[job] = runs[job] /\ (Has(queue, job) => Has(queue', job)) BY <1>4, <2>1, <2>2
  <2> QED BY <1>0, <2>1, <2>3 DEF InputInv
<1>8. wpc = "settle" /\ result = "ok" => (OpenRow(runs'[job]) => Has(queue', job))
  <2>1. SUFFICES ASSUME wpc = "settle", result = "ok", OpenRow(runs'[job]) PROVE Has(queue', job)
    OBVIOUS
  <2>2. job \in Suggestions BY <1>6, <2>1 DEF AtWork
  <2>3. runs'[job] = runs[job] /\ (Has(queue, job) => Has(queue', job)) BY <1>4, <2>1, <2>2
  <2> QED BY <1>0, <2>1, <2>3 DEF InputInv
<1>9. UNCHANGED <<wpc, job, result>> /\ AtWork' = AtWork BY DEF Closing, AtWork
<1>10. InputInv' BY <1>3, <1>5, <1>7, <1>8, <1>9 DEF InputInv
<1>11. Len(queue) \in Nat /\ Len(queue') \in Nat /\ Len(queue') <= Len(queue) /\ Len(queue) <= MaxQueue + 1
       /\ (AtWork => Len(queue) <= MaxQueue)
  BY <1>0 DEF Closing, TypeRest, RamType, PlaceInv
<1>12. Len(queue') <= MaxQueue + 1 /\ (AtWork => Len(queue') <= MaxQueue) BY <1>11, RunLimitAssumption
<1>13. PlaceInv' BY <1>0, <1>9, <1>12 DEF PlaceInv, Closing
<1>14. RamType' BY <1>0, <1>12 DEF TypeRest, RamType, Closing
<1>15. SetsType' BY <1>0 DEF TypeRest, SetsType, Closing
<1>16. ConsType' BY <1>0 DEF TypeRest, ConsType, Closing
<1>17. ClockType' BY <1>0 DEF TypeRest, ClockType, Closing
<1> QED BY <1>1, <1>10, <1>13, <1>14, <1>15, <1>16, <1>17 DEF MemoryInv, TypeRest

LEMMA ClosingSteps ==
  ASSUME MemoryInv,
         ClearChat \/ Recover \/ (\E r \in Receipts : CancelRun(r)) \/ (\E s \in Suggestions : RemoveInput(s))
  PROVE  Closing
<1> USE DEF ramVars, turnVars, consVars
<1>0. TypeRest /\ RowInv /\ PlaceInv /\ InputInv BY DEF MemoryInv
<1>1. /\ Suggestions \subseteq Receipts /\ ChatSources \subseteq Suggestions
      /\ queue \in Seq(Suggestions) /\ Len(queue) \in Nat /\ removing \subseteq Suggestions
      /\ flagged \subseteq Receipts /\ refused \subseteq Receipts /\ token \in BOOLEAN /\ cleared \in BOOLEAN
      /\ cancels \in 0..MaxCancels /\ starts \in 0..MaxStarts /\ RowsFit(runs)
  BY <1>0, RunAssumption DEF Receipts, TypeRest, RamType, SetsType, ClockType, RowInv
<1>2. CASE ClearChat
  <2>1. PICK gone : gone = {s \in ChatSources : Queued(s)} OBVIOUS
  <2>2. /\ cancels < MaxCancels /\ cancels' = cancels + 1
        /\ runs' = [r \in Receipts |-> IF r \in gone THEN FailedRun(r, "cancelled")[r] ELSE runs[r]]
        /\ queue' = Without(queue, gone) /\ aged' \subseteq aged
        /\ cleared' \in BOOLEAN /\ token' \in BOOLEAN
        /\ UNCHANGED <<memoryUp, starts, flagged, gate, notifying, wpc, job, result, enabled, removing, cpc, woken, turns,
                       kpc, batch, kind, proposed, refused>>
    BY <1>1, <1>2, <2>1 DEF ClearChat
  <2>3. cancels' \in 0..MaxCancels BY <1>1, <2>2, RunLimitAssumption
  <2>4. gone \in SUBSET Receipts /\ \A s \in gone : Has(queue, s) BY <1>1, <2>1, QueuedIs
  <2>5. /\ RowsFit(runs') /\ \A r \in Receipts : r \in gone => ~OpenRow(runs'[r])
        /\ \A r \in Receipts : r \notin gone \/ ~OpenRow(runs[r]) => runs'[r] = runs[r]
    BY <1>0, <2>2, <2>4, SweptRows
  <2>6. queue' \in Seq(Suggestions) /\ Len(queue') <= Len(queue) /\ \A x : Has(queue', x) <=> x \notin gone /\ Has(queue, x)
    BY <1>1, <2>2, WithoutHolds
  <2>7. ASSUME NEW r \in Receipts PROVE runs'[r] = runs[r] \/ (~OpenRow(runs'[r]) /\ runs'[r].state # "absent")
    <3>1. CASE r \notin gone \/ ~OpenRow(runs[r]) BY <2>5, <3>1
    <3>2. CASE r \in gone /\ OpenRow(runs[r])
      <4>1. runs'[r] = FailedRun(r, "cancelled")[r] BY <2>2, <3>2
      <4>2. FailedRun(r, "cancelled")[r].state \in {"failed", "cancelled"} BY <1>0, <3>2, FailedFacts
      <4> QED BY <2>5, <3>2, <4>1, <4>2
    <3> QED BY <3>1, <3>2
  <2>8. \A s \in Suggestions : OpenRow(runs'[s]) /\ Has(queue, s) => Has(queue', s) BY <1>1, <2>5, <2>6
  <2>9. \A s \in removing' : s \in Suggestions /\ s \in removing BY <1>1, <2>2
  <2> QED BY <1>1, <2>2, <2>3, <2>5, <2>6, <2>7, <2>8, <2>9 DEF Closing
<1>3. ASSUME NEW r \in Receipts, CancelRun(r) PROVE Closing
  <2>1. PICK row : row = ReceiptRow("cancelled", "cancelled") OBVIOUS
  <2>2. row \in Rows /\ row.state = "cancelled" /\ row.class = "cancelled" BY <2>1, RowFields, Named
  <2>3. RowFits(row) /\ ~OpenRow(row) /\ row.state # "absent" BY <2>2 DEF RowFits, OpenRow
  <2>4. /\ cancels < MaxCancels /\ cancels' = cancels + 1 /\ runs' = [runs EXCEPT ![r] = row]
        /\ flagged' = flagged \cup {r} /\ refused' = refused \cup {r} /\ removing' = removing \cup ({r} \cap Suggestions)
        /\ UNCHANGED <<memoryUp, starts, gate, notifying, queue, wpc, job, token, cleared, result, aged, enabled, cpc, woken, turns,
                       kpc, batch, kind, proposed>>
    BY <1>3, <2>1 DEF CancelRun
  <2>5. cancels' \in 0..MaxCancels BY <1>1, <2>4, RunLimitAssumption
  <2>6. RowsFit(runs') /\ OnlyRow(runs', r) /\ runs'[r] = row BY <1>0, <2>3, <2>4, Written
  <2>7. \A q \in Receipts : runs'[q] = runs[q] \/ (~OpenRow(runs'[q]) /\ runs'[q].state # "absent")
    BY <2>3, <2>6 DEF OnlyRow
  <2>8. \A s \in removing' : s \in Suggestions /\ (s \in removing \/ (~OpenRow(runs'[s]) /\ runs'[s].state # "absent"))
    BY <1>1, <2>3, <2>4, <2>6
  <2>9. queue' = queue /\ Len(queue') <= Len(queue) BY <1>1, <2>4
  <2>10. flagged' \subseteq Receipts /\ refused' \subseteq Receipts BY <1>1, <2>4
  <2> QED BY <1>1, <2>4, <2>5, <2>6, <2>7, <2>8, <2>9, <2>10 DEF Closing
<1>4. ASSUME NEW s \in Suggestions, RemoveInput(s) PROVE Closing
  <2>1. /\ s \in removing /\ removing' = removing \ {s} /\ queue' = Without(queue, {s}) /\ aged' \subseteq aged
        /\ UNCHANGED <<memoryUp, starts, runs, flagged, gate, notifying, wpc, job, token, cleared, result, enabled, cpc, woken, turns,
                       cancels, kpc, batch, kind, proposed, refused>>
    BY <1>4 DEF RemoveInput
  <2>2. queue' \in Seq(Suggestions) /\ Len(queue') <= Len(queue) /\ \A x : Has(queue', x) <=> x \notin {s} /\ Has(queue, x)
    BY <1>1, <2>1, WithoutHolds
  <2>3. ~OpenRow(runs'[s]) BY <1>0, <2>1 DEF InputInv
  <2>4. \A q \in Suggestions : OpenRow(runs'[q]) /\ Has(queue, q) => Has(queue', q) BY <2>2, <2>3
  <2> QED BY <1>1, <2>1, <2>2, <2>4 DEF Closing
<1>5. CASE Recover
  <2>1. PICK row : row = ReceiptRow("failed", "error") OBVIOUS
  <2>2. row \in Rows /\ row.state = "failed" /\ row.class = "error" BY <2>1, RowFields, Named
  <2>3. RowFits(row) /\ ~OpenRow(row) /\ row.state # "absent" BY <2>2 DEF RowFits, OpenRow
  <2>4. /\ ~memoryUp /\ memoryUp' = TRUE /\ starts' = starts + 1
        /\ runs' = [r \in Receipts |-> IF OpenRow(runs[r]) THEN row ELSE runs[r]]
        /\ UNCHANGED <<flagged, gate, notifying, queue, wpc, job, token, cleared, result, aged, enabled, removing, cpc, woken, turns,
                       cancels, kpc, batch, kind, proposed, refused>>
    BY <1>5, <2>1, OpenIs DEF Recover
  <2>5. starts' \in 0..MaxStarts BY <1>0, <1>1, <2>4, RunLimitAssumption DEF PlaceInv
  <2>6. ASSUME NEW r \in Receipts
        PROVE  RowFits(runs'[r]) /\ ~OpenRow(runs'[r]) /\ (runs'[r] = runs[r] \/ runs'[r].state # "absent")
    BY <1>1, <2>3, <2>4 DEF RowsFit
  <2>7. RowsFit(runs')
    <3>1. \A r \in Receipts : runs'[r] \in Rows BY <2>6 DEF RowFits
    <3>2. runs' \in [Receipts -> Rows] BY <2>4, <3>1
    <3> QED BY <2>6, <3>2 DEF RowsFit
  <2>8. queue' = queue /\ Len(queue') <= Len(queue) BY <1>1, <2>4
  <2> QED BY <1>1, <2>4, <2>5, <2>6, <2>7, <2>8 DEF Closing
<1> QED BY <1>2, <1>3, <1>4, <1>5

(* A crash forgets the inputs and closes nothing.                           *)
LEMMA CrashKeeps ==
  ASSUME MemoryInv, MemoryCrash
  PROVE  MemoryInv'
<1>0. TypeRest /\ RowInv /\ PlaceInv /\ InputInv BY DEF MemoryInv
<1>1. /\ starts < MaxStarts /\ memoryUp' = FALSE
      /\ queue' = <<>> /\ wpc' = "off" /\ job' = None /\ token' = FALSE /\ cleared' = FALSE
      /\ result' = "ok" /\ aged' = {} /\ flagged' = {} /\ gate' = "free" /\ notifying' = FALSE /\ removing' = {}
      /\ cpc' = "none" /\ woken' = FALSE /\ kpc' = "none" /\ batch' = None /\ kind' = None
      /\ UNCHANGED <<starts, runs, enabled, turns, cancels, proposed, refused>>
  BY DEF MemoryCrash
<1>2. InputInv' BY <1>1 DEF InputInv
<1>3. RowInv' BY <1>0, <1>1 DEF RowInv, RowsFit
<1>4. PlaceInv' BY <1>1 DEF PlaceInv, AtWork
<1>5. RamType'
  <2>1. <<>> \in Seq(Suggestions) /\ Len(<<>>) <= MaxQueue + 1 BY RunLimitAssumption
  <2> QED BY <1>1, <2>1 DEF RamType
<1>6. SetsType' /\ ConsType' /\ ClockType' BY <1>0, <1>1 DEF TypeRest, SetsType, ConsType, ClockType, Holders
<1> QED BY <1>2, <1>3, <1>4, <1>5, <1>6 DEF MemoryInv, TypeRest

LEMMA MemoryStep == MemoryInv /\ [RunsNext]_runsVars => MemoryInv'
  BY TurnsKeepInputs, QuietStepsKeep, ConsolidationKeepsInputs, JobSteps, JobStepKeeps, TickKeeps, SettleKeeps, EnqueueKeeps,
     ClosingSteps, ClosingKeeps, CrashKeeps
  DEF RunsNext, WorkerStep, ConsolidationStep, OwnerStep

LEMMA MemoryInitial == RunsInit => MemoryInv
<1> SUFFICES ASSUME RunsInit PROVE MemoryInv OBVIOUS
<1>1. PICK row : row = ReceiptRow("absent", NoClass) OBVIOUS
<1>2. row \in Rows /\ row.state = "absent" /\ row.class = NoClass BY <1>1, RowFields, Named, ClassNames
<1>3. RowFits(row) /\ ~OpenRow(row) BY <1>2, ClassNames DEF RowFits, OpenRow
<1>4. runs = [r \in Receipts |-> row] BY <1>1 DEF RunsInit
<1>5. RowInv BY <1>2, <1>3, <1>4 DEF RowInv, RowsFit
<1>6. InputInv
  <2>1. \A s \in Suggestions : s \in Receipts BY DEF Receipts
  <2> QED BY <1>3, <1>4, <2>1 DEF RunsInit, InputInv
<1>7. PlaceInv BY DEF RunsInit, PlaceInv, AtWork
<1>8. RamType
  <2>1. <<>> \in Seq(Suggestions) /\ Len(<<>>) <= MaxQueue + 1 BY RunLimitAssumption
  <2> QED BY <2>1 DEF RunsInit, RamType
<1>9. SetsType /\ ConsType BY DEF RunsInit, SetsType, ConsType
<1>10. ClockType
  <2>1. 0 \in 0..MaxStarts /\ 0 \in 0..MaxChatTurns /\ 0 \in 0..MaxCancels BY RunLimitAssumption
  <2> QED BY <2>1 DEF RunsInit, ClockType, Holders
<1> QED BY <1>5, <1>6, <1>7, <1>8, <1>9, <1>10 DEF MemoryInv, TypeRest

LEMMA MemoryHolds == RunsInit /\ [][RunsNext]_runsVars => [](RunsTypeOK /\ OpenReceiptHasInput)
<1>1. MemoryInv => RunsTypeOK BY MemoryTypeParts DEF MemoryInv
<1>2. MemoryInv => OpenReceiptHasInput
  BY OpenIs, QueuedIs DEF MemoryInv, InputInv, OpenReceiptHasInput
<1> QED BY <1>1, <1>2, MemoryInitial, MemoryStep, PTL

-----------------------------------------------------------------------------
(* The calls of the MCP client.                                             *)
Early == {"wrap", "spawn", "attach", "resolve", "handshake", "initialize"}
Greeted == {"hello", "posted", "ready"}
Asked == {"answer", "called"}
CallPlaces == {"idle"} \cup Early \cup Greeted \cup Asked
RefusalCodes == {"MCP_CONFIRM_REQUIRED", "MCP_DISABLED", "MCP_UNKNOWN_TOOL", "TOOL_DENIED", "MCP_CAPABILITY_REFUSED",
            "MCP_CONTAINMENT_UNAVAILABLE", "MCP_STDIO", "MCP_PROTOCOL", "MCP_CALL_FAILED", "MCP_SSRF_DENIED", "MCP_SSE",
            "MCP_TIMEOUT", "died"}
CallRecords ==
  [pc : CallPlaces, id : 0..2, code : {"none", "ok", "MCP_RESULT_TOO_LARGE"} \cup RefusalCodes, reply : 0..2, size : Nat,
   dialed : {"nothing", "public", "loopback", "mixed"}]
Units == [pc : {"none", "spec", "ask", "serving", "over", "gone"}, acked : BOOLEAN, owner : BOOLEAN]

(* A call at work has no code yet, and its request id says how far it is:   *)
(* the handshake is request 1 and tools/call request 2.                     *)
CallFits(c) ==
  /\ c \in CallRecords
  /\ c.pc # "idle" => c.code = "none"
  /\ c.pc \in Early => c.id = 0
  /\ c.pc \in Greeted => c.id = 1
  /\ c.pc \in Asked => c.id = 2
  /\ c.code = "ok" => c.reply = 2 /\ c.size <= MaxFrame
  /\ c.code = "MCP_RESULT_TOO_LARGE" => c.size > MaxFrame
LineInv ==
  /\ inbound \in Seq(Messages) /\ Len(inbound) <= serverSent /\ serverSent \in 0..MaxServerMessages
  /\ unanswered \in {0, 1}
TreeInv == unit \in Units /\ tree \subseteq {"child", "detached"}
McpInv == CallFits(mcpCall) /\ LineInv /\ TreeInv

LEMMA CallNames == /\ "idle" \in CallPlaces /\ "idle" \notin Early /\ "idle" \notin Greeted /\ "idle" \notin Asked
                   /\ Early \subseteq CallPlaces /\ Greeted \subseteq CallPlaces /\ Asked \subseteq CallPlaces
                   /\ Early \cap Greeted = {} /\ Early \cap Asked = {} /\ Greeted \cap Asked = {}
                   /\ RefusalCodes \cap {"none", "ok", "MCP_RESULT_TOO_LARGE"} = {}
  BY DEF CallPlaces, Early, Greeted, Asked, RefusalCodes

LEMMA Messaged ==
  ASSUME NEW msg \in Messages
  PROVE  /\ msg.id \in 0..2 /\ msg.size \in Nat /\ msg.kind \in {"reply", "error", "note", "ping", "request"}
         /\ LineFits(msg) <=> msg.size <= MaxFrame
<1>1. /\ msg.id \in 0..2 /\ msg.kind \in {"reply", "error", "note", "ping", "request"} /\ msg.cr \in BOOLEAN
      /\ msg.size \in {MaxFrame, MaxFrame + 1} \/ (msg.size = 1 /\ msg.cr = FALSE)
  <2>1. CASE msg \in [kind : {"reply", "error"}, id : 1..2, size : {MaxFrame, MaxFrame + 1}, cr : BOOLEAN]
    <3>1. msg.id \in 1..2 /\ msg.kind \in {"reply", "error"} /\ msg.cr \in BOOLEAN /\ msg.size \in {MaxFrame, MaxFrame + 1}
      BY <2>1
    <3> QED BY <3>1
  <2>2. CASE msg \in [kind : {"note", "ping", "request"}, id : {0}, size : {1}, cr : {FALSE}]
    <3>1. msg.id = 0 /\ msg.kind \in {"note", "ping", "request"} /\ msg.cr = FALSE /\ msg.size = 1 BY <2>2
    <3>2. msg.id \in 0..2 BY <3>1
    <3>3. msg.cr \in BOOLEAN BY <3>1
    <3> QED BY <3>1, <3>2, <3>3, Zenon
  <2> QED BY <2>1, <2>2 DEF Messages
<1>2. PICK n : n = msg.size OBVIOUS
<1>3. n \in Nat /\ (n \in {MaxFrame, MaxFrame + 1} \/ n = 1) BY <1>1, <1>2, McpAssumption
<1>4. CASE msg.cr = TRUE
  <2>1. LineFits(msg) <=> (n + 1 <= MaxFrame \/ n + 1 = MaxFrame + 1) BY <1>2, <1>4 DEF LineFits
  <2>2. n \in {MaxFrame, MaxFrame + 1} BY <1>1, <1>2, <1>4
  <2> QED BY <1>1, <1>2, <1>3, <2>1, <2>2, McpAssumption
<1>5. CASE msg.cr = FALSE
  <2>1. LineFits(msg) <=> (n + 0 <= MaxFrame) BY <1>2, <1>5 DEF LineFits
  <2> QED BY <1>1, <1>2, <1>3, <2>1, McpAssumption
<1> QED BY <1>1, <1>4, <1>5

(* A call that moves within its request, sends the next one, or ends.       *)
LEMMA Moves ==
  ASSUME NEW c, CallFits(c), NEW p \in CallPlaces,
         \/ c.pc \in Early /\ p \in Early
         \/ c.pc \in Greeted /\ p \in Greeted
  PROVE  CallFits([c EXCEPT !.pc = p])
<1>1. PICK d : d = [c EXCEPT !.pc = p] OBVIOUS
<1>2. c \in CallRecords BY DEF CallFits
<1>3. d \in CallRecords /\ d.pc = p /\ d.id = c.id /\ d.code = c.code /\ d.reply = c.reply /\ d.size = c.size
  BY <1>1, <1>2 DEF CallRecords
<1>4. CallFits(d) BY <1>3, CallNames DEF CallFits
<1> QED BY <1>1, <1>4
LEMMA Sends ==
  ASSUME NEW c, CallFits(c), NEW p,
         \/ c.pc \in Early /\ p \in Greeted
         \/ c.pc \in Greeted /\ p \in Asked
  PROVE  CallFits([c EXCEPT !.pc = p, !.id = @ + 1])
<1>1. PICK d : d = [c EXCEPT !.pc = p, !.id = @ + 1] OBVIOUS
<1>2. c \in CallRecords /\ c.id \in 0..1 /\ p \in CallPlaces BY CallNames DEF CallFits
<1>3. c.id \in 0..2 BY <1>2
<1>4. d.pc = p /\ d.id = c.id + 1 /\ d.code = c.code /\ d.reply = c.reply /\ d.size = c.size
  BY <1>1, <1>2 DEF CallRecords
<1>5. d \in CallRecords
  <2>1. PICK n \in 0..2 : n = c.id + 1 BY <1>2
  <2>2. d = [c EXCEPT !.pc = p, !.id = n] BY <1>1, <1>2, <2>1 DEF CallRecords
  <2> QED BY <1>2, <2>2 DEF CallRecords
<1>6. (c.id = 0 => d.id = 1) /\ (c.id = 1 => d.id = 2) BY <1>2, <1>4
<1>7. CallFits(d) BY <1>4, <1>5, <1>6, CallNames DEF CallFits
<1> QED BY <1>1, <1>7
LEMMA Ends ==
  ASSUME NEW c, CallFits(c), NEW code \in RefusalCodes
  PROVE  CallFits([c EXCEPT !.pc = "idle", !.code = code])
<1>1. PICK d : d = [c EXCEPT !.pc = "idle", !.code = code] OBVIOUS
<1>2. c \in CallRecords BY DEF CallFits
<1>3. d \in CallRecords /\ d.pc = "idle" /\ d.code = code BY <1>1, <1>2, CallNames DEF CallRecords
<1>4. CallFits(d) BY <1>3, CallNames DEF CallFits
<1> QED BY <1>1, <1>4
LEMMA TooLarge ==
  ASSUME NEW c, CallFits(c), NEW n \in Nat, n > MaxFrame
  PROVE  CallFits([[c EXCEPT !.pc = "idle", !.code = "MCP_RESULT_TOO_LARGE"] EXCEPT !.size = n])
<1>1. PICK d : d = [[c EXCEPT !.pc = "idle", !.code = "MCP_RESULT_TOO_LARGE"] EXCEPT !.size = n] OBVIOUS
<1>2. c \in CallRecords BY DEF CallFits
<1>3. d \in CallRecords /\ d.pc = "idle" /\ d.code = "MCP_RESULT_TOO_LARGE" /\ d.size = n BY <1>1, <1>2, CallNames DEF CallRecords
<1>4. CallFits(d) BY <1>3, CallNames DEF CallFits
<1> QED BY <1>1, <1>4
LEMMA AnswerOwn ==
  ASSUME NEW c, CallFits(c), c.pc \in Asked, NEW n \in Nat, n <= MaxFrame
  PROVE  CallFits([[c EXCEPT !.pc = "idle", !.code = "ok"] EXCEPT !.reply = c.id, !.size = n])
<1>1. PICK d : d = [[c EXCEPT !.pc = "idle", !.code = "ok"] EXCEPT !.reply = c.id, !.size = n] OBVIOUS
<1>2. c \in CallRecords /\ c.id = 2 BY DEF CallFits
<1>3. d \in CallRecords /\ d.pc = "idle" /\ d.code = "ok" /\ d.size = n /\ d.reply = 2 BY <1>1, <1>2, CallNames DEF CallRecords
<1>4. CallFits(d) BY <1>3, CallNames DEF CallFits
<1> QED BY <1>1, <1>4

(* A step that ends the call drops the client, and what it had not read.    *)
LEMMA DropKeeps ==
  ASSUME TreeInv, DropClient
  PROVE  TreeInv'
<1>1. PICK u : u = [unit EXCEPT !.owner = FALSE] OBVIOUS
<1>2. u \in Units BY <1>1 DEF TreeInv, Units
<1>3. tree' \subseteq tree BY DEF DropClient
<1> QED BY <1>1, <1>2, <1>3 DEF TreeInv, DropClient
LEMMA EmptyLine ==
  ASSUME LineInv, inbound' = <<>>, unanswered' \in {0, 1}, serverSent' = serverSent
  PROVE  LineInv'
<1>1. <<>> \in Seq(Messages) /\ Len(<<>>) = 0 OBVIOUS
<1> QED BY <1>1 DEF LineInv
LEMMA EndKeeps ==
  ASSUME McpInv, NEW code \in RefusalCodes, EndCall(code)
  PROVE  McpInv'
<1>1. CallFits(mcpCall) /\ LineInv /\ TreeInv BY DEF McpInv
<1>2. mcpCall' = [mcpCall EXCEPT !.pc = "idle", !.code = code] /\ DropClient /\ inbound' = <<>> /\ unanswered' = 0
      /\ serverSent' = serverSent
  BY DEF EndCall, McpEnded
<1>3. CallFits(mcpCall') BY <1>1, <1>2, Ends
<1> QED BY <1>1, <1>2, <1>3, DropKeeps, EmptyLine DEF McpInv
LEMMA CallStepKeeps ==
  ASSUME McpInv, NEW p \in CallPlaces, CallStep(p),
         (mcpCall.pc \in Early /\ p \in Early) \/ (mcpCall.pc \in Greeted /\ p \in Greeted)
  PROVE  McpInv'
<1>1. mcpCall' = [mcpCall EXCEPT !.pc = p] /\ UNCHANGED <<unit, tree, inbound, unanswered, serverSent>> BY DEF CallStep
<1>2. CallFits(mcpCall') BY <1>1, Moves DEF McpInv
<1> QED BY <1>1, <1>2 DEF McpInv, LineInv, TreeInv

(* From the request to the child at work.                                   *)
LEMMA StartsKeep ==
  ASSUME McpInv,
         \/ \E tool \in {"echo", "other"}, confirm \in BOOLEAN : CallTool(tool, confirm)
         \/ WrapStdio \/ SpawnStdio \/ SpawnFails \/ Attach
  PROVE  McpInv'
<1>0. CallFits(mcpCall) /\ LineInv /\ TreeInv BY DEF McpInv
<1>n. NoUnit \in Units /\ PreparedUnit \in Units BY DEF NoUnit, PreparedUnit, Units
<1>1. ASSUME NEW tool \in {"echo", "other"}, NEW confirm \in BOOLEAN, CallTool(tool, confirm) PROVE McpInv'
  <2>1. NoCall \in CallRecords /\ NoCall.id = 0 BY DEF NoCall, CallRecords, CallPlaces
  <2>2. unit' = NoUnit /\ UNCHANGED <<tree, inbound, unanswered, serverSent>> BY <1>1 DEF CallTool
  <2>3. CASE Refusal(tool, confirm) # "none"
    <3>1. PICK code \in RefusalCodes : code = Refusal(tool, confirm) BY <2>3 DEF Refusal, RefusalCodes
    <3>2. mcpCall' = [NoCall EXCEPT !.code = code] BY <1>1, <2>3, <3>1 DEF CallTool
    <3>3. mcpCall' \in CallRecords /\ mcpCall'.pc = "idle" /\ mcpCall'.code = code
      BY <2>1, <3>2 DEF CallRecords, NoCall
    <3>4. CallFits(mcpCall') BY <3>3, CallNames DEF CallFits
    <3> QED BY <1>0, <1>n, <2>2, <3>4 DEF McpInv, LineInv, TreeInv
  <2>4. CASE Refusal(tool, confirm) = "none"
    <3>1. PICK p \in Early : mcpCall' = [NoCall EXCEPT !.pc = p] BY <1>1, <2>4 DEF CallTool, Early
    <3>2. mcpCall' \in CallRecords /\ mcpCall'.pc = p /\ mcpCall'.code = "none" /\ mcpCall'.id = 0
      BY <2>1, <3>1, CallNames DEF CallRecords, NoCall
    <3>3. CallFits(mcpCall') BY <3>2, CallNames DEF CallFits
    <3> QED BY <1>0, <1>n, <2>2, <3>3 DEF McpInv, LineInv, TreeInv
  <2> QED BY <2>3, <2>4
<1>2. CASE WrapStdio
  <2>1. mcpCall.pc \in Early /\ "spawn" \in Early /\ "spawn" \in CallPlaces BY <1>2 DEF WrapStdio, Early, CallPlaces
  <2>2. (\E code \in RefusalCodes : EndCall(code)) \/ CallStep("spawn") BY <1>2 DEF WrapStdio, RefusalCodes
  <2> QED BY <2>1, <2>2, EndKeeps, CallStepKeeps
<1>3. CASE SpawnStdio
  <2>1. PICK p \in Early : mcpCall' = [mcpCall EXCEPT !.pc = p] BY <1>3 DEF SpawnStdio, Early
  <2>2. mcpCall.pc \in Early BY <1>3 DEF SpawnStdio, Early
  <2>3. CallFits(mcpCall') BY <1>0, <2>1, <2>2, Moves, CallNames
  <2>4. UNCHANGED <<inbound, unanswered, serverSent>> /\ unit' \in {unit, PreparedUnit} /\ tree' \in {tree, {"child"}}
    BY <1>3 DEF SpawnStdio
  <2> QED BY <1>0, <1>n, <2>3, <2>4 DEF McpInv, LineInv, TreeInv
<1>4. CASE SpawnFails BY <1>4, EndKeeps DEF SpawnFails, RefusalCodes
<1>5. CASE Attach
  <2>1. mcpCall' = [mcpCall EXCEPT !.pc = "initialize"] /\ mcpCall.pc \in Early /\ "initialize" \in Early
    BY <1>5 DEF Attach, Early
  <2>2. CallFits(mcpCall') BY <1>0, <2>1, Moves, CallNames
  <2>3. PICK u : u = [unit EXCEPT !.acked = TRUE, !.owner = TRUE] OBVIOUS
  <2>4. u \in Units BY <1>0, <2>3 DEF TreeInv, Units
  <2>5. unit' = u /\ UNCHANGED <<tree, inbound, unanswered, serverSent>> BY <1>5, <2>3 DEF Attach
  <2> QED BY <1>0, <2>2, <2>4, <2>5 DEF McpInv, LineInv, TreeInv
<1> QED BY <1>1, <1>2, <1>3, <1>4, <1>5

(* The supervisor and the server move processes, and the server writes.     *)
LEMMA ProcessesKeep ==
  ASSUME McpInv, Worker \/ ServerForks \/ ServerExits \/ RedirectRoot \/ AnswerServer
                 \/ (\E msg \in Messages : ServerSends(msg)) \/ UNCHANGED mcpVars
  PROVE  McpInv'
<1>0. CallFits(mcpCall) /\ LineInv /\ TreeInv BY DEF McpInv
<1>1. ASSUME NEW u \in Units, NEW ps \in SUBSET {"child", "detached"}, McpWorkerStep(u, ps) PROVE McpInv'
  BY <1>0, <1>1 DEF McpWorkerStep, McpInv, LineInv, TreeInv
<1>2. \A p \in {"none", "spec", "ask", "serving", "over", "gone"} : [unit EXCEPT !.pc = p] \in Units
  BY <1>0 DEF TreeInv, Units
<1>3. unit \in Units /\ tree \subseteq {"child", "detached"} BY <1>0 DEF TreeInv
<1>4. CASE Worker \/ ServerForks \/ ServerExits
  <2>1. PICK u \in Units, ps \in SUBSET {"child", "detached"} : McpWorkerStep(u, ps)
    <3>1. CASE WorkerReadsSpec BY <1>2, <1>3, <3>1 DEF WorkerReadsSpec
    <3>2. CASE WorkerRefuses BY <1>2, <1>3, <3>2 DEF WorkerRefuses
    <3>3. CASE WorkerStarts BY <1>2, <1>3, <3>3 DEF WorkerStarts
    <3>4. CASE WorkerStops BY <1>2, <1>3, <3>4 DEF WorkerStops
    <3>5. CASE UnitEnds BY <1>2, <1>3, <3>5 DEF UnitEnds, CgroupKilled
    <3>6. CASE ServerForks BY <1>3, <3>6 DEF ServerForks
    <3>7. CASE ServerExits BY <1>3, <3>7 DEF ServerExits
    <3> QED BY <1>4, <3>1, <3>2, <3>3, <3>4, <3>5, <3>6, <3>7 DEF Worker
  <2> QED BY <1>1, <2>1
<1>5. ASSUME NEW msg \in Messages, ServerSends(msg) PROVE McpInv'
  <2>1. /\ serverSent < MaxServerMessages /\ inbound' = Append(inbound, msg) /\ serverSent' = serverSent + 1
        /\ UNCHANGED <<mcpCall, unit, tree, unanswered>>
    BY <1>5 DEF ServerSends
  <2>2. inbound \in Seq(Messages) /\ Len(inbound) <= serverSent /\ serverSent \in 0..MaxServerMessages BY <1>0 DEF LineInv
  <2>3. inbound' \in Seq(Messages) /\ Len(inbound') = Len(inbound) + 1 /\ Len(inbound) \in Nat BY <2>1, <2>2
  <2>4. Len(inbound') <= serverSent' /\ serverSent' \in 0..MaxServerMessages BY <2>1, <2>2, <2>3, McpAssumption
  <2> QED BY <1>0, <2>1, <2>3, <2>4 DEF McpInv, LineInv, TreeInv
<1>6. CASE AnswerServer BY <1>0, <1>6 DEF AnswerServer, McpInv, LineInv, TreeInv
<1>7. CASE RedirectRoot \/ UNCHANGED mcpVars BY <1>0, <1>7 DEF RedirectRoot, mcpVars, McpInv, LineInv, TreeInv
<1> QED BY <1>4, <1>5, <1>6, <1>7

(* The session on the child's pipes.                                        *)
LEMMA SessionKeeps ==
  ASSUME McpInv, Initialize \/ InvokeTool \/ SendFails \/ ReadMessage \/ ChildClosed
  PROVE  McpInv'
<1>0. CallFits(mcpCall) /\ LineInv /\ TreeInv BY DEF McpInv
<1>1. CASE Initialize \/ InvokeTool
  <2>1. PICK p : /\ mcpCall' = [mcpCall EXCEPT !.pc = p, !.id = @ + 1]
                 /\ (mcpCall.pc \in Early /\ p \in Greeted) \/ (mcpCall.pc \in Greeted /\ p \in Asked)
                 /\ UNCHANGED <<unit, tree, inbound, unanswered, serverSent>>
    BY <1>1 DEF Initialize, InvokeTool, SendRequest, Early, Greeted, Asked
  <2>2. CallFits(mcpCall') BY <1>0, <2>1, Sends
  <2> QED BY <1>0, <2>1, <2>2 DEF McpInv, LineInv, TreeInv
<1>2. CASE SendFails \/ ChildClosed
  <2>1. "MCP_STDIO" \in RefusalCodes BY DEF RefusalCodes
  <2> QED BY <1>2, <2>1, EndKeeps DEF SendFails, ChildClosed
<1>3. CASE ReadMessage
  <2>1. PICK msg : msg = Head(inbound) OBVIOUS
  <2>2. inbound # <<>> /\ Reading BY <1>3 DEF ReadMessage
  <2>3. /\ msg \in Messages /\ Tail(inbound) \in Seq(Messages) /\ Len(Tail(inbound)) = Len(inbound) - 1 /\ Len(inbound) \in Nat
        /\ Len(inbound) <= serverSent /\ serverSent \in 0..MaxServerMessages
    BY <1>0, <2>1, <2>2 DEF LineInv
  <2>4. msg.id \in 0..2 /\ msg.size \in Nat /\ (LineFits(msg) <=> msg.size <= MaxFrame) BY <2>3, Messaged
  <2>5. Len(Tail(inbound)) <= serverSent BY <2>3, McpAssumption
  <2>6. CASE ~LineFits(msg)
    <3>1. /\ mcpCall' = [[mcpCall EXCEPT !.pc = "idle", !.code = "MCP_RESULT_TOO_LARGE"] EXCEPT !.size = msg.size]
          /\ DropClient /\ inbound' = <<>> /\ UNCHANGED <<unanswered, serverSent>>
      BY <1>3, <2>1, <2>6 DEF ReadMessage, McpEnded
    <3>2. msg.size > MaxFrame BY <2>4, <2>6, McpAssumption
    <3>3. CallFits(mcpCall') BY <1>0, <2>4, <3>1, <3>2, TooLarge
    <3>4. unanswered' \in {0, 1} BY <1>0, <3>1 DEF LineInv
    <3> QED BY <1>0, <3>1, <3>3, <3>4, DropKeeps, EmptyLine DEF McpInv
  <2>7. CASE LineFits(msg) /\ msg.kind \in {"note", "ping", "request"}
    <3>1. /\ mcpCall' = [mcpCall EXCEPT !.size = msg.size] /\ inbound' = Tail(inbound) /\ unanswered' \in {0, 1}
          /\ UNCHANGED <<unit, tree, serverSent>>
      BY <1>3, <2>1, <2>7 DEF ReadMessage, Reads
    <3>2. mcpCall \in CallRecords /\ mcpCall.pc \in {"hello", "answer"} BY <1>0, <2>2 DEF CallFits, Reading
    <3>3. /\ mcpCall' \in CallRecords /\ mcpCall'.pc = mcpCall.pc /\ mcpCall'.id = mcpCall.id /\ mcpCall'.code = mcpCall.code
      BY <2>4, <3>1, <3>2 DEF CallRecords
    <3>4. mcpCall.code = "none" BY <1>0, <3>2 DEF CallFits
    <3>5. CallFits(mcpCall') BY <1>0, <3>3, <3>4 DEF CallFits
    <3> QED BY <1>0, <2>3, <2>5, <3>1, <3>5 DEF McpInv, LineInv, TreeInv
  <2>8. CASE LineFits(msg) /\ msg.kind \notin {"note", "ping", "request"} /\ (~OwnReply(msg) \/ msg.kind = "error")
    <3>1. \E code \in {"MCP_PROTOCOL", "MCP_CALL_FAILED"} : EndCall(code) BY <1>3, <2>1, <2>8 DEF ReadMessage
    <3> QED BY <3>1, EndKeeps DEF RefusalCodes
  <2>9. CASE LineFits(msg) /\ msg.kind \notin {"note", "ping", "request"} /\ OwnReply(msg) /\ msg.kind # "error"
    <3>1. Accepts(msg) BY <1>3, <2>1, <2>9 DEF ReadMessage
    <3>2. CASE mcpCall.pc = "hello"
      <4>1. /\ mcpCall' = [mcpCall EXCEPT !.pc = "ready"] /\ inbound' = Tail(inbound)
            /\ UNCHANGED <<unit, tree, unanswered, serverSent>>
        BY <3>1, <3>2 DEF Accepts
      <4>2. mcpCall.pc \in Greeted /\ "ready" \in Greeted BY <3>2 DEF Greeted
      <4>3. CallFits(mcpCall') BY <1>0, <4>1, <4>2, Moves, CallNames
      <4> QED BY <1>0, <2>3, <2>5, <4>1, <4>3 DEF McpInv, LineInv, TreeInv
    <3>3. CASE mcpCall.pc # "hello"
      <4>1. /\ mcpCall' = [[mcpCall EXCEPT !.pc = "idle", !.code = "ok"] EXCEPT !.reply = msg.id, !.size = msg.size]
            /\ DropClient /\ inbound' = <<>> /\ unanswered' = 0 /\ serverSent' = serverSent
        BY <3>1, <3>3 DEF Accepts, McpEnded
      <4>2. msg.id = mcpCall.id /\ mcpCall.pc \in Asked /\ msg.size <= MaxFrame
        BY <2>2, <2>4, <2>9, <3>3 DEF OwnReply, Reading, Asked
      <4>3. CallFits(mcpCall') BY <1>0, <2>4, <4>1, <4>2, AnswerOwn
      <4> QED BY <1>0, <4>1, <4>3, DropKeeps, EmptyLine DEF McpInv
    <3> QED BY <3>2, <3>3
  <2> QED BY <2>6, <2>7, <2>8, <2>9
<1> QED BY <1>1, <1>2, <1>3

(* The session over SSE, and the faults.                                    *)
LEMMA PostsKeep ==
  ASSUME McpInv,
         \/ \E addr \in {"public", "loopback", "mixed"} : Resolve(addr)
         \/ \E sameOrigin \in BOOLEAN : Handshake(sameOrigin)
         \/ \E msg \in Messages : PostAnswered(msg)
         \/ Post \/ TransportFails \/ CallTimeout \/ HostDies
  PROVE  McpInv'
<1>0. CallFits(mcpCall) /\ LineInv /\ TreeInv BY DEF McpInv
<1>1. ASSUME NEW addr \in {"public", "loopback", "mixed"}, Resolve(addr) PROVE McpInv'
  <2>1. CASE EndCall("MCP_SSRF_DENIED") BY <2>1, EndKeeps DEF RefusalCodes
  <2>2. CASE /\ mcpCall' = [mcpCall EXCEPT !.pc = "handshake", !.dialed = addr]
             /\ UNCHANGED <<unit, tree, inbound, unanswered, serverSent>>
    <3>1. mcpCall \in CallRecords /\ mcpCall.pc = "resolve" BY <1>0, <1>1 DEF CallFits, Resolve
    <3>2. /\ mcpCall' \in CallRecords /\ mcpCall'.pc = "handshake" /\ mcpCall'.id = mcpCall.id /\ mcpCall'.code = mcpCall.code
      BY <2>2, <3>1 DEF CallRecords, CallPlaces, Early
    <3>3. mcpCall.code = "none" /\ mcpCall.id = 0 BY <1>0, <3>1 DEF CallFits, Early
    <3>4. CallFits(mcpCall') BY <3>2, <3>3 DEF CallFits, Early, Greeted, Asked
    <3> QED BY <1>0, <2>2, <3>4 DEF McpInv, LineInv, TreeInv
  <2> QED BY <1>1, <2>1, <2>2 DEF Resolve
<1>2. ASSUME NEW sameOrigin \in BOOLEAN, Handshake(sameOrigin) PROVE McpInv'
  <2>1. mcpCall.pc \in Early /\ "initialize" \in Early /\ "initialize" \in CallPlaces BY <1>2 DEF Handshake, Early, CallPlaces
  <2>2. EndCall("MCP_SSE") \/ CallStep("initialize") BY <1>2 DEF Handshake
  <2>3. "MCP_SSE" \in RefusalCodes BY DEF RefusalCodes
  <2> QED BY <2>1, <2>2, <2>3, EndKeeps, CallStepKeeps
<1>3. CASE Post
  <2>1. PICK p : /\ mcpCall' = [mcpCall EXCEPT !.pc = p, !.id = @ + 1]
                 /\ (mcpCall.pc \in Early /\ p \in Greeted) \/ (mcpCall.pc \in Greeted /\ p \in Asked)
                 /\ UNCHANGED <<unit, tree, inbound, unanswered, serverSent>>
    BY <1>3 DEF Post, SendRequest, Early, Greeted, Asked
  <2>2. CallFits(mcpCall') BY <1>0, <2>1, Sends
  <2> QED BY <1>0, <2>1, <2>2 DEF McpInv, LineInv, TreeInv
<1>4. ASSUME NEW msg \in Messages, PostAnswered(msg) PROVE McpInv'
  <2>1. msg.size \in Nat /\ mcpCall.pc \in {"posted", "called"} BY <1>4, Messaged DEF PostAnswered
  <2>2. CASE msg.size > MaxFrame
    <3>1. /\ mcpCall' = [[mcpCall EXCEPT !.pc = "idle", !.code = "MCP_RESULT_TOO_LARGE"] EXCEPT !.size = msg.size]
          /\ UNCHANGED <<unit, tree, inbound, unanswered, serverSent>>
      BY <1>4, <2>2 DEF PostAnswered, McpEnded
    <3>2. CallFits(mcpCall') BY <1>0, <2>1, <2>2, <3>1, TooLarge
    <3> QED BY <1>0, <3>1, <3>2 DEF McpInv, LineInv, TreeInv
  <2>3. CASE ~(msg.size > MaxFrame) /\ (~OwnReply(msg) \/ msg.kind = "error")
    <3>1. \E code \in {"MCP_PROTOCOL", "MCP_CALL_FAILED"} : EndCall(code) BY <1>4, <2>3 DEF PostAnswered
    <3> QED BY <3>1, EndKeeps DEF RefusalCodes
  <2>4. CASE ~(msg.size > MaxFrame) /\ OwnReply(msg) /\ msg.kind # "error" /\ mcpCall.pc = "posted"
    <3>1. CallStep("ready") BY <1>4, <2>4 DEF PostAnswered
    <3>2. mcpCall.pc \in Greeted /\ "ready" \in Greeted /\ "ready" \in CallPlaces BY <2>4 DEF Greeted, CallPlaces
    <3> QED BY <3>1, <3>2, CallStepKeeps
  <2>5. CASE ~(msg.size > MaxFrame) /\ OwnReply(msg) /\ msg.kind # "error" /\ mcpCall.pc = "called"
    <3>1. /\ mcpCall' = [[mcpCall EXCEPT !.pc = "idle", !.code = "ok"] EXCEPT !.reply = msg.id, !.size = msg.size]
          /\ UNCHANGED <<unit, tree, inbound, unanswered, serverSent>>
      BY <1>4, <2>5 DEF PostAnswered, McpEnded
    <3>2. msg.id = mcpCall.id /\ mcpCall.pc \in Asked BY <2>5 DEF OwnReply, Asked
    <3>3. msg.size <= MaxFrame BY <2>1, <2>5, McpAssumption
    <3>4. CallFits(mcpCall') BY <1>0, <2>1, <3>1, <3>2, <3>3, AnswerOwn
    <3> QED BY <1>0, <3>1, <3>4 DEF McpInv, LineInv, TreeInv
  <2> QED BY <2>1, <2>2, <2>3, <2>4, <2>5
<1>5. CASE TransportFails \/ CallTimeout
  <2>1. \E code \in RefusalCodes : EndCall(code) BY <1>5 DEF TransportFails, CallTimeout, RefusalCodes
  <2> QED BY <2>1, EndKeeps
<1>6. CASE HostDies
  <2>1. /\ mcpCall' = [mcpCall EXCEPT !.pc = "idle", !.code = "died"] /\ inbound' = <<>> /\ unanswered' = 0
        /\ tree' \in {tree, {}} /\ serverSent' = serverSent
    BY <1>6 DEF HostDies, McpEnded
  <2>2. CallFits(mcpCall')
    <3>1. "died" \in RefusalCodes BY DEF RefusalCodes
    <3> QED BY <1>0, <2>1, <3>1, Ends
  <2>3. PICK u : u = [unit EXCEPT !.owner = FALSE] OBVIOUS
  <2>4. u \in Units BY <1>0, <2>3 DEF TreeInv, Units
  <2>5. unit' = u BY <1>6, <2>3 DEF HostDies
  <2>6. TreeInv' BY <1>0, <2>1, <2>4, <2>5 DEF TreeInv
  <2> QED BY <1>0, <2>1, <2>2, <2>6, EmptyLine DEF McpInv
<1> QED BY <1>1, <1>2, <1>3, <1>4, <1>5, <1>6

LEMMA McpHolds == McpInit /\ [][McpNext]_mcpVars => [](McpTypeOK /\ ResultIsOwn)
<1>1. McpInit => McpInv
  <2> SUFFICES ASSUME McpInit PROVE McpInv OBVIOUS
  <2>1. /\ mcpCall = NoCall /\ unit = NoUnit /\ tree = {} /\ inbound = <<>> /\ unanswered = 0 /\ serverSent = 0
    BY DEF McpInit
  <2>2. NoCall \in CallRecords /\ NoCall.pc = "idle" /\ NoCall.code = "none" BY DEF NoCall, CallRecords, CallPlaces
  <2>3. CallFits(mcpCall) BY <2>1, <2>2, CallNames DEF CallFits
  <2>4. TreeInv BY <2>1 DEF TreeInv, NoUnit, Units
  <2>5. <<>> \in Seq(Messages) /\ Len(<<>>) <= 0 /\ 0 \in 0..MaxServerMessages BY McpAssumption
  <2> QED BY <2>1, <2>3, <2>4, <2>5 DEF McpInv, LineInv
<1>2. McpInv /\ [McpNext]_mcpVars => McpInv'
  BY StartsKeep, ProcessesKeep, SessionKeeps, PostsKeep DEF McpNext
<1>3. McpInv => McpTypeOK
  <2> SUFFICES ASSUME McpInv PROVE McpTypeOK OBVIOUS
  <2>1. Len(inbound) \in Nat /\ Len(inbound) <= MaxServerMessages BY McpAssumption DEF McpInv, LineInv
  <2>2. mcpCall.id \in 0..2 /\ unit.pc \in {"none", "spec", "ask", "serving", "over", "gone"}
    BY DEF McpInv, CallFits, CallRecords, TreeInv, Units
  <2> QED BY <2>1, <2>2 DEF McpInv, LineInv, TreeInv, McpTypeOK
<1>4. McpInv => ResultIsOwn BY DEF McpInv, CallFits, ResultIsOwn
<1> QED BY <1>1, <1>2, <1>3, <1>4, PTL

-----------------------------------------------------------------------------
(* The background of a home.                                                *)

(* A behaviour of the background is one of every part: whichever part       *)
(* moves, the others rest.                                                  *)
LEMMA BackgroundParts ==
  BackgroundSpec => /\ LoopSpec /\ RunsInit /\ [][RunsNext]_runsVars /\ McpInit /\ [][McpNext]_mcpVars
                    /\ Init /\ [][Next]_vars /\ OutboxInit /\ [][OutboxNext]_outboxVars
<1>1. BackgroundInit => LoopInit /\ RunsInit /\ McpInit /\ Init /\ OutboxInit
  BY DEF BackgroundInit
<1>2. [BackgroundNext]_backgroundAll =>
        [LoopNext]_loopVars /\ [RunsNext]_runsVars /\ [McpNext]_mcpVars /\ [Next]_vars /\ [OutboxNext]_outboxVars
  BY Zenon DEF BackgroundNext, backgroundAll
<1>3. QED BY <1>1, <1>2, PTL DEF BackgroundSpec, LoopSpec

(* What has ended or was cancelled stays so, whatever the tasks at work on  *)
(* it do next (loop_runner.rs finish, structured_memory_suggest.rs).        *)
THEOREM BackgroundStaysEnded == BackgroundSpec => EndedStaysEnded
BY BackgroundParts, EndStands, CancelSafe, PTL DEF EndedStaysEnded

(* Every part keeps to its state space: the jobs, the outbox, the loops,    *)
(* the memory runs with their queue never past its limit by more than the   *)
(* one job that was preempted, and the MCP client.                          *)
THEOREM BackgroundTypesHold == BackgroundSpec => []BackgroundTypeOK
<1>1. TypeOK /\ OutboxTypeOK /\ LoopTypeOK /\ RunsTypeOK /\ McpTypeOK => BackgroundTypeOK
  BY Zenon DEF BackgroundTypeOK
<1>2. Init /\ [][Next]_vars => []TypeOK BY InitType, TypeStep, PTL
<1>3. OutboxInit /\ [][OutboxNext]_outboxVars => []OutboxTypeOK BY TypeInit, BoxTypeStep, PTL
<1> QED BY <1>1, <1>2, <1>3, BackgroundParts, LoopTypesHold, MemoryHolds, McpHolds, PTL

(* Who waits is served, and with its own answer: a turn that waits for the  *)
(* generation gate does not sleep through its release; an open receipt of a *)
(* suggestion has its input in the queue or with the worker, through        *)
(* preemption, expiry, clearing, cancelling, a full queue and restarts; a   *)
(* watcher of a loop run can still learn its end; and the result of an MCP  *)
(* call answers that call's tools/call and kept the frame cap               *)
(* (generation_gate.rs, structured_memory_suggest.rs, loop_runner.rs,       *)
(* common/mcp.rs).                                                          *)
THEOREM WaitersStayServed == BackgroundSpec => []WaitersAreServed
<1>1. NoMissedRelease /\ OpenReceiptHasInput /\ EndReachesWatchers /\ ResultIsOwn => WaitersAreServed
  BY Zenon DEF WaitersAreServed
<1>2. RunsInit /\ [][RunsNext]_runsVars => []NoMissedRelease
  <2>1. RunsInit => NoMissedRelease BY DEF RunsInit, NoMissedRelease
  <2> QED BY <2>1, ReleaseStep, PTL
<1> QED BY <1>1, <1>2, BackgroundParts, StreamsLearnTheEnd, MemoryHolds, McpHolds, PTL

=============================================================================
