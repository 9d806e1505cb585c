-------------------------- MODULE AgentJobsProofs --------------------------
(***************************************************************************)
(* Proofs about AgentJobs, for every set of jobs, every retention bound and *)
(* any number of restarts.                                                  *)
(***************************************************************************)
EXTENDS AgentJobs, FiniteSetTheorems, TLAPS

(* What open, finish, cancel and a failed completion write make of a row is *)
(* a row again.                                                             *)
LEMMA RowTypes ==
  /\ Absent \in Row /\ NewRow \in Row
  /\ \A row \in Row : UnsavedRow(row) \in Row
  /\ \A row \in Row, now \in Nat : /\ RecoveredRow(row, now) \in Row
                                   /\ CancelledRow(row, now) \in Row
  /\ \A row \in Row, now \in Nat, o \in Outcomes \cup {"none"} :
       FinishedRow(row, o, now) \in Row
BY DEF RecoveredRow, FinishedRow, CancelledRow, UnsavedRow, Absent, NewRow, Row,
       Statuses, Terminal, Errors, Outcomes

(* The completions of a well-typed map are well-typed events.               *)
LEMMA CompletionTypes ==
  ASSUME NEW m \in [Jobs -> Row]
  PROVE  /\ Completions(m) \subseteq Event
         /\ \A j : CompletionOf(m, j) \subseteq Event
BY DEF Completions, CompletionOf, Event, Row, Statuses, Terminal

(* What happens to the process, the tasks and the gates when it dies keeps  *)
(* their types.                                                             *)
LEMMA DieTypes ==
  ASSUME TypeOK, Die
  PROVE  /\ up' \in BOOLEAN /\ mem' \in [Jobs -> Row]
         /\ route' \in [Jobs -> {"none", "prepared", "registered", "accepted", "refused", "lost"}]
         /\ task' \in [Jobs -> {"none", "waiting", "starting", "calling", "returned",
                                "reporting", "sync", "ended"}]
         /\ outcome' \in [Jobs -> Outcomes \cup {"none"}]
         /\ aborted' \subseteq Jobs
         /\ child' \in [Jobs -> {"none", "live", "stopping", "orphan", "exited"}]
         /\ runGate' \in Jobs \cup {NoJob} /\ genGate' \in Jobs \cup {NoJob, Chat}
<1>1. Absent \in Row
  BY DEF Absent, Row, Statuses, Terminal, Errors
<1> QED BY <1>1 DEF TypeOK, Die

(* JobStore::cancel keeps the types of what it writes.                      *)
LEMMA CancelTypes ==
  ASSUME TypeOK, NEW j \in Jobs, CancelStore(j)
  PROVE  /\ clock' \in Nat /\ mem' \in [Jobs -> Row] /\ disk' \in [Jobs -> Row]
         /\ aborted' \subseteq Jobs
         /\ events' \subseteq Event
<1>1. CancelledRow(mem[j], clock + 1) \in Row
  <2>1. mem[j] \in Row /\ clock + 1 \in Nat
    BY DEF TypeOK
  <2> QED BY <2>1, RowTypes
<1>2. CancelledMem(j) \in [Jobs -> Row]
  BY <1>1 DEF TypeOK, CancelledMem
<1> QED BY <1>2, CompletionTypes DEF TypeOK, CancelStore, Aborts

(* TypeOK is inductive: one step per action.                                *)
LEMMA TypeStep == TypeOK /\ [Next]_vars => TypeOK'
<1> SUFFICES ASSUME TypeOK, [Next]_vars PROVE TypeOK'
  OBVIOUS
<1> USE DEF TypeOK
<1>1. CASE Open
  <2> DEFINE rows == [j \in Jobs |-> RecoveredRow(disk[j], clock + 1)]
  <2>0. clock + 1 \in Nat /\ \A j \in Jobs : disk[j] \in Row
    OBVIOUS
  <2>a. \A j \in Jobs : RecoveredRow(disk[j], clock + 1) \in Row
    BY <2>0, RowTypes
  <2>1. rows \in [Jobs -> Row]
    BY <2>a
  <2>2. Completions(rows) \subseteq Event
    BY <2>1, CompletionTypes
  <2>3. /\ boots' = boots + 1 /\ clock' = clock + 1 /\ disk' = rows
        /\ \/ up' = TRUE /\ mem' = rows /\ events' = events \cup Completions(rows)
           \/ UNCHANGED <<up, mem, events>>
        /\ UNCHANGED <<born, suggested, taskVars, gateVars>>
    BY <1>1 DEF Open, Reconciled
  <2> HIDE DEF rows
  <2>4. up' \in BOOLEAN /\ mem' \in [Jobs -> Row] /\ disk' \in [Jobs -> Row] /\ events' \subseteq Event
    BY <2>1, <2>2, <2>3
  <2> QED BY <2>3, <2>4 DEF taskVars, gateVars
<1>2. CASE Crash
  BY <1>2, DieTypes DEF Crash
<1>3. CASE ChatStart
  BY <1>3 DEF ChatStart, storeVars, taskVars
<1>4. CASE ChatEnd
  BY <1>4 DEF ChatEnd, storeVars, taskVars
<1>5. ASSUME NEW j \in Jobs, PrepareJob(j) PROVE TypeOK'
  BY <1>5 DEF PrepareJob, ClaimGates, storeVars
<1>6. ASSUME NEW j \in Jobs, SyncRun(j) PROVE TypeOK'
  BY <1>6 DEF SyncRun, ClaimGates, storeVars
<1>7. ASSUME NEW j \in Jobs, Register(j) PROVE TypeOK'
  <2>1. PICK E \in Evictions(mem) :
          LET kept == [k \in Jobs |-> IF k \in E THEN Absent ELSE mem[k]]
              full == [kept EXCEPT ![j] = NewRow]
          IN \/ disk' = full /\ mem' = full /\ born' = [born EXCEPT ![j] = clock + 1]
                /\ route' = [route EXCEPT ![j] = "registered"] /\ UNCHANGED aborted
             \/ mem' = kept /\ route' = [route EXCEPT ![j] = "refused"]
                /\ aborted' = aborted \cup {j} /\ UNCHANGED <<disk, born>>
    BY <1>7, Zenon DEF Register, MemAfterFailedInsert
  <2>2. [k \in Jobs |-> IF k \in E THEN Absent ELSE mem[k]] \in [Jobs -> Row]
    BY RowTypes
  <2> DEFINE kept == [k \in Jobs |-> IF k \in E THEN Absent ELSE mem[k]]
             full == [kept EXCEPT ![j] = NewRow]
  <2>a. full \in [Jobs -> Row]
    BY <2>2, RowTypes
  <2>b. \/ disk' = full /\ mem' = full /\ born' = [born EXCEPT ![j] = clock + 1]
        \/ mem' = kept /\ UNCHANGED <<disk, born>>
    BY <2>1
  <2> HIDE DEF kept, full
  <2>c. kept \in [Jobs -> Row]
    BY <2>2 DEF kept
  <2>3. mem' \in [Jobs -> Row] /\ disk' \in [Jobs -> Row] /\ born' \in [Jobs -> Nat]
    BY <2>a, <2>b, <2>c
  <2> QED BY <1>7, <2>1, <2>3 DEF Register, gateVars
<1>8. ASSUME NEW j \in Jobs, BindGoal(j) PROVE TypeOK'
  BY <1>8, CancelTypes DEF BindGoal, gateVars
<1>9. ASSUME NEW j \in Jobs, Cancel(j) PROVE TypeOK'
  BY <1>9, CancelTypes DEF Cancel, gateVars
<1>10. ASSUME NEW j \in Jobs, CancelThenDie(j) PROVE TypeOK'
  <2>1. mem[j] \in Row /\ clock + 1 \in Nat
    OBVIOUS
  <2>2. CancelledRow(mem[j], clock + 1) \in Row
    BY <2>1, RowTypes
  <2>3. disk' \in [Jobs -> Row]
    BY <1>10, <2>2 DEF CancelThenDie, CancelledMem
  <2> QED BY <1>10, <2>3, DieTypes DEF CancelThenDie
<1>11. ASSUME NEW j \in Jobs, FinishThenDie(j) PROVE TypeOK'
  <2>1. mem[j] \in Row /\ clock + 1 \in Nat /\ outcome[j] \in Outcomes \cup {"none"}
    OBVIOUS
  <2>2. FinishedRow(mem[j], outcome[j], clock + 1) \in Row
    BY <2>1, RowTypes
  <2>3. disk' \in [Jobs -> Row]
    BY <1>11, <2>2 DEF FinishThenDie
  <2> QED BY <1>11, <2>3, DieTypes DEF FinishThenDie
<1>12. ASSUME NEW j \in Jobs, ChildReaped(j) PROVE TypeOK'
  BY <1>12 DEF ChildReaped, storeVars, gateVars
<1>13. ASSUME NEW j \in Jobs, TaskReady(j) PROVE TypeOK'
  BY <1>13 DEF TaskReady, storeVars, gateVars
<1>14. ASSUME NEW j \in Jobs, Launch(j) PROVE TypeOK'
  BY <1>14 DEF Launch, storeVars, gateVars
<1>15. ASSUME NEW j \in Jobs, CallRefused(j) PROVE TypeOK'
  BY <1>15 DEF CallRefused, Outcomes, storeVars, gateVars
<1>16. ASSUME NEW j \in Jobs, CallReturns(j) PROVE TypeOK'
  BY <1>16 DEF CallReturns, Outcomes, storeVars, gateVars
<1>17. ASSUME NEW j \in Jobs, TaskDropped(j) PROVE TypeOK'
  BY <1>17 DEF TaskDropped, StopChild, ReleaseGates, storeVars
<1>18. ASSUME NEW j \in Jobs, Finish(j) PROVE TypeOK'
  <2> DEFINE done == [mem EXCEPT ![j] = FinishedRow(mem[j], outcome[j], clock + 1)]
             lost == [mem EXCEPT ![j] = UnsavedRow(done[j])]
  <2>0. mem[j] \in Row /\ clock + 1 \in Nat /\ outcome[j] \in Outcomes \cup {"none"}
    OBVIOUS
  <2>a. FinishedRow(mem[j], outcome[j], clock + 1) \in Row
    BY <2>0, RowTypes
  <2>b. UnsavedRow(done[j]) \in Row
    BY <2>a, RowTypes
  <2>1. done \in [Jobs -> Row] /\ lost \in [Jobs -> Row]
    BY <2>a, <2>b
  <2>2. \/ UNCHANGED <<clock, mem, disk, events, suggested>>
        \/ /\ clock' = clock + 1 /\ UNCHANGED suggested
           /\ (mem' = done /\ disk' = done) \/ (mem' = lost /\ disk' = disk)
           /\ events' = events \cup CompletionOf(mem', j)
    BY <1>18 DEF Finish, storeVars
  <2> HIDE DEF done, lost
  <2>3. mem' \in [Jobs -> Row] /\ disk' \in [Jobs -> Row]
    BY <2>1, <2>2
  <2>4. CompletionOf(mem', j) \subseteq Event
    BY <2>3, CompletionTypes
  <2>5. clock' \in Nat /\ events' \subseteq Event /\ suggested' \subseteq Jobs
    BY <2>2, <2>4
  <2> QED BY <1>18, <2>3, <2>5 DEF Finish, gateVars
<1>19. ASSUME NEW j \in Jobs, Annotate(j) PROVE TypeOK'
  <2>1. [mem EXCEPT ![j].err = "metadata"] \in [Jobs -> Row]
    BY DEF Row, Errors
  <2>2. mem' \in [Jobs -> Row] /\ disk' \in [Jobs -> Row] /\ suggested' \subseteq Jobs
    BY <1>19, <2>1 DEF Annotate
  <2> QED BY <1>19, <2>2 DEF Annotate, ReleaseGates
<1>20. ASSUME NEW j \in Jobs, SyncEnd(j) PROVE TypeOK'
  BY <1>20 DEF SyncEnd, StopChild, ReleaseGates
<1>21. CASE UNCHANGED vars
  BY <1>21 DEF vars, storeVars, taskVars, gateVars
<1> QED
  BY <1>1, <1>2, <1>3, <1>4, <1>5, <1>6, <1>7, <1>8, <1>9, <1>10, <1>11, <1>12,
     <1>13, <1>14, <1>15, <1>16, <1>17, <1>18, <1>19, <1>20, <1>21
  DEF Next, RouteStep, TaskStep

(* The initial state is well typed.                                         *)
LEMMA InitType == Init => TypeOK
<1> SUFFICES ASSUME Init PROVE TypeOK
  OBVIOUS
<1>1. mem \in [Jobs -> Row] /\ disk \in [Jobs -> Row]
  BY RowTypes DEF Init
<1>2. /\ up \in BOOLEAN /\ boots \in Nat /\ clock \in Nat /\ born \in [Jobs -> Nat]
      /\ events \subseteq Event /\ suggested \subseteq Jobs /\ aborted \subseteq Jobs
  BY DEF Init
<1> QED BY <1>1, <1>2 DEF Init, TypeOK

(* Every variable always has its type.                                      *)
THEOREM TypeCorrect == Spec => []TypeOK
BY InitType, TypeStep, PTL DEF Spec

-----------------------------------------------------------------------------
(* The inductive invariant.  The gates are held exactly while a task (or a  *)
(* synchronous request) may still use them; a live child belongs to a task  *)
(* in its call; a running row belongs to a task that has not been aborted.  *)

Active == {"waiting", "starting", "calling", "returned", "reporting", "sync"}

GateInv == \A j \in Jobs : task[j] \in Active =>
             runGate = j /\ (SharesBackend => genGate = j)

ChildInv == \A j \in Jobs : child[j] = "live" => task[j] \in {"calling", "sync"}

FreshInv == \A j \in Jobs : task[j] = "none" =>
              /\ route[j] = "none" /\ child[j] = "none" /\ j \notin aborted
              /\ mem[j].status = "absent" /\ disk[j].status = "absent"

DownInv == ~up => \A j \in Jobs : /\ task[j] \in {"none", "ended"}
                                  /\ route[j] \in {"none", "lost"}

RouteInv == \A j \in Jobs :
  /\ route[j] = "prepared" =>
       /\ task[j] = "waiting" /\ child[j] = "none"
       /\ mem[j].status = "absent" /\ j \notin aborted
  /\ route[j] = "registered" => task[j] \in {"waiting", "ended"} /\ child[j] = "none"
  /\ route[j] = "refused" => /\ task[j] \in {"waiting", "ended"} /\ child[j] = "none"
                             /\ mem[j].status # "running"

RunInv == \A j \in Jobs : mem[j].status = "running" =>
            /\ task[j] \in {"waiting", "starting", "calling", "returned"}
            /\ j \notin aborted /\ disk[j].status = "running"

Inv == GateInv /\ ChildInv /\ FreshInv /\ DownInv /\ RouteInv /\ RunInv

(* Recovery leaves no running row, and no row where there was none.         *)
LEMMA RecoveredStatus ==
  ASSUME NEW row \in Row, NEW now
  PROVE  /\ RecoveredRow(row, now).status # "running"
         /\ row.status = "absent" => RecoveredRow(row, now).status = "absent"
BY DEF RecoveredRow, Row

(* Cancelling touches the job's own row only and leaves it not running; it  *)
(* aborts the task if it was running, and the file holds the old rows or    *)
(* the new ones.                                                            *)
LEMMA CancelEffect ==
  ASSUME TypeOK, NEW j \in Jobs, CancelStore(j)
  PROVE  /\ \A k \in Jobs \ {j} : mem'[k] = mem[k]
         /\ mem'[j].status # "running"
         /\ mem[j].status = "absent" => mem'[j].status = "absent"
         /\ disk' = mem' \/ disk' = disk
         /\ aborted' \subseteq aborted \cup {j}
BY DEF TypeOK, Row, CancelStore, CancelledMem, CancelledRow, Aborts

(* What happens to the tasks when the process dies.                         *)
LEMMA DieEffect ==
  ASSUME TypeOK, Inv, Die,
         \A j \in Jobs : task[j] = "none" => disk'[j].status = "absent"
  PROVE  Inv'
<1>1. /\ up' = FALSE /\ aborted' = {}
      /\ \A j \in Jobs : /\ mem'[j].status = "absent"
                         /\ route'[j] \in {"none", "lost"} /\ task'[j] \in {"none", "ended"}
                         /\ child'[j] # "live"
                         /\ task'[j] = "none" =>
                              task[j] = "none" /\ route'[j] = route[j] /\ child'[j] = child[j]
  <2>1. \A j \in Jobs : child[j] = "none" => child'[j] = "none"
    BY DEF TypeOK, Die
  <2> QED BY <2>1 DEF TypeOK, Die, Absent, Inv, FreshInv
<1> QED BY <1>1 DEF Inv, GateInv, ChildInv, FreshInv, DownInv, RouteInv, RunInv, Active

(* Inv is inductive: one step per action.                                   *)
LEMMA InvStep == TypeOK /\ TypeOK' /\ Inv /\ [Next]_vars => Inv'
<1> SUFFICES ASSUME TypeOK, TypeOK', Inv, [Next]_vars PROVE Inv'
  OBVIOUS
<1> USE DEF Inv, GateInv, ChildInv, FreshInv, DownInv, RouteInv, RunInv, Active
<1>1. CASE Open
  <2>1. \A j \in Jobs : /\ disk'[j].status # "running"
                        /\ disk[j].status = "absent" => disk'[j].status = "absent"
    BY <1>1, RecoveredStatus DEF Open, TypeOK
  <2>2. mem' = disk' \/ mem' = mem
    BY <1>1 DEF Open
  <2>3. UNCHANGED <<route, task, outcome, aborted, child, runGate, genGate>> /\ ~up
    BY <1>1 DEF Open, taskVars, gateVars
  <2> QED BY <2>1, <2>2, <2>3
<1>2. CASE Crash
  BY <1>2, DieEffect DEF Crash
<1>3. CASE ChatStart
  BY <1>3, HolderAssumption DEF ChatStart, storeVars, taskVars
<1>4. CASE ChatEnd
  BY <1>4, HolderAssumption DEF ChatEnd, storeVars, taskVars
<1>5. ASSUME NEW j \in Jobs, PrepareJob(j) PROVE Inv'
  BY <1>5, HolderAssumption DEF PrepareJob, ClaimGates, GatesFree, Fresh, storeVars, TypeOK
<1>6. ASSUME NEW j \in Jobs, SyncRun(j) PROVE Inv'
  BY <1>6, HolderAssumption DEF SyncRun, ClaimGates, GatesFree, Fresh, storeVars, TypeOK
<1>7. ASSUME NEW j \in Jobs, Register(j) PROVE Inv'
  <2>1. PICK E \in Evictions(mem) :
          LET kept == [k \in Jobs |-> IF k \in E THEN Absent ELSE mem[k]]
              full == [kept EXCEPT ![j] = NewRow]
          IN \/ disk' = full /\ mem' = full /\ route' = [route EXCEPT ![j] = "registered"]
                /\ UNCHANGED aborted
             \/ mem' = kept /\ route' = [route EXCEPT ![j] = "refused"]
                /\ aborted' = aborted \cup {j} /\ UNCHANGED disk
    BY <1>7, Zenon DEF Register, MemAfterFailedInsert
  <2>2. \A k \in E : mem[k].status # "running" /\ mem[k].status # "absent"
    BY <2>1 DEF Evictions, TerminalJobs, Terminal
  <2>3. /\ up /\ route[j] = "prepared" /\ task[j] = "waiting" /\ child[j] = "none"
        /\ mem[j].status = "absent" /\ UNCHANGED <<up, task, child, runGate, genGate>>
        /\ j \notin aborted
    BY <1>7 DEF Register, gateVars
  <2>4. CASE /\ mem' = [k \in Jobs |-> IF k \in E THEN Absent ELSE mem[k]]
             /\ route' = [route EXCEPT ![j] = "refused"]
             /\ aborted' = aborted \cup {j} /\ UNCHANGED disk
    BY <2>2, <2>3, <2>4 DEF TypeOK, Absent
  <2>5. CASE /\ mem' = [[k \in Jobs |-> IF k \in E THEN Absent ELSE mem[k]] EXCEPT ![j] = NewRow]
             /\ disk' = mem' /\ route' = [route EXCEPT ![j] = "registered"]
             /\ UNCHANGED aborted
    BY <2>2, <2>3, <2>5 DEF TypeOK, Absent, NewRow
  <2> QED BY <2>1, <2>4, <2>5
<1>8. ASSUME NEW j \in Jobs, BindGoal(j) PROVE Inv'
  <2>1. /\ up /\ route[j] = "registered"
        /\ UNCHANGED <<up, task, child, runGate, genGate>>
    BY <1>8 DEF BindGoal, gateVars
  <2>2. CASE route' = [route EXCEPT ![j] = "refused"] /\ CancelStore(j)
    BY <2>1, <2>2, CancelEffect DEF TypeOK
  <2>3. CASE /\ route' = [route EXCEPT ![j] = "accepted"]
             /\ UNCHANGED <<clock, mem, disk, aborted, events>>
    BY <2>1, <2>3 DEF TypeOK
  <2> QED BY <1>8, <2>2, <2>3 DEF BindGoal
<1>9. ASSUME NEW j \in Jobs, Cancel(j) PROVE Inv'
  BY <1>9, CancelEffect DEF Cancel, gateVars, TypeOK
<1>10. ASSUME NEW j \in Jobs, CancelThenDie(j) PROVE Inv'
  <2>1. \A k \in Jobs : task[k] = "none" => disk'[k].status = "absent"
    BY <1>10 DEF CancelThenDie, CancelledMem, TypeOK
  <2> QED BY <1>10, <2>1, DieEffect DEF CancelThenDie
<1>11. ASSUME NEW j \in Jobs, FinishThenDie(j) PROVE Inv'
  <2>1. \A k \in Jobs : task[k] = "none" => disk'[k].status = "absent"
    BY <1>11 DEF FinishThenDie, TypeOK
  <2> QED BY <1>11, <2>1, DieEffect DEF FinishThenDie
<1>12. ASSUME NEW j \in Jobs, ChildReaped(j) PROVE Inv'
  BY <1>12 DEF ChildReaped, storeVars, gateVars, TypeOK
<1>13. ASSUME NEW j \in Jobs, TaskReady(j) PROVE Inv'
  BY <1>13 DEF TaskReady, ReadySent, storeVars, gateVars, TypeOK
<1>14. ASSUME NEW j \in Jobs, Launch(j) PROVE Inv'
  BY <1>14 DEF Launch, storeVars, gateVars, TypeOK
<1>15. ASSUME NEW j \in Jobs, CallRefused(j) PROVE Inv'
  BY <1>15 DEF CallRefused, storeVars, gateVars, TypeOK
<1>16. ASSUME NEW j \in Jobs, CallReturns(j) PROVE Inv'
  BY <1>16 DEF CallReturns, storeVars, gateVars, TypeOK
<1>17. ASSUME NEW j \in Jobs, TaskDropped(j) PROVE Inv'
  <2>1. /\ task[j] # "none" /\ task' = [task EXCEPT ![j] = "ended"]
        /\ \A k \in Jobs : k # j => child'[k] = child[k]
        /\ child'[j] # "live" /\ (child[j] = "none" => child'[j] = "none")
        /\ UNCHANGED <<up, mem, disk, route, aborted>>
        /\ up
    BY <1>17 DEF TaskDropped, DropPoint, StopChild, storeVars, TypeOK
  <2>2. /\ \A k \in Jobs \ {j} : runGate = k => runGate' = k
        /\ \A k \in Jobs \ {j} : genGate = k => genGate' = k
    BY <1>17 DEF TaskDropped, ReleaseGates
  <2>3. mem[j].status # "running" /\ route[j] # "prepared"
    BY <1>17 DEF TaskDropped, DropPoint
  <2> QED BY <2>1, <2>2, <2>3 DEF TypeOK
<1>18. ASSUME NEW j \in Jobs, Finish(j) PROVE Inv'
  <2>1. /\ up /\ task[j] = "returned" /\ task' = [task EXCEPT ![j] = "reporting"]
        /\ UNCHANGED <<up, route, aborted, child, runGate, genGate>>
    BY <1>18 DEF Finish, gateVars
  <2>2. /\ \A k \in Jobs \ {j} : mem'[k] = mem[k]
        /\ mem'[j].status # "running"
        /\ disk' = mem' \/ disk' = disk
    <3> DEFINE done == [mem EXCEPT ![j] = FinishedRow(mem[j], outcome[j], clock + 1)]
               lost == [mem EXCEPT ![j] = UnsavedRow(done[j])]
    <3>1. /\ done[j].status # "running" /\ lost[j].status # "running"
          /\ \A k \in Jobs \ {j} : done[k] = mem[k] /\ lost[k] = mem[k]
      <4>1. done[j] = FinishedRow(mem[j], outcome[j], clock + 1) /\ lost[j] = UnsavedRow(done[j])
        BY DEF TypeOK
      <4>2. FinishedRow(mem[j], outcome[j], clock + 1).status # "running"
        BY DEF FinishedRow
      <4>3. done[j] \in Row
        BY <4>1, RowTypes DEF TypeOK
      <4>4. UnsavedRow(done[j]).status # "running"
        BY <4>3 DEF UnsavedRow, Row
      <4> QED BY <4>1, <4>2, <4>4 DEF TypeOK
    <3>2. \/ mem[j].status # "running" /\ UNCHANGED <<mem, disk>>
          \/ mem' = done /\ disk' = done
          \/ mem' = lost /\ disk' = disk
      BY <1>18 DEF Finish, FinishGuard, storeVars
    <3> HIDE DEF done, lost
    <3> QED BY <3>1, <3>2
  <2> QED BY <2>1, <2>2 DEF TypeOK
<1>19. ASSUME NEW j \in Jobs, Annotate(j) PROVE Inv'
  <2>1. /\ up /\ task[j] = "reporting" /\ task' = [task EXCEPT ![j] = "ended"]
        /\ UNCHANGED <<up, route, aborted, child>>
    BY <1>19 DEF Annotate
  <2>2. /\ \A k \in Jobs : mem'[k].status = mem[k].status
        /\ disk' = mem \/ disk' = disk
    BY <1>19 DEF Annotate, TypeOK, Row
  <2>3. /\ \A k \in Jobs \ {j} : runGate = k => runGate' = k
        /\ \A k \in Jobs \ {j} : genGate = k => genGate' = k
    BY <1>19 DEF Annotate, ReleaseGates
  <2> QED BY <2>1, <2>2, <2>3 DEF TypeOK
<1>20. ASSUME NEW j \in Jobs, SyncEnd(j) PROVE Inv'
  <2>1. /\ task[j] = "sync" /\ task' = [task EXCEPT ![j] = "ended"]
        /\ \A k \in Jobs : k # j => child'[k] = child[k]
        /\ child'[j] # "live"
        /\ UNCHANGED <<up, mem, disk, route, aborted>>
    BY <1>20 DEF SyncEnd, StopChild, TypeOK
  <2>2. /\ \A k \in Jobs \ {j} : runGate = k => runGate' = k
        /\ \A k \in Jobs \ {j} : genGate = k => genGate' = k
    BY <1>20 DEF SyncEnd, ReleaseGates
  <2> QED BY <2>1, <2>2 DEF TypeOK
<1>21. CASE UNCHANGED vars
  BY <1>21 DEF vars, storeVars, taskVars, gateVars
<1> QED
  BY <1>1, <1>2, <1>3, <1>4, <1>5, <1>6, <1>7, <1>8, <1>9, <1>10, <1>11, <1>12,
     <1>13, <1>14, <1>15, <1>16, <1>17, <1>18, <1>19, <1>20, <1>21
  DEF Next, RouteStep, TaskStep

(* The invariant holds in every reachable state.                            *)
LEMMA InvHolds == Spec => [](TypeOK /\ Inv)
<1>1. Init => Inv
  BY DEF Init, Inv, GateInv, ChildInv, FreshInv, DownInv, RouteInv, RunInv, Active, Absent
<1>2. TypeOK /\ Inv /\ [Next]_vars => (TypeOK /\ Inv)'
  BY TypeStep, InvStep
<1>3. Init => TypeOK
  BY InitType
<1> QED BY <1>1, <1>2, <1>3, PTL DEF Spec

(* A running job is always running on disk too, so a crash at any moment    *)
(* leaves the evidence the next start reports as interrupted.               *)
THEOREM RunningDurable == Spec => []RunningIsDurable
<1>1. TypeOK /\ Inv => RunningIsDurable
  BY DEF Inv, RunInv, RunningIsDurable
<1> QED BY <1>1, InvHolds, PTL

(* There is never more than one child that has not been told to stop, and   *)
(* it has the model to itself when chat shares its backend.                 *)
THEOREM SingleWorker == Spec => []OneLiveWorker
<1>1. TypeOK /\ Inv => OneLiveWorker
  BY DEF Inv, ChildInv, GateInv, Active, OneLiveWorker
<1> QED BY <1>1, InvHolds, PTL

(* A job whose start was refused never gets a child.                        *)
THEOREM RefusedJobNeverRuns == Spec => []RefusedNeverRuns
<1>1. TypeOK /\ Inv => RefusedNeverRuns
  BY DEF Inv, RouteInv, RefusedNeverRuns
<1> QED BY <1>1, InvHolds, PTL

-----------------------------------------------------------------------------
(* What the store keeps.  A few facts about its rows beside Inv: a store    *)
(* that is not serving is empty; a saved outcome is in memory unchanged or  *)
(* evicted; a task that has not reported has no outcome but a cancellation; *)
(* what is about to be annotated is on disk; and an event tells what memory *)
(* and file say, of a job that will never run again.                        *)

Done == {"finished", "failed", "cancelled"}

DownMem == ~up => \A j \in Jobs : mem[j].status = "absent"

NewOnDisk == \A j \in Jobs : route[j] = "prepared" => disk[j].status = "absent"

SavedInv == up => \A j \in Jobs : disk[j].status \in Done => Kept(disk[j], mem[j])

UnreportedInv == \A j \in Jobs :
  task[j] \in {"waiting", "starting", "calling", "returned"} =>
    mem[j].status \in {"absent", "running", "cancelled"}

ReportInv == \A j \in Jobs : task[j] = "reporting" /\ Annotatable(mem[j]) =>
               disk[j].status = mem[j].status /\ disk[j].result

Tells(e, row) == row.status \in Done => e.status = row.status /\ e.ended = row.ended

EventInv == \A e \in events :
  /\ task[e.job] # "none" /\ route[e.job] # "prepared" /\ mem[e.job].status # "running"
  /\ Tells(e, mem[e.job]) /\ Tells(e, disk[e.job])

StoreInv == /\ DownMem /\ NewOnDisk /\ SavedInv /\ UnreportedInv /\ ReportInv /\ EventInv
            /\ OneCompletionEvent /\ NoLostCompletion

(* Retention, in terms of the set R of jobs a map retains: it is finite and *)
(* within the bound, creation times are distinct, and a job missing from R  *)
(* has been followed by enough newer ones that are in it.                   *)
Few(R) == IsFiniteSet(R) /\ Cardinality(R) <= MaxRetained

Newer(R, j) == {k \in R : born[k] > born[j]}

Followed(R) == \A j \in Jobs : born[j] > 0 /\ j \notin R =>
                 Cardinality(Newer(R, j)) >= MaxRetained - 1

BornInv == /\ \A j \in Jobs : born[j] <= clock
           /\ \A j, k \in Jobs : born[j] > 0 /\ born[j] = born[k] => j = k

RetInv == /\ Few(Retained(mem)) /\ Few(Retained(disk)) /\ BornInv
          /\ Followed(Retained(disk)) /\ (up => Followed(Retained(mem)))


(* What each row operation does to the status and the time of a row.        *)
LEMMA RowEffects ==
  ASSUME NEW row \in Row, NEW now \in Nat
  PROVE  /\ RecoveredRow(row, now).status = "absent" <=> row.status = "absent"
         /\ row.status \in Done => RecoveredRow(row, now) = row
         /\ RecoveredRow(row, now).status \in Done => row.status \in Done
         /\ CancelledRow(row, now).status = "absent" <=> row.status = "absent"
         /\ row.status # "running" => CancelledRow(row, now) = row
         /\ row.status = "running" => CancelledRow(row, now).status = "cancelled"
         /\ \A o : FinishedRow(row, o, now).status \in {"finished", "failed"}
         /\ UnsavedRow(row).status = "failed" /\ UnsavedRow(row).err = "persist"
BY DEF RecoveredRow, CancelledRow, FinishedRow, UnsavedRow, Row, Done, Statuses, Terminal

(* The completion of one job is the completion of its row.                  *)
LEMMA CompletionFacts ==
  ASSUME NEW m
  PROVE  /\ \A e : e \in Completions(m) <=>
              \E j \in Jobs : /\ m[j].status \in Done
                              /\ e = [job |-> j, status |-> m[j].status, ended |-> m[j].ended]
         /\ \A e, j : e \in CompletionOf(m, j) <=> e \in Completions(m) /\ e.job = j
BY DEF Completions, CompletionOf, Done

(* StoreInv survives a step that leaves the store alone and moves tasks and *)
(* routes forward.                                                          *)
LEMMA QuietStore ==
  ASSUME TypeOK, StoreInv, UNCHANGED <<up, mem, disk, events>>,
         \A j \in Jobs :
           /\ route'[j] = "prepared" => route[j] = "prepared" \/ task[j] = "none"
           /\ route'[j] = "prepared" => disk[j].status = "absent"
           /\ task'[j] = "none" => task[j] = "none"
           /\ task'[j] \in {"waiting", "starting", "calling", "returned"} =>
                \/ task[j] \in {"waiting", "starting", "calling", "returned"}
                \/ mem[j].status = "absent"
           /\ task'[j] = "reporting" => task[j] = "reporting" \/ ~Annotatable(mem[j])
  PROVE  StoreInv'
<1> USE DEF StoreInv
<1>1. DownMem' /\ NewOnDisk' /\ SavedInv' /\ UnreportedInv' /\ ReportInv'
  BY DEF DownMem, NewOnDisk, SavedInv, UnreportedInv, ReportInv, TypeOK, Kept, Annotatable
<1>2. EventInv'
  BY DEF EventInv, Tells, TypeOK, Event
<1>3. OneCompletionEvent' /\ NoLostCompletion'
  BY DEF OneCompletionEvent, NoLostCompletion, Completions
<1> QED BY <1>1, <1>2, <1>3

(* Dying keeps StoreInv, whatever was written last, if a changed row of the *)
(* file is one memory had, or one of a job without an event.                *)
LEMMA DieStore ==
  ASSUME TypeOK, TypeOK', Inv, StoreInv, Die, UNCHANGED events,
         \A k \in Jobs : \/ disk'[k] = disk[k] \/ disk'[k] = mem[k]
                         \/ \A e \in events : e.job # k
  PROVE  StoreInv'
<1> USE DEF StoreInv
<1>1. /\ up' = FALSE
      /\ \A j \in Jobs : /\ mem'[j].status = "absent"
                         /\ route'[j] # "prepared" /\ task'[j] \in {"none", "ended"}
                         /\ task'[j] = "none" => task[j] = "none"
  BY DEF Die, TypeOK, Absent
<1>2. DownMem' /\ NewOnDisk' /\ SavedInv' /\ UnreportedInv' /\ ReportInv'
  BY <1>1 DEF DownMem, NewOnDisk, SavedInv, UnreportedInv, ReportInv
<1>3. \A e \in events' : Tells(e, disk'[e.job])
  <2> SUFFICES ASSUME NEW e \in events PROVE Tells(e, disk'[e.job])
    OBVIOUS
  <2>1. e.job \in Jobs
    BY DEF TypeOK, Event
  <2>2. disk'[e.job] = disk[e.job] \/ disk'[e.job] = mem[e.job]
    BY <2>1
  <2> QED BY <2>2 DEF EventInv
<1>4. EventInv'
  <2> SUFFICES ASSUME NEW e \in events
               PROVE  /\ task'[e.job] # "none" /\ route'[e.job] # "prepared"
                      /\ mem'[e.job].status # "running" /\ Tells(e, mem'[e.job])
    BY <1>3 DEF EventInv
  <2>1. e.job \in Jobs
    BY DEF TypeOK, Event
  <2>2. task[e.job] # "none"
    BY DEF EventInv
  <2> QED BY <1>1, <2>1, <2>2 DEF Tells, Done
<1>5. OneCompletionEvent' /\ NoLostCompletion'
  <2>1. Completions(mem') = {}
    BY <1>1 DEF Completions
  <2> QED BY <2>1 DEF OneCompletionEvent, NoLostCompletion
<1> QED BY <1>2, <1>4, <1>5

(* A running job has no event and no saved outcome; changing its row to one *)
(* that is not running, with its completion told, keeps what events and     *)
(* memory say of each other.                                                *)
LEMMA EndStore ==
  ASSUME TypeOK, TypeOK', Inv, StoreInv, NEW j \in Jobs, up, up',
         mem[j].status = "running", mem'[j].status \in Done,
         \A k \in Jobs \ {j} : mem'[k] = mem[k],
         disk' = mem' \/ disk' = disk,
         events' = events \cup CompletionOf(mem', j),
         \A k \in Jobs : task[k] # "none" => task'[k] # "none",
         \A k \in Jobs : route'[k] = "prepared" => route[k] = "prepared"
  PROVE  DownMem' /\ NewOnDisk' /\ SavedInv' /\ EventInv' /\ OneCompletionEvent' /\ NoLostCompletion'
<1> DEFINE new == [job |-> j, status |-> mem'[j].status, ended |-> mem'[j].ended]
<1>1. CompletionOf(mem', j) = {new}
  <2>1. new \in Completions(mem') /\ new.job = j
    BY DEF Completions, Done
  <2>2. ASSUME NEW e \in Completions(mem'), e.job = j PROVE e = new
    BY <2>2 DEF Completions
  <2> HIDE DEF new
  <2> QED BY <2>1, <2>2 DEF CompletionOf
<1>2. \A e \in events : e.job # j
  BY DEF StoreInv, EventInv
<1>3. disk[j].status = "running" /\ task[j] # "none" /\ route[j] # "prepared"
  BY DEF Inv, RunInv, RouteInv
<1>4. DownMem' /\ NewOnDisk' /\ SavedInv'
  BY <1>3 DEF StoreInv, DownMem, NewOnDisk, SavedInv, Kept, Done, Inv, RouteInv
<1>5. EventInv'
  <2> SUFFICES ASSUME NEW e \in events'
               PROVE  /\ task'[e.job] # "none" /\ route'[e.job] # "prepared"
                      /\ mem'[e.job].status # "running"
                      /\ Tells(e, mem'[e.job]) /\ Tells(e, disk'[e.job])
    BY DEF EventInv
  <2>1. CASE e \in events
    <3>1. e.job \in Jobs \ {j}
      BY <1>2, <2>1 DEF TypeOK, Event
    <3>2. mem'[e.job] = mem[e.job] /\ (disk'[e.job] = mem[e.job] \/ disk'[e.job] = disk[e.job])
      BY <3>1
    <3> QED BY <2>1, <3>1, <3>2 DEF StoreInv, EventInv
  <2>2. CASE e = new
    <3>1. e.job = j /\ e.status = mem'[j].status /\ e.ended = mem'[j].ended
      BY <2>2
    <3>2. Tells(e, mem'[j]) /\ Tells(e, disk'[j])
      BY <1>3, <3>1 DEF Tells, Done
    <3> QED BY <1>3, <3>1, <3>2 DEF Done
  <2> QED BY <1>1, <2>1, <2>2
<1>6. OneCompletionEvent'
  <2> SUFFICES ASSUME NEW e \in events', NEW f \in events', e.job = f.job PROVE e = f
    BY DEF OneCompletionEvent
  <2>1. new.job = j
    OBVIOUS
  <2> HIDE DEF new
  <2> QED BY <1>1, <1>2, <2>1 DEF StoreInv, OneCompletionEvent
<1>7. NoLostCompletion'
  <2> SUFFICES ASSUME NEW e \in Completions(mem') PROVE e \in events'
    BY DEF NoLostCompletion
  <2>1. PICK k \in Jobs : /\ mem'[k].status \in Done
                          /\ e = [job |-> k, status |-> mem'[k].status, ended |-> mem'[k].ended]
    BY DEF Completions, Done
  <2>2. CASE k = j
    BY <1>1, <2>1, <2>2
  <2>3. CASE k # j
    <3>1. e \in Completions(mem)
      BY <2>1, <2>3, CompletionFacts
    <3> QED BY <3>1 DEF StoreInv, NoLostCompletion
  <2> QED BY <2>2, <2>3
<1> QED BY <1>4, <1>5, <1>6, <1>7


(* Writing the rows once more, or changing nothing but an error text that   *)
(* stops an annotation, keeps StoreInv.                                     *)
LEMMA SavedStore ==
  ASSUME TypeOK, TypeOK', Inv, StoreInv, up, up', UNCHANGED events,
         \A k \in Jobs : /\ mem'[k].status = mem[k].status /\ mem'[k].ended = mem[k].ended
                         /\ Annotatable(mem'[k]) => mem'[k] = mem[k]
                         /\ route'[k] = "prepared" => route[k] = "prepared"
                         /\ task'[k] = task[k] \/ task'[k] = "ended",
         disk' = mem \/ disk' = disk
  PROVE  StoreInv'
<1>1. DownMem' /\ NewOnDisk' /\ UnreportedInv'
  BY DEF StoreInv, DownMem, NewOnDisk, UnreportedInv, Inv, RouteInv
<1>2. SavedInv'
  BY DEF StoreInv, SavedInv, Kept
<1>3. ReportInv'
  <2> SUFFICES ASSUME NEW k \in Jobs, task'[k] = "reporting", Annotatable(mem'[k])
               PROVE  disk'[k].status = mem'[k].status /\ disk'[k].result
    BY DEF ReportInv
  <2>1. task[k] = "reporting" /\ mem'[k] = mem[k]
    OBVIOUS
  <2>2. disk[k].status = mem[k].status /\ disk[k].result
    BY <2>1 DEF StoreInv, ReportInv
  <2> QED BY <2>1, <2>2 DEF Annotatable
<1>4. EventInv'
  <2> SUFFICES ASSUME NEW e \in events
               PROVE  /\ task'[e.job] # "none" /\ route'[e.job] # "prepared"
                      /\ mem'[e.job].status # "running"
                      /\ Tells(e, mem'[e.job]) /\ Tells(e, disk'[e.job])
    BY DEF EventInv
  <2>1. e.job \in Jobs
    BY DEF TypeOK, Event
  <2> QED BY <2>1 DEF StoreInv, EventInv, Tells
<1>5. Completions(mem') = Completions(mem)
  BY DEF Completions
<1> QED BY <1>1, <1>2, <1>3, <1>4, <1>5 DEF StoreInv, OneCompletionEvent, NoLostCompletion

(* Cancelling keeps StoreInv.                                               *)
LEMMA CancelStoreKeeps ==
  ASSUME TypeOK, TypeOK', Inv, StoreInv, NEW j \in Jobs, CancelStore(j), up, up',
         UNCHANGED task, \A k \in Jobs : route'[k] = "prepared" => route[k] = "prepared"
  PROVE  StoreInv'
<1> DEFINE row == CancelledRow(mem[j], clock + 1)
<1>0. mem[j] \in Row /\ clock + 1 \in Nat
  BY DEF TypeOK
<1>1. /\ mem[j].status # "running" => row = mem[j]
      /\ mem[j].status = "running" => row.status = "cancelled"
  BY <1>0, RowEffects
<1>2. /\ mem' = [mem EXCEPT ![j] = row] /\ disk' \in {mem', disk}
      /\ events' = IF mem[j].status = "running"
                   THEN events \cup CompletionOf(mem', j) ELSE events
  BY DEF CancelStore, CancelledMem
<1> HIDE DEF row
<1>3. CASE mem[j].status # "running"
  <2>1. mem' = mem
    BY <1>1, <1>2, <1>3 DEF TypeOK
  <2> QED BY <1>2, <1>3, <2>1, SavedStore
<1>4. CASE mem[j].status = "running"
  <2>1. /\ mem'[j].status = "cancelled" /\ \A k \in Jobs \ {j} : mem'[k] = mem[k]
    BY <1>1, <1>2, <1>4 DEF TypeOK
  <2>2. DownMem' /\ NewOnDisk' /\ SavedInv' /\ EventInv' /\ OneCompletionEvent' /\ NoLostCompletion'
    BY <1>2, <1>4, <2>1, EndStore DEF Done
  <2>3. UnreportedInv'
    BY <2>1 DEF StoreInv, UnreportedInv
  <2>4. ReportInv'
    BY <1>2, <2>1 DEF StoreInv, ReportInv, Annotatable
  <2> QED BY <2>2, <2>3, <2>4 DEF StoreInv
<1> QED BY <1>3, <1>4

(* Opening the store: recovery keeps every saved outcome, and what it finds *)
(* finished is told.                                                        *)
LEMMA OpenStore == TypeOK /\ TypeOK' /\ Inv /\ StoreInv /\ Open => StoreInv'
<1> SUFFICES ASSUME TypeOK, TypeOK', Inv, StoreInv, Open PROVE StoreInv'
  OBVIOUS
<1>1. \A k \in Jobs : /\ disk'[k].status = "absent" <=> disk[k].status = "absent"
                      /\ disk'[k].status \in Done => disk'[k] = disk[k]
                      /\ disk'[k].status # "running"
  <2> SUFFICES ASSUME NEW k \in Jobs
               PROVE  /\ disk'[k].status = "absent" <=> disk[k].status = "absent"
                      /\ disk'[k].status \in Done => disk'[k] = disk[k]
                      /\ disk'[k].status # "running"
    OBVIOUS
  <2>1. disk[k] \in Row /\ clock + 1 \in Nat /\ disk'[k] = RecoveredRow(disk[k], clock + 1)
    BY DEF TypeOK, Open
  <2> QED BY <2>1, RowEffects, RecoveredStatus
<1>2. /\ ~up /\ UNCHANGED <<route, task>>
      /\ \/ up' /\ mem' = disk' /\ events' = events \cup Completions(mem')
         \/ UNCHANGED <<up, mem, events>>
  BY DEF Open, taskVars, Reconciled
<1>3. \A k \in Jobs : /\ task[k] \in {"none", "ended"} /\ route[k] \in {"none", "lost"}
                      /\ mem[k].status = "absent"
  BY <1>2 DEF StoreInv, DownMem, Inv, DownInv
<1>4. \A e \in events : e.job \in Jobs /\ task[e.job] # "none" /\ Tells(e, disk'[e.job])
  BY <1>1 DEF TypeOK, Event, StoreInv, EventInv, Tells
<1>5. CASE UNCHANGED <<up, mem, events>>
  <2>1. DownMem' /\ NewOnDisk' /\ SavedInv' /\ UnreportedInv' /\ ReportInv'
    BY <1>2, <1>3, <1>5 DEF DownMem, NewOnDisk, SavedInv, UnreportedInv, ReportInv
  <2>2. EventInv'
    BY <1>2, <1>4, <1>5 DEF StoreInv, EventInv
  <2>3. Completions(mem') = Completions(mem)
    BY <1>5 DEF Completions
  <2> QED BY <1>5, <2>1, <2>2, <2>3 DEF StoreInv, OneCompletionEvent, NoLostCompletion
<1>6. CASE up' /\ mem' = disk' /\ events' = events \cup Completions(mem')
  <2>1. DownMem' /\ NewOnDisk' /\ SavedInv' /\ UnreportedInv' /\ ReportInv'
    BY <1>2, <1>3, <1>6 DEF DownMem, NewOnDisk, SavedInv, Kept, UnreportedInv, ReportInv
  <2>2. \A e \in Completions(mem') :
          /\ e.job \in Jobs /\ mem'[e.job].status \in Done
          /\ e.status = mem'[e.job].status /\ e.ended = mem'[e.job].ended
          /\ e = [job |-> e.job, status |-> mem'[e.job].status, ended |-> mem'[e.job].ended]
    BY DEF Completions, Done
  <2>3. EventInv'
    <3> SUFFICES ASSUME NEW e \in events'
                 PROVE  /\ task'[e.job] # "none" /\ route'[e.job] # "prepared"
                        /\ mem'[e.job].status # "running"
                        /\ Tells(e, mem'[e.job]) /\ Tells(e, disk'[e.job])
      BY DEF EventInv
    <3>1. e.job \in Jobs /\ Tells(e, mem'[e.job]) /\ task[e.job] # "none"
      <4>1. CASE e \in events
        BY <1>4, <1>6, <4>1
      <4>2. CASE e \in Completions(mem')
        <5>1. e.job \in Jobs /\ disk[e.job].status # "absent" /\ Tells(e, mem'[e.job])
          BY <1>1, <1>6, <2>2, <4>2 DEF Tells, Done
        <5> QED BY <5>1 DEF Inv, FreshInv
      <4> QED BY <1>6, <4>1, <4>2
    <3> QED BY <1>1, <1>2, <1>3, <1>6, <3>1
  <2>4. OneCompletionEvent'
    <3> SUFFICES ASSUME NEW e \in events', NEW f \in events', e.job = f.job PROVE e = f
      BY DEF OneCompletionEvent
    <3>1. \A a \in events, b \in Completions(mem') : a.job = b.job => a = b
      <4> SUFFICES ASSUME NEW a \in events, NEW b \in Completions(mem'), a.job = b.job
                   PROVE  a = b
        OBVIOUS
      <4>1. a.status = mem'[b.job].status /\ a.ended = mem'[b.job].ended
        BY <1>4, <1>6, <2>2 DEF Tells
      <4>2. a = [job |-> a.job, status |-> a.status, ended |-> a.ended]
        BY DEF TypeOK, Event
      <4> QED BY <2>2, <4>1, <4>2
    <3>2. \A a, b \in Completions(mem') : a.job = b.job => a = b
      BY <2>2
    <3> QED BY <1>6, <3>1, <3>2 DEF StoreInv, OneCompletionEvent
  <2>5. NoLostCompletion'
    BY <1>6 DEF NoLostCompletion
  <2> QED BY <2>1, <2>3, <2>4, <2>5 DEF StoreInv
<1> QED BY <1>2, <1>5, <1>6


(* Registration: what it evicts had ended, and the new job has no history.  *)
LEMMA RegisterStore ==
  ASSUME TypeOK, TypeOK', Inv, StoreInv, NEW j \in Jobs, Register(j)
  PROVE  StoreInv'
<1>1. PICK E \in Evictions(mem) :
        LET kept == [k \in Jobs |-> IF k \in E THEN Absent ELSE mem[k]]
            full == [kept EXCEPT ![j] = NewRow]
        IN \/ disk' = full /\ mem' = full /\ route' = [route EXCEPT ![j] = "registered"]
           \/ mem' = kept /\ route' = [route EXCEPT ![j] = "refused"] /\ UNCHANGED disk
  BY Zenon DEF Register, MemAfterFailedInsert
<1>2. /\ up /\ route[j] = "prepared" /\ task[j] = "waiting" /\ UNCHANGED <<up, task, events>>
      /\ mem[j].status = "absent" /\ disk[j].status = "absent"
  BY DEF Register, Inv, RouteInv, StoreInv, NewOnDisk
<1>3. \A e \in events : e.job \in Jobs \ {j}
  BY <1>2 DEF StoreInv, EventInv, TypeOK, Event
<1>4. /\ \A k \in Jobs \ {j} : mem'[k] = mem[k] \/ mem'[k].status = "absent"
      /\ mem'[j].status \in {"absent", "running"}
      /\ disk' = mem' \/ (disk' = disk /\ mem'[j].status = "absent")
      /\ \A k \in Jobs : route'[k] = "prepared" => route[k] = "prepared" /\ k # j
  <2>1. Absent.status = "absent" /\ NewRow.status = "running"
    BY DEF Absent, NewRow
  <2>2. CASE /\ mem' = [[k \in Jobs |-> IF k \in E THEN Absent ELSE mem[k]] EXCEPT ![j] = NewRow]
             /\ disk' = mem' /\ route' = [route EXCEPT ![j] = "registered"]
    BY <2>1, <2>2 DEF TypeOK
  <2>3. CASE /\ mem' = [k \in Jobs |-> IF k \in E THEN Absent ELSE mem[k]]
             /\ disk' = disk /\ route' = [route EXCEPT ![j] = "refused"]
    BY <1>2, <2>1, <2>3 DEF TypeOK
  <2> QED BY <1>1, <2>2, <2>3
<1>5. DownMem' /\ NewOnDisk' /\ SavedInv' /\ UnreportedInv'
  <2>1. NewOnDisk'
    BY <1>2, <1>4 DEF NewOnDisk, StoreInv, Inv, RouteInv
  <2>2. SavedInv'
    BY <1>2, <1>4 DEF SavedInv, StoreInv, Kept
  <2>3. UnreportedInv'
    BY <1>2, <1>4 DEF UnreportedInv, StoreInv
  <2> QED BY <1>2, <2>1, <2>2, <2>3 DEF DownMem
<1>6. ReportInv'
  BY <1>2, <1>4 DEF ReportInv, StoreInv, Annotatable
<1>7. EventInv'
  BY <1>2, <1>3, <1>4 DEF EventInv, StoreInv, Tells, Done
<1>8. Completions(mem') \subseteq Completions(mem)
  <2> SUFFICES ASSUME NEW k \in Jobs, mem'[k].status \in Done PROVE mem'[k] = mem[k]
    BY DEF Completions, Done
  <2> QED BY <1>4 DEF Done
<1> QED BY <1>2, <1>5, <1>6, <1>7, <1>8 DEF StoreInv, OneCompletionEvent, NoLostCompletion

(* A completion: the job had no outcome yet, and the one recorded is told.  *)
LEMMA FinishStore ==
  ASSUME TypeOK, TypeOK', Inv, StoreInv, NEW j \in Jobs, Finish(j)
  PROVE  StoreInv'
<1>1. /\ up /\ task[j] = "returned" /\ task' = [task EXCEPT ![j] = "reporting"]
      /\ UNCHANGED <<up, route>>
  BY DEF Finish
<1>2. CASE ~FinishGuard(j)
  <2>1. mem[j].status \in {"absent", "cancelled"}
    BY <1>1, <1>2 DEF FinishGuard, StoreInv, UnreportedInv
  <2>2. UNCHANGED <<mem, disk, events>>
    BY <1>2 DEF Finish, storeVars
  <2> QED BY <1>1, <2>1, <2>2, QuietStore DEF TypeOK, Annotatable, StoreInv, NewOnDisk
<1>3. CASE FinishGuard(j)
  <2> DEFINE done == [mem EXCEPT ![j] = FinishedRow(mem[j], outcome[j], clock + 1)]
             lost == [mem EXCEPT ![j] = UnsavedRow(done[j])]
  <2>0. mem[j] \in Row /\ clock + 1 \in Nat /\ outcome[j] \in Outcomes \cup {"none"}
    BY DEF TypeOK
  <2>a. done[j] = FinishedRow(mem[j], outcome[j], clock + 1) /\ lost[j] = UnsavedRow(done[j])
    BY DEF TypeOK
  <2>b. done[j] \in Row
    BY <2>0, <2>a, RowTypes
  <2>1. /\ done[j].status \in {"finished", "failed"}
        /\ lost[j].status = "failed" /\ lost[j].err = "persist"
        /\ \A k \in Jobs \ {j} : done[k] = mem[k] /\ lost[k] = mem[k]
    <3>1. done[j].status \in {"finished", "failed"}
      BY <2>0, <2>a, RowEffects
    <3>2. UnsavedRow(done[j]).status = "failed" /\ UnsavedRow(done[j]).err = "persist"
      BY <2>b, <2>0, RowEffects
    <3> QED BY <2>a, <3>1, <3>2 DEF TypeOK
  <2>2. /\ (mem' = done /\ disk' = done) \/ (mem' = lost /\ disk' = disk)
        /\ events' = events \cup CompletionOf(mem', j)
    BY <1>3 DEF Finish
  <2> HIDE DEF done, lost
  <2>3. /\ mem[j].status = "running" /\ mem'[j].status \in Done
        /\ \A k \in Jobs \ {j} : mem'[k] = mem[k]
        /\ disk' = mem' \/ (disk' = disk /\ mem'[j].err = "persist")
    BY <1>3, <2>1, <2>2 DEF FinishGuard, Done
  <2>4. DownMem' /\ NewOnDisk' /\ SavedInv' /\ EventInv' /\ OneCompletionEvent' /\ NoLostCompletion'
    BY <1>1, <2>2, <2>3, EndStore DEF TypeOK
  <2>5. UnreportedInv'
    BY <1>1, <2>3 DEF StoreInv, UnreportedInv, TypeOK
  <2>6. ReportInv'
    BY <1>1, <2>3 DEF StoreInv, ReportInv, Annotatable, TypeOK
  <2> QED BY <2>4, <2>5, <2>6 DEF StoreInv
<1> QED BY <1>2, <1>3

(* StoreInv is inductive: one step per action.                              *)
LEMMA StoreStep == TypeOK /\ TypeOK' /\ Inv /\ StoreInv /\ [Next]_vars => StoreInv'
<1> SUFFICES ASSUME TypeOK, TypeOK', Inv, StoreInv, [Next]_vars PROVE StoreInv'
  OBVIOUS
<1> DEFINE Q == /\ UNCHANGED <<up, mem, disk, events>>
                /\ \A k \in Jobs :
                     /\ route'[k] = "prepared" => route[k] = "prepared" \/ task[k] = "none"
                     /\ task'[k] = "none" => task[k] = "none"
                     /\ task'[k] \in {"waiting", "starting", "calling", "returned"} =>
                          \/ task[k] \in {"waiting", "starting", "calling", "returned"}
                          \/ task[k] = "none"
                     /\ task'[k] = "reporting" => task[k] = "reporting"
<1>0. ASSUME Q PROVE StoreInv'
  <2>1. \A k \in Jobs : task[k] = "none" => mem[k].status = "absent" /\ disk[k].status = "absent"
    BY DEF Inv, FreshInv
  <2> QED BY <1>0, <2>1, QuietStore DEF StoreInv, NewOnDisk
<1>1. CASE Open
  BY <1>1, OpenStore
<1>2. CASE Crash
  BY <1>2, DieStore DEF Crash
<1>3. CASE ChatStart \/ ChatEnd
  BY <1>0, <1>3 DEF ChatStart, ChatEnd, storeVars, taskVars
<1>4. ASSUME NEW j \in Jobs, PrepareJob(j) \/ SyncRun(j) PROVE StoreInv'
  <2>1. Q
    BY <1>4 DEF PrepareJob, SyncRun, Fresh, storeVars, TypeOK
  <2> QED BY <1>0, <2>1
<1>5. ASSUME NEW j \in Jobs, Register(j) PROVE StoreInv'
  BY <1>5, RegisterStore
<1>6. ASSUME NEW j \in Jobs, BindGoal(j) PROVE StoreInv'
  <2>1. CASE route' = [route EXCEPT ![j] = "refused"] /\ CancelStore(j)
    BY <1>6, <2>1, CancelStoreKeeps DEF BindGoal, TypeOK
  <2>2. CASE /\ route' = [route EXCEPT ![j] = "accepted"]
             /\ UNCHANGED <<clock, mem, disk, aborted, events>>
    <3>1. Q
      BY <1>6, <2>2 DEF BindGoal, TypeOK
    <3> QED BY <1>0, <3>1
  <2> QED BY <1>6, <2>1, <2>2 DEF BindGoal
<1>7. ASSUME NEW j \in Jobs, Cancel(j) PROVE StoreInv'
  BY <1>7, CancelStoreKeeps DEF Cancel
<1>8. ASSUME NEW j \in Jobs, CancelThenDie(j) \/ FinishThenDie(j) PROVE StoreInv'
  <2>1. mem[j].status = "running" /\ Die /\ UNCHANGED events
    BY <1>8 DEF CancelThenDie, FinishThenDie, FinishGuard
  <2>2. \A k \in Jobs \ {j} : disk'[k] = mem[k]
    BY <1>8 DEF CancelThenDie, FinishThenDie, CancelledMem, TypeOK
  <2>3. \A e \in events : e.job # j
    BY <2>1 DEF StoreInv, EventInv
  <2> QED BY <2>1, <2>2, <2>3, DieStore
<1>9. ASSUME NEW j \in Jobs, TaskReady(j) \/ Launch(j) \/ CallRefused(j) \/ CallReturns(j)
      PROVE StoreInv'
  <2>1. Q
    BY <1>9 DEF TaskReady, Launch, CallRefused, CallReturns, storeVars, TypeOK
  <2> QED BY <1>0, <2>1
<1>10. ASSUME NEW j \in Jobs, TaskDropped(j) \/ SyncEnd(j) \/ ChildReaped(j) PROVE StoreInv'
  <2>1. Q
    BY <1>10 DEF TaskDropped, SyncEnd, ChildReaped, storeVars, TypeOK
  <2> QED BY <1>0, <2>1
<1>11. ASSUME NEW j \in Jobs, Finish(j) PROVE StoreInv'
  BY <1>11, FinishStore
<1>12. ASSUME NEW j \in Jobs, Annotate(j) PROVE StoreInv'
  <2>1. \A k \in Jobs : /\ mem'[k].status = mem[k].status /\ mem'[k].ended = mem[k].ended
                        /\ Annotatable(mem'[k]) => mem'[k] = mem[k]
    BY <1>12 DEF Annotate, Annotatable, TypeOK, Row
  <2> QED BY <1>12, <2>1, SavedStore DEF Annotate, TypeOK
<1>13. CASE UNCHANGED vars
  BY <1>0, <1>13 DEF vars, storeVars, taskVars
<1> QED
  BY <1>1, <1>2, <1>3, <1>4, <1>5, <1>6, <1>7, <1>8, <1>9, <1>10, <1>11, <1>12, <1>13
  DEF Next, RouteStep, TaskStep

(* StoreInv holds in every reachable state.                                 *)
LEMMA StoreHolds == Spec => []StoreInv
<1>1. Init => StoreInv
  BY DEF Init, StoreInv, DownMem, NewOnDisk, SavedInv, UnreportedInv, ReportInv, EventInv,
         OneCompletionEvent, NoLostCompletion, Completions, Absent
<1>2. TypeOK /\ TypeOK' /\ Inv /\ StoreInv /\ [Next]_vars => StoreInv'
  BY StoreStep
<1> QED BY <1>1, <1>2, InvHolds, PTL DEF Spec


(* Every job that ran completes once: over all failed writes, crashes and   *)
(* recoveries no completion is lost and none is told in two versions, and a *)
(* refused start never ran.                                                 *)
THEOREM CompletionsAreKept == Spec => []CompletionsKept
<1>1. TypeOK /\ Inv /\ StoreInv => CompletionsKept
  BY DEF Inv, RouteInv, StoreInv, CompletionsKept, RefusedNeverRuns
<1> QED BY <1>1, InvHolds, StoreHolds, PTL

(* An outcome, in memory or on disk, is final until its row is evicted.     *)
LEMMA OutcomeStep ==
  ASSUME TypeOK, Inv, StoreInv, [Next]_vars, NEW k \in Jobs
  PROVE  /\ up /\ up' /\ mem[k].status \in Terminal => Kept(mem[k], mem'[k])
         /\ disk[k].status \in Done => Kept(disk[k], disk'[k])
<1> DEFINE P == /\ up /\ up' /\ mem[k].status \in Terminal => Kept(mem[k], mem'[k])
                /\ disk[k].status \in Done => Kept(disk[k], disk'[k])
<1> SUFFICES P
  OBVIOUS
<1>s. up /\ disk[k].status \in Done => Kept(disk[k], mem[k])
  BY DEF StoreInv, SavedInv
<1>a. ASSUME up, mem'[k] = mem[k] \/ mem[k].status \notin Terminal,
             disk'[k] = disk[k] \/ disk'[k] = mem[k] \/ mem[k].status = "running"
      PROVE  P
  <2>1. mem[k].status = "running" => disk[k].status = "running"
    BY DEF Inv, RunInv
  <2> QED BY <1>a, <1>s, <2>1 DEF Kept, Done
<1>1. CASE Open
  <2>1. disk[k] \in Row /\ clock + 1 \in Nat /\ disk'[k] = RecoveredRow(disk[k], clock + 1)
    BY <1>1 DEF TypeOK, Open
  <2>2. disk[k].status \in Done => disk'[k] = disk[k]
    BY <2>1, RowEffects
  <2> QED BY <1>1, <2>2 DEF Open, Kept
<1>2. CASE Crash
  BY <1>2 DEF Crash, Die, Kept
<1>3. CASE ChatStart \/ ChatEnd
  BY <1>3, <1>a DEF ChatStart, ChatEnd, storeVars
<1>4. ASSUME NEW j \in Jobs, PrepareJob(j) \/ SyncRun(j) PROVE P
  BY <1>4, <1>a DEF PrepareJob, SyncRun, storeVars
<1>5. ASSUME NEW j \in Jobs, Register(j) PROVE P
  <2>1. PICK E \in Evictions(mem) :
          LET kept == [i \in Jobs |-> IF i \in E THEN Absent ELSE mem[i]]
              full == [kept EXCEPT ![j] = NewRow]
          IN (disk' = full /\ mem' = full) \/ (mem' = kept /\ UNCHANGED disk)
    BY <1>5, Zenon DEF Register, MemAfterFailedInsert
  <2>2. mem[j].status = "absent" /\ disk[j].status = "absent" /\ up
    BY <1>5 DEF Register, Inv, RouteInv, StoreInv, NewOnDisk
  <2>3. \/ k = j
        \/ /\ mem'[k] = Absent \/ mem'[k] = mem[k]
           /\ disk'[k] = mem'[k] \/ disk'[k] = disk[k]
    BY <2>1 DEF TypeOK
  <2> QED BY <1>s, <2>2, <2>3 DEF Kept, Absent, Terminal, Done
<1>6. ASSUME NEW j \in Jobs, up, CancelStore(j) PROVE P
  <2>1. mem[j] \in Row /\ clock + 1 \in Nat
    BY DEF TypeOK
  <2>2. mem[j].status # "running" => CancelledRow(mem[j], clock + 1) = mem[j]
    BY <2>1, RowEffects
  <2>3. k # j \/ mem[k].status # "running" => mem'[k] = mem[k]
    BY <1>6, <2>2 DEF CancelStore, CancelledMem, TypeOK
  <2>4. disk'[k] = mem'[k] \/ disk'[k] = disk[k]
    BY <1>6 DEF CancelStore
  <2> QED BY <1>6, <1>a, <2>3, <2>4 DEF Terminal
<1>7. ASSUME NEW j \in Jobs, BindGoal(j) \/ Cancel(j) PROVE P
  <2>1. up /\ (CancelStore(j) \/ UNCHANGED <<mem, disk>>)
    BY <1>7 DEF BindGoal, Cancel
  <2> QED BY <1>6, <1>a, <2>1
<1>8. ASSUME NEW j \in Jobs, CancelThenDie(j) \/ FinishThenDie(j) PROVE P
  <2>1. up /\ mem[j].status = "running" /\ ~up'
    BY <1>8 DEF CancelThenDie, FinishThenDie, FinishGuard, Die
  <2>2. k = j \/ disk'[k] = mem[k]
    BY <1>8 DEF CancelThenDie, FinishThenDie, CancelledMem, TypeOK
  <2>3. disk[j].status = "running"
    BY <2>1 DEF Inv, RunInv
  <2> QED BY <1>s, <2>1, <2>2, <2>3 DEF Kept, Done
<1>9. ASSUME NEW j \in Jobs, \/ TaskReady(j) \/ Launch(j) \/ CallRefused(j) \/ CallReturns(j)
                             \/ TaskDropped(j) \/ SyncEnd(j)
      PROVE P
  BY <1>9, <1>a DEF TaskReady, Launch, CallRefused, CallReturns, TaskDropped, SyncEnd, storeVars
<1>10. ASSUME NEW j \in Jobs, ChildReaped(j) PROVE P
  BY <1>10 DEF ChildReaped, storeVars, Kept
<1>11. ASSUME NEW j \in Jobs, Finish(j) PROVE P
  <2>1. up /\ (FinishGuard(j) \/ UNCHANGED <<mem, disk>>)
    BY <1>11 DEF Finish, storeVars
  <2>2. CASE FinishGuard(j)
    <3>1. /\ k # j => mem'[k] = mem[k]
          /\ disk'[k] = mem'[k] \/ disk'[k] = disk[k]
      BY <1>11 DEF Finish, TypeOK, storeVars
    <3> QED BY <1>a, <2>1, <2>2, <3>1 DEF FinishGuard, Terminal
  <2> QED BY <1>a, <2>1, <2>2
<1>12. ASSUME NEW j \in Jobs, Annotate(j) PROVE P
  <2>1. /\ up /\ mem'[k].status = mem[k].status /\ mem'[k].ended = mem[k].ended
        /\ disk'[k] = mem[k] \/ disk'[k] = disk[k]
    BY <1>12 DEF Annotate, TypeOK, Row
  <2> QED BY <1>s, <2>1 DEF Kept
<1>13. CASE UNCHANGED vars
  BY <1>13 DEF vars, storeVars, Kept
<1> QED
  BY <1>1, <1>2, <1>3, <1>4, <1>5, <1>7, <1>8, <1>9, <1>10, <1>11, <1>12, <1>13
  DEF Next, RouteStep, TaskStep

(* A job that a task offers to memory suggestions has its outcome on disk.  *)
LEMMA SuggestStep ==
  ASSUME TypeOK, StoreInv, [Next]_vars,
         NEW k \in suggested' \ suggested, task[k] = "reporting"
  PROVE  /\ disk[k].status \in {"finished", "failed"}
         /\ disk[k].status = mem[k].status /\ disk[k].result
<1>1. UNCHANGED suggested \/ \E j \in Jobs : Annotate(j) \/ SyncEnd(j)
  BY DEF Next, Open, Crash, ChatStart, ChatEnd, PrepareJob, SyncRun, RouteStep, Register, BindGoal,
         TaskStep, TaskReady, Launch, CallRefused, CallReturns, TaskDropped, Finish, Cancel,
         CancelThenDie, FinishThenDie, ChildReaped, storeVars, vars
<1>2. PICK j \in Jobs : Annotate(j) \/ SyncEnd(j)
  BY <1>1
<1>3. k = j /\ task[j] = "reporting"
  BY <1>2 DEF Annotate, SyncEnd
<1>4. Annotatable(mem[k])
  BY <1>2, <1>3 DEF Annotate, SyncEnd
<1> QED BY <1>3, <1>4 DEF StoreInv, ReportInv, Annotatable

(* A recorded outcome stands, in one process and over any number of         *)
(* restarts, and only an outcome already on disk feeds memory suggestions.  *)
THEOREM OutcomesStand == Spec => OutcomeStands
<1>1. TypeOK /\ Inv /\ StoreInv /\ [Next]_vars =>
        [\A j \in Jobs :
           /\ up /\ up' /\ mem[j].status \in Terminal => Kept(mem[j], mem'[j])
           /\ disk[j].status \in {"finished", "failed", "cancelled"} => Kept(disk[j], disk'[j])]_vars
  BY OutcomeStep DEF Done
<1>2. TypeOK /\ Inv /\ StoreInv /\ [Next]_vars =>
        [\A j \in suggested' \ suggested : task[j] = "reporting" =>
           /\ disk[j].status \in {"finished", "failed"}
           /\ disk[j].status = mem[j].status /\ disk[j].result]_vars
  BY SuggestStep
<1>3. Spec => OutcomeIsFinal
  BY <1>1, InvHolds, StoreHolds, PTL DEF Spec, OutcomeIsFinal
<1>4. Spec => SuggestsOnlySaved
  BY <1>2, InvHolds, StoreHolds, PTL DEF Spec, SuggestsOnlySaved
<1> QED BY <1>3, <1>4 DEF OutcomeStands


-----------------------------------------------------------------------------
(* Retention                                                                *)

(* When no job is running, what remains after an eviction is below the      *)
(* bound, and every job missing from it is older than MaxRetained - 1 of    *)
(* the jobs that remain.                                                    *)
LEMMA EvictionKeeps ==
  ASSUME TypeOK, NEW E \in Evictions(mem), BornInv,
         Few(Retained(mem)), Followed(Retained(mem)),
         \A k \in Jobs : mem[k].status # "running"
  PROVE  /\ IsFiniteSet(Retained(mem) \ E)
         /\ Cardinality(Retained(mem) \ E) <= MaxRetained - 1
         /\ Followed(Retained(mem) \ E)
<1> DEFINE T == Retained(mem)
           R == T \ E
<1>1. TerminalJobs(mem) = T
  BY DEF TerminalJobs, Retained, TypeOK, Row, Statuses, Terminal
<1>2. /\ IsFiniteSet(T) /\ Cardinality(T) \in Nat /\ Cardinality(T) <= MaxRetained
      /\ T \subseteq Jobs /\ MaxRetained \in Nat /\ MaxRetained >= 1
  BY FS_CardinalityType, RetainedAssumption DEF Few, Retained
<1> SUFFICES IsFiniteSet(R) /\ Cardinality(R) <= MaxRetained - 1 /\ Followed(R)
  OBVIOUS
<1>0. Followed(T)
  OBVIOUS
<1>3. CASE Cardinality(T) < MaxRetained
  <2>1. E = {}
    BY <1>1, <1>3 DEF Evictions
  <2>2. R = T
    BY <2>1
  <2> HIDE DEF R, T
  <2>3. Cardinality(T) <= MaxRetained - 1
    BY <1>2, <1>3
  <2> QED BY <1>0, <1>2, <2>2, <2>3
<1>4. CASE ~(Cardinality(T) < MaxRetained)
  <2>1. /\ E \subseteq T /\ Cardinality(E) = Cardinality(T) + 1 - MaxRetained
        /\ \A e \in E, k \in R : born[e] <= born[k]
    BY <1>1, <1>4 DEF Evictions
  <2>2. IsFiniteSet(R) /\ Cardinality(R) = MaxRetained - 1 /\ Cardinality(R) >= MaxRetained - 1
    <3>1. T \cap E = E
      BY <2>1
    <3>2. IsFiniteSet(R) /\ Cardinality(R) = Cardinality(T) - Cardinality(E)
      BY <1>2, <3>1, FS_Difference
    <3> QED BY <1>2, <2>1, <3>2
  <2>3. ASSUME NEW j \in Jobs, born[j] > 0, j \notin R
        PROVE  Cardinality(Newer(R, j)) >= MaxRetained - 1
    <3>0. born \in [Jobs -> Nat]
      BY DEF TypeOK
    <3>1. CASE j \in E
      <4>1. \A k \in R : born[k] > born[j]
        <5> SUFFICES ASSUME NEW k \in R PROVE born[k] > born[j]
          OBVIOUS
        <5>1. k \in Jobs /\ k # j /\ born[j] <= born[k]
          BY <1>2, <2>1, <3>1
        <5>2. born[j] # born[k]
          BY <2>3, <5>1 DEF BornInv
        <5> QED BY <3>0, <5>1, <5>2
      <4>2. Newer(R, j) = R
        BY <4>1 DEF Newer
      <4> HIDE DEF R
      <4> QED BY <2>2, <4>2
    <3>2. CASE j \notin E
      <4>0. j \notin T
        BY <2>3, <3>2
      <4>1. Cardinality(Newer(T, j)) >= MaxRetained - 1
        BY <2>3, <4>0 DEF Followed
      <4>2. CASE Newer(T, j) \cap E = {}
        <5>1. Newer(R, j) = Newer(T, j)
          BY <4>2 DEF Newer
        <5> QED BY <4>1, <5>1
      <4>3. CASE Newer(T, j) \cap E # {}
        <5>1. PICK e \in E : e \in T /\ born[e] > born[j]
          BY <4>3 DEF Newer
        <5>2. \A k \in R : born[k] > born[j]
          BY <1>2, <2>1, <3>0, <5>1
        <5>3. Newer(R, j) = R
          BY <5>2 DEF Newer
        <5> HIDE DEF R
        <5> QED BY <2>2, <5>3
      <4> QED BY <4>2, <4>3
    <3> QED BY <3>1, <3>2
  <2> HIDE DEF R
  <2>4. Followed(R)
    BY <2>3 DEF Followed
  <2>5. Cardinality(R) <= MaxRetained - 1
    BY <1>2, <2>2
  <2> QED BY <2>2, <2>4, <2>5
<1> QED BY <1>3, <1>4

(* Registration, saved or not, keeps the retention invariant.               *)
LEMMA RegisterRetention ==
  ASSUME TypeOK, TypeOK', Inv, RetInv, NEW j \in Jobs, Register(j)
  PROVE  RetInv'
<1>1. PICK E \in Evictions(mem) :
        LET kept == [k \in Jobs |-> IF k \in E THEN Absent ELSE mem[k]]
            full == [kept EXCEPT ![j] = NewRow]
        IN \/ disk' = full /\ mem' = full /\ born' = [born EXCEPT ![j] = clock + 1]
           \/ mem' = kept /\ UNCHANGED <<disk, born>>
  BY Zenon DEF Register, MemAfterFailedInsert
<1>2. /\ up /\ task[j] = "waiting" /\ mem[j].status = "absent" /\ clock' = clock + 1
      /\ UNCHANGED up
  BY DEF Register, Inv, RouteInv
<1>3. \A k \in Jobs : mem[k].status # "running"
  BY <1>2 DEF Inv, RunInv, GateInv, Active
<1> DEFINE R == Retained(mem) \ E
<1>4. /\ IsFiniteSet(R) /\ Cardinality(R) <= MaxRetained - 1 /\ Followed(R)
      /\ Cardinality(R) \in Nat /\ MaxRetained \in Nat /\ MaxRetained >= 1
  BY <1>2, <1>3, EvictionKeeps, FS_CardinalityType, RetainedAssumption DEF RetInv
<1>5. R \subseteq Jobs \ {j}
  BY <1>2 DEF Retained
<1>6. born \in [Jobs -> Nat] /\ clock \in Nat
  BY DEF TypeOK
<1>7. CASE mem' = [k \in Jobs |-> IF k \in E THEN Absent ELSE mem[k]] /\ UNCHANGED <<disk, born>>
  <2>1. Retained(mem') = R
    BY <1>7 DEF Retained, Absent
  <2>2. Followed(R)' /\ Followed(Retained(disk))'
    BY <1>4, <1>7 DEF Followed, Newer, RetInv, Retained
  <2>3. BornInv'
    BY <1>2, <1>6, <1>7 DEF BornInv, RetInv
  <2>4. Few(Retained(mem)') /\ Few(Retained(disk)')
    <3>1. Retained(disk') = Retained(disk)
      BY <1>7 DEF Retained
    <3> HIDE DEF R
    <3>2. Cardinality(R) <= MaxRetained
      BY <1>4
    <3> QED BY <1>4, <2>1, <3>1, <3>2 DEF Few, RetInv
  <2>5. Followed(Retained(mem))'
    BY <1>4, <1>7, <2>1 DEF Followed, Newer
  <2> QED BY <2>2, <2>3, <2>4, <2>5 DEF RetInv, Few
<1>8. CASE /\ mem' = [[k \in Jobs |-> IF k \in E THEN Absent ELSE mem[k]] EXCEPT ![j] = NewRow]
           /\ disk' = mem' /\ born' = [born EXCEPT ![j] = clock + 1]
  <2> DEFINE F == R \cup {j}
  <2>1. Retained(mem') = F /\ Retained(disk') = F
    <3>1. Absent.status = "absent" /\ NewRow.status # "absent"
      BY DEF Absent, NewRow
    <3>2. /\ mem'[j] = NewRow
          /\ \A k \in Jobs \ {j} : mem'[k] = IF k \in E THEN Absent ELSE mem[k]
      BY <1>8
    <3> QED BY <1>8, <3>1, <3>2 DEF Retained
  <2>2. IsFiniteSet(F) /\ Cardinality(F) <= MaxRetained
    <3> HIDE DEF R
    <3>1. IsFiniteSet(F) /\ Cardinality(F) = Cardinality(R) + 1
      BY <1>4, <1>5, FS_AddElement
    <3> HIDE DEF F
    <3> QED BY <1>4, <3>1
  <2>3. BornInv'
    BY <1>2, <1>6, <1>8 DEF BornInv, RetInv
  <2>4. ASSUME NEW i \in Jobs, born'[i] > 0, i \notin F
        PROVE  Cardinality({k \in F : born'[k] > born'[i]}) >= MaxRetained - 1
    <3>1. i # j /\ born'[i] = born[i] /\ \A k \in R : born'[k] = born[k]
      BY <1>5, <1>6, <1>8, <2>4
    <3>2. Cardinality(Newer(R, i)) >= MaxRetained - 1
      BY <1>4, <2>4, <3>1 DEF Followed
    <3>3. Newer(R, i) \subseteq {k \in F : born'[k] > born'[i]}
      BY <3>1 DEF Newer
    <3>4. IsFiniteSet({k \in F : born'[k] > born'[i]})
      BY <2>2, FS_Subset
    <3>5. /\ Cardinality(Newer(R, i)) <= Cardinality({k \in F : born'[k] > born'[i]})
          /\ IsFiniteSet(Newer(R, i))
      BY <3>3, <3>4, FS_Subset
    <3>6. /\ Cardinality(Newer(R, i)) \in Nat
          /\ Cardinality({k \in F : born'[k] > born'[i]}) \in Nat
      BY <3>4, <3>5, FS_CardinalityType
    <3> QED BY <1>4, <3>2, <3>5, <3>6
  <2>5. Followed(Retained(mem))' /\ Followed(Retained(disk))'
    BY <2>1, <2>4 DEF Followed, Newer
  <2> QED BY <2>1, <2>2, <2>3, <2>5 DEF RetInv, Few
<1> QED BY <1>1, <1>7, <1>8

(* Every other step leaves the creation times alone; memory and file retain *)
(* what one of them retained before, or memory nothing at all.              *)
LEMMA KeepsRetained ==
  ASSUME TypeOK, TypeOK', Inv, [Next]_vars, \A j \in Jobs : ~Register(j)
  PROVE  /\ UNCHANGED born /\ clock' >= clock
         /\ \/ Retained(mem') = Retained(mem) /\ (up' => up)
            \/ Retained(mem') = {} /\ ~up'
            \/ Retained(mem') = Retained(disk')
         /\ Retained(disk') = Retained(disk) \/ (up /\ Retained(disk') = Retained(mem))
<1> DEFINE P == /\ UNCHANGED born /\ clock' >= clock
                /\ \/ Retained(mem') = Retained(mem) /\ (up' => up)
                   \/ Retained(mem') = {} /\ ~up'
                   \/ Retained(mem') = Retained(disk')
                /\ Retained(disk') = Retained(disk) \/ (up /\ Retained(disk') = Retained(mem))
<1> SUFFICES P
  OBVIOUS
<1>0. clock \in Nat
  BY DEF TypeOK
<1>q. ASSUME UNCHANGED <<up, clock, born, mem, disk>> PROVE P
  BY <1>0, <1>q DEF Retained
<1>d. ASSUME Die, UNCHANGED born, clock' >= clock,
             Retained(disk') = Retained(disk) \/ (up /\ Retained(disk') = Retained(mem))
      PROVE  P
  BY <1>d DEF Die, Retained, Absent
<1>c. ASSUME NEW j \in Jobs, mem[j].status = "running",
             NEW row, row.status # "absent"
      PROVE  Retained([mem EXCEPT ![j] = row]) = Retained(mem)
  BY <1>c DEF Retained, TypeOK
<1>1. CASE Open
  <2>1. Retained(disk') = Retained(disk)
    <3>1. \A k \in Jobs : disk'[k].status = "absent" <=> disk[k].status = "absent"
      BY <1>1, RowEffects DEF Open, TypeOK
    <3> QED BY <3>1 DEF Retained
  <2>2. mem' = disk' \/ UNCHANGED <<up, mem>>
    BY <1>1 DEF Open
  <2>3. Retained(mem') = Retained(disk') \/ (Retained(mem') = Retained(mem) /\ (up' => up))
    BY <2>2 DEF Retained
  <2> QED BY <1>0, <1>1, <2>1, <2>3 DEF Open
<1>2. CASE Crash
  <2>1. Retained(disk') = Retained(disk)
    BY <1>2 DEF Crash, Retained
  <2> QED BY <1>0, <1>2, <1>d, <2>1 DEF Crash
<1>3. CASE ChatStart \/ ChatEnd
  BY <1>3, <1>q DEF ChatStart, ChatEnd, storeVars
<1>4. ASSUME NEW j \in Jobs, PrepareJob(j) \/ SyncRun(j) PROVE P
  BY <1>4, <1>q DEF PrepareJob, SyncRun, storeVars
<1>5. ASSUME NEW j \in Jobs, up, UNCHANGED <<up, born>>, CancelStore(j) PROVE P
  <2>1. mem[j] \in Row /\ clock + 1 \in Nat
    BY DEF TypeOK
  <2>2. CancelledRow(mem[j], clock + 1).status = "absent" <=> mem[j].status = "absent"
    BY <2>1, RowEffects
  <2>3. /\ mem' = [mem EXCEPT ![j] = CancelledRow(mem[j], clock + 1)]
        /\ disk' = mem' \/ disk' = disk
        /\ clock' \in {clock, clock + 1}
    BY <1>5 DEF CancelStore, CancelledMem
  <2>4. Retained(mem') = Retained(mem)
    BY <2>2, <2>3 DEF Retained, TypeOK
  <2>5. Retained(disk') = Retained(mem) \/ Retained(disk') = Retained(disk)
    BY <2>3, <2>4 DEF Retained
  <2> QED BY <1>0, <1>5, <2>3, <2>4, <2>5
<1>6. ASSUME NEW j \in Jobs, BindGoal(j) \/ Cancel(j) PROVE P
  <2>1. up /\ UNCHANGED <<up, born>> /\ (CancelStore(j) \/ UNCHANGED <<clock, mem, disk>>)
    BY <1>6 DEF BindGoal, Cancel
  <2> QED BY <1>5, <1>q, <2>1
<1>7. ASSUME NEW j \in Jobs, CancelThenDie(j) PROVE P
  <2>1. mem[j] \in Row /\ clock + 1 \in Nat /\ mem[j].status = "running"
    BY <1>7 DEF TypeOK, CancelThenDie
  <2>2. CancelledRow(mem[j], clock + 1).status # "absent"
    BY <2>1, RowEffects
  <2>3. Retained(disk') = Retained(mem)
    BY <1>7, <1>c, <2>1, <2>2 DEF CancelThenDie, CancelledMem
  <2> QED BY <1>0, <1>7, <1>d, <2>3 DEF CancelThenDie
<1>8. ASSUME NEW j \in Jobs, FinishThenDie(j) PROVE P
  <2>1. mem[j] \in Row /\ clock + 1 \in Nat /\ mem[j].status = "running"
    BY <1>8 DEF TypeOK, FinishThenDie, FinishGuard
  <2>2. FinishedRow(mem[j], outcome[j], clock + 1).status # "absent"
    BY <2>1, RowEffects
  <2>3. Retained(disk') = Retained(mem)
    BY <1>8, <1>c, <2>1, <2>2 DEF FinishThenDie
  <2> QED BY <1>0, <1>8, <1>d, <2>3 DEF FinishThenDie
<1>9. ASSUME NEW j \in Jobs, \/ TaskReady(j) \/ Launch(j) \/ CallRefused(j) \/ CallReturns(j)
                             \/ TaskDropped(j) \/ SyncEnd(j) \/ ChildReaped(j)
      PROVE P
  BY <1>9, <1>q DEF TaskReady, Launch, CallRefused, CallReturns, TaskDropped, SyncEnd,
                    ChildReaped, storeVars
<1>10. ASSUME NEW j \in Jobs, Finish(j) PROVE P
  <2>1. CASE ~FinishGuard(j)
    BY <1>10, <1>q, <2>1 DEF Finish, storeVars
  <2>2. CASE FinishGuard(j)
    <3>1. /\ \A k \in Jobs \ {j} : mem'[k] = mem[k]
          /\ disk' = mem' \/ disk' = disk
          /\ up /\ UNCHANGED <<up, born>> /\ clock' = clock + 1
      BY <1>10, <2>2 DEF Finish, TypeOK
    <3>2. mem'[j].status # "absent"
      <4> DEFINE done == [mem EXCEPT ![j] = FinishedRow(mem[j], outcome[j], clock + 1)]
                 lost == [mem EXCEPT ![j] = UnsavedRow(done[j])]
      <4>1. mem' = done \/ mem' = lost
        BY <1>10, <2>2 DEF Finish
      <4>2. /\ mem[j] \in Row /\ clock + 1 \in Nat /\ outcome[j] \in Outcomes \cup {"none"}
            /\ done[j] = FinishedRow(mem[j], outcome[j], clock + 1) /\ lost[j] = UnsavedRow(done[j])
        BY DEF TypeOK
      <4>3. done[j] \in Row /\ done[j].status # "absent"
        <5>1. done[j] \in Row
          BY <4>2, RowTypes
        <5>2. done[j].status \in {"finished", "failed"}
          BY <4>2, RowEffects
        <5> QED BY <5>1, <5>2
      <4>4. lost[j].status # "absent"
        BY <4>2, <4>3, RowEffects
      <4> HIDE DEF done, lost
      <4> QED BY <4>1, <4>3, <4>4
    <3>3. Retained(mem') = Retained(mem)
      BY <2>2, <3>1, <3>2 DEF Retained, FinishGuard
    <3>4. Retained(disk') = Retained(mem) \/ Retained(disk') = Retained(disk)
      BY <3>1, <3>3 DEF Retained
    <3> QED BY <1>0, <3>1, <3>3, <3>4
  <2> QED BY <2>1, <2>2
<1>11. ASSUME NEW j \in Jobs, Annotate(j) PROVE P
  <2>1. /\ \A k \in Jobs : mem'[k].status = mem[k].status
        /\ disk' = mem \/ disk' = disk
        /\ up /\ UNCHANGED <<up, clock, born>>
    BY <1>11 DEF Annotate, TypeOK, Row
  <2>2. Retained(mem') = Retained(mem)
    BY <2>1 DEF Retained
  <2>3. Retained(disk') = Retained(mem) \/ Retained(disk') = Retained(disk)
    BY <2>1 DEF Retained
  <2> QED BY <1>0, <2>1, <2>2, <2>3
<1>12. CASE UNCHANGED vars
  BY <1>12, <1>q DEF vars, storeVars
<1> QED
  BY <1>1, <1>2, <1>3, <1>4, <1>6, <1>7, <1>8, <1>9, <1>10, <1>11, <1>12
  DEF Next, RouteStep, TaskStep

(* RetInv is inductive.                                                     *)
LEMMA RetentionStep == TypeOK /\ TypeOK' /\ Inv /\ RetInv /\ [Next]_vars => RetInv'
<1> SUFFICES ASSUME TypeOK, TypeOK', Inv, RetInv, [Next]_vars PROVE RetInv'
  OBVIOUS
<1>1. CASE \E j \in Jobs : Register(j)
  BY <1>1, RegisterRetention
<1>2. CASE \A j \in Jobs : ~Register(j)
  <2> DEFINE RM == Retained(mem)
             RD == Retained(disk)
  <2>1. /\ UNCHANGED born /\ clock' >= clock
        /\ \/ RM' = RM /\ (up' => up)
           \/ RM' = {} /\ ~up'
           \/ RM' = RD'
        /\ RD' = RD \/ (up /\ RD' = RM)
    BY <1>2, KeepsRetained DEF Retained
  <2>2. BornInv'
    BY <2>1 DEF BornInv, RetInv, TypeOK
  <2>3. IsFiniteSet({}) /\ Cardinality({}) <= MaxRetained
    BY FS_EmptySet, RetainedAssumption
  <2>4. ASSUME NEW R, Followed(R) PROVE Followed(R)'
    BY <2>1, <2>4 DEF Followed, Newer
  <2>5. /\ IsFiniteSet(RM) /\ Cardinality(RM) <= MaxRetained
        /\ IsFiniteSet(RD) /\ Cardinality(RD) <= MaxRetained
        /\ Followed(RD) /\ (up => Followed(RM))
    BY DEF RetInv, Few
  <2>6. Followed(RD')
    BY <2>1, <2>5
  <2>7. up' => Followed(RM')
    BY <2>1, <2>5, <2>6
  <2>8. Followed(RD)' /\ (up' => Followed(RM)')
    BY <2>1, <2>6, <2>7 DEF Followed, Newer
  <2>9. Few(RM)' /\ Few(RD)'
    BY <2>1, <2>3, <2>5 DEF Few
  <2> QED BY <2>2, <2>8, <2>9 DEF RetInv
<1> QED BY <1>1, <1>2

(* RetInv holds in every reachable state.                                   *)
LEMMA RetentionHolds == Spec => []RetInv
<1>1. Init => RetInv
  <2> SUFFICES ASSUME Init PROVE RetInv
    OBVIOUS
  <2>1. Retained(mem) = {} /\ Retained(disk) = {}
    BY DEF Init, Retained, Absent
  <2>2. Few({})
    BY FS_EmptySet, RetainedAssumption DEF Few
  <2>3. BornInv /\ Followed({})
    BY DEF Init, BornInv, Followed
  <2> QED BY <2>1, <2>2, <2>3 DEF RetInv, Init
<1>2. TypeOK /\ TypeOK' /\ Inv /\ RetInv /\ [Next]_vars => RetInv'
  BY RetentionStep
<1> QED BY <1>1, <1>2, InvHolds, PTL DEF Spec

(* The job records are sound for any number of jobs: rows typed, running    *)
(* work on disk first, the file always within the bound the next start      *)
(* accepts, and no evidence dropped but for newer work.                     *)
THEOREM RecordsAreSound == Spec => []RecordsHold
<1>1. TypeOK /\ Inv /\ RetInv => RetentionBounded
  <2> SUFFICES ASSUME TypeOK, Inv, RetInv PROVE RetentionBounded
    OBVIOUS
  <2>1. TerminalJobs(mem) \subseteq Retained(mem)
    BY DEF TerminalJobs, Retained, Terminal
  <2>2. /\ IsFiniteSet(Retained(mem)) /\ Cardinality(Retained(mem)) <= MaxRetained
        /\ IsFiniteSet(Retained(disk)) /\ Cardinality(Retained(disk)) <= MaxRetained
    BY DEF RetInv, Few
  <2>3. IsFiniteSet(TerminalJobs(mem)) /\ Cardinality(TerminalJobs(mem)) <= Cardinality(Retained(mem))
    BY <2>1, <2>2, FS_Subset
  <2>4. /\ Cardinality(TerminalJobs(mem)) \in Nat /\ Cardinality(Retained(mem)) \in Nat
        /\ Cardinality(Retained(disk)) \in Nat /\ MaxRetained \in Nat
    BY <2>2, <2>3, FS_CardinalityType, RetainedAssumption
  <2>5. \A j, k \in Jobs : mem[j].status = "running" /\ mem[k].status = "running" => j = k
    BY DEF Inv, RunInv, GateInv, Active
  <2> QED BY <2>2, <2>3, <2>4, <2>5 DEF RetentionBounded
<1>2. TypeOK /\ RetInv => EvidenceKept
  <2> SUFFICES ASSUME TypeOK, RetInv, up, NEW j \in Jobs, born[j] > 0, mem[j].status = "absent"
               PROVE  Cardinality({k \in Retained(mem) : born[k] > born[j]}) >= MaxRetained - 1
    BY DEF EvidenceKept
  <2>1. j \notin Retained(mem)
    BY DEF Retained
  <2> QED BY <2>1 DEF RetInv, Followed, Newer
<1>3. TypeOK /\ Inv => RunningIsDurable
  BY DEF Inv, RunInv, RunningIsDurable
<1> QED BY <1>1, <1>2, <1>3, InvHolds, RetentionHolds, PTL DEF RecordsHold

=============================================================================
