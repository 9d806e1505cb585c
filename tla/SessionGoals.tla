----------------------------- MODULE SessionGoals -----------------------------
(***************************************************************************)
(* Session files, the summary cache the list route reads them through          *)
(* (server/sessions.rs), and the coding goal a session stages for an agent      *)
(* job (routes/goals.rs, the claim in routes/agent.rs).  Writers hold the        *)
(* store's lock; a list takes only the cache's lock, after it has read the        *)
(* directory, so it runs between a writer's rename and its invalidation.           *)
(***************************************************************************)
EXTENDS Naturals, FiniteSets

CONSTANTS
    StoredIds, SessionOwners,
    SessionAdmins,   \* owners whose account is an administrator's
    GoalTexts,       \* goals an owner may set; NoGoal is the empty one
    Stamps,          \* (mtime, len) stamps: a write may leave the stamp as it was
    MaxStages, MaxSubmits, MaxSaves   \* bounds: stages made, jobs submitted, saves

NoGoal == ""

ASSUME StoredAssumption ==
    /\ {MaxStages, MaxSubmits, MaxSaves} \subseteq Nat /\ Stamps # {} /\ NoGoal \in GoalTexts /\ "none" \notin SessionOwners
    /\ SessionAdmins \subseteq SessionOwners /\ "absent" \notin SessionOwners
    /\ "none" \notin StoredIds /\ "none" \notin Stamps

VARIABLES
    sessionFile,     \* per id: the session file, or NoSession
    stamp,           \* per id: the file's stamp
    summary,         \* the summaries cache: per id, the stamp and the row, or NoRow
    invalidating,    \* the file a writer has renamed into place and not yet invalidated
    lister,          \* a list call: the stamps it scanned and what had been saved before
    listing,         \* the rows of the last list, cleared by the next step
    staging,         \* a stage request between its read and its write
    submits,         \* per job id: the request and its job
    launched,        \* history: jobs let go by registered.send, with their stage
    saves, stages    \* counters

sessionVars == <<sessionFile, stamp, summary, invalidating, lister, listing, staging, submits, launched, saves, stages>>

NoStored == [owner |-> "absent", rev |-> 0, goal |-> NoGoal, stage |-> 0, stageGoal |-> NoGoal, job |-> 0]
NoRow == [stamp |-> "none", rev |-> 0, owner |-> "none"]
NoLister == [at |-> "idle", stamps |-> [s \in {} |-> "none"], saved |-> [s \in {} |-> 0]]
NoStaging == [at |-> "idle", session |-> "none", goal |-> NoGoal, stage |-> 0, job |-> 0]
NoSubmit == [at |-> "free", session |-> "none", stage |-> 0, goal |-> NoGoal, recurring |-> FALSE]
JobIds == 1 .. MaxSubmits
Present(s) == sessionFile[s].owner # "absent"
(* OwnedSessionStore::get: another owner's session, or legacy data, is unknown.      *)
Owned(s, o) == sessionFile[s].owner = o
Listing(rows) == listing' = rows
Quiet == listing' = {}

(* --------------------------------- writing --------------------------------- *)
(* write: an atomic replacement of the file, under the store's lock ...               *)
Write(s, rec) ==
    /\ invalidating = "none" /\ saves < MaxSaves /\ saves' = saves + 1
    /\ \E new \in Stamps : stamp' = [stamp EXCEPT ![s] = new]
    /\ sessionFile' = [sessionFile EXCEPT ![s] = [rec EXCEPT !.rev = saves + 1]] /\ invalidating' = s
(* ... and then its summary row is removed.                                            *)
Invalidate ==
    /\ invalidating # "none" /\ summary' = [summary EXCEPT ![invalidating] = NoRow] /\ invalidating' = "none" /\ Quiet
    /\ UNCHANGED <<sessionFile, stamp, lister, staging, submits, launched, saves, stages>>

StoreSession(s, o) ==
    /\ ~Present(s) /\ stamp[s] = "none"            \* a random id is never used again
    /\ Write(s, [NoStored EXCEPT !.owner = o]) /\ Quiet
    /\ UNCHANGED <<summary, lister, staging, submits, launched, stages>>
(* rename, select_skills, set_style, select_facts, record_prompt: one field of a file    *)
(* the owner still has.                                                                 *)
EditStored(s, o) ==
    /\ Owned(s, o) /\ Write(s, sessionFile[s]) /\ Quiet
    /\ UNCHANGED <<summary, lister, staging, submits, launched, stages>>
(* set_goal keeps the stage of the earlier goal, which is then stale.                     *)
SetSessionGoal(s, o, g) ==
    /\ Owned(s, o) /\ g # sessionFile[s].goal /\ Write(s, [sessionFile[s] EXCEPT !.goal = g]) /\ Quiet
    /\ UNCHANGED <<summary, lister, staging, submits, launched, stages>>
(* adopt_legacy: unassigned data gets an owner and loses its staged approval.             *)
MayAdopt(o) == o \in SessionAdmins
AdoptLegacy(s, o) ==
    /\ MayAdopt(o) /\ Owned(s, "none") /\ Write(s, [sessionFile[s] EXCEPT !.owner = o, !.stage = 0, !.stageGoal = NoGoal, !.job = 0]) /\ Quiet
    /\ UNCHANGED <<summary, lister, staging, submits, launched, stages>>
(* clear: the owner's files one by one; an error leaves the rest.                         *)
ClearSessions(o) ==
    /\ invalidating = "none"
    /\ \E gone \in SUBSET {s \in StoredIds : Owned(s, o)} :
         /\ gone # {}
         /\ sessionFile' = [s \in StoredIds |-> IF s \in gone THEN NoStored ELSE sessionFile[s]]
    /\ Quiet /\ UNCHANGED <<stamp, summary, invalidating, lister, staging, submits, launched, saves, stages>>

(* --------------------------------- listing ---------------------------------- *)
(* list_all reads the directory and each file's stamp before it takes the cache ...       *)
ListScan ==
    /\ lister.at = "idle" /\ Quiet
    /\ LET seen == {s \in StoredIds : Present(s)}
       IN lister' = [at |-> "read", stamps |-> [s \in seen |-> stamp[s]],
                     saved |-> [s \in StoredIds |-> IF s = invalidating THEN 0 ELSE sessionFile[s].rev]]
    /\ UNCHANGED <<sessionFile, stamp, summary, invalidating, staging, submits, launched, saves, stages>>
(* ... then answers from rows whose stamp still matches, reads the others and drops the     *)
(* rows of files that are gone.                                                           *)
Cacheable(s) == summary[s].stamp = lister.stamps[s]
RowOf(s) == IF Cacheable(s) THEN summary[s] ELSE [stamp |-> lister.stamps[s], rev |-> sessionFile[s].rev, owner |-> sessionFile[s].owner]
ListRead ==
    /\ lister.at = "read"
    /\ LET seen == {s \in DOMAIN lister.stamps : Cacheable(s) \/ Present(s)}
       IN /\ summary' = [s \in StoredIds |-> IF s \in seen THEN RowOf(s) ELSE NoRow]
          /\ Listing({[session |-> s, rev |-> RowOf(s).rev, owner |-> RowOf(s).owner, atLeast |-> lister.saved[s]] : s \in seen})
    /\ lister' = NoLister
    /\ UNCHANGED <<sessionFile, stamp, invalidating, staging, submits, launched, saves, stages>>

(* --------------------------------- staging ---------------------------------- *)
JobRunning(j) == j # 0 /\ submits[j].at \in {"claim", "launch", "run"}
(* stage: reads the session, and refuses without a goal or while the stage's job runs.       *)
StageRead(s, o) ==
    /\ staging.at = "idle" /\ Owned(s, o) /\ sessionFile[s].goal # NoGoal /\ ~JobRunning(sessionFile[s].job) /\ stages < MaxStages
    /\ staging' = [at |-> "write", session |-> s, goal |-> sessionFile[s].goal, stage |-> sessionFile[s].stage, job |-> sessionFile[s].job]
    /\ Quiet /\ UNCHANGED <<sessionFile, stamp, summary, invalidating, lister, submits, launched, saves, stages>>
(* stage_goal writes only over the goal and the stage the request read.                       *)
UnchangedSince(s) == sessionFile[s].goal = staging.goal /\ sessionFile[s].stage = staging.stage /\ sessionFile[s].job = staging.job
StageGoal ==
    /\ staging.at = "write" /\ staging' = NoStaging /\ invalidating = "none" /\ Quiet
    /\ LET s == staging.session IN
       IF Present(s) /\ UnchangedSince(s)
       THEN /\ Write(s, [sessionFile[s] EXCEPT !.stage = stages + 1, !.stageGoal = staging.goal, !.job = 0])
            /\ stages' = stages + 1
       ELSE UNCHANGED <<sessionFile, stamp, invalidating, saves, stages>>
    /\ UNCHANGED <<summary, lister, submits, launched>>

(* -------------------------------- submitting -------------------------------- *)
(* check_goal_binding: this stage, made for the present goal, which is the instruction;        *)
(* only a schedule may find it claimed.                                                       *)
MutBinding(s, stage, goal, claimed) ==
    /\ sessionFile[s].stage = stage /\ stage # 0 /\ sessionFile[s].stageGoal = sessionFile[s].goal /\ sessionFile[s].goal = goal
Binding(s, stage, goal, claimed) ==
    /\ sessionFile[s].stage = stage /\ stage # 0 /\ sessionFile[s].stageGoal = sessionFile[s].goal /\ sessionFile[s].goal = goal
    /\ claimed \/ sessionFile[s].job = 0
(* validate_binding: a confirmed request or a due schedule, checked without the lock.            *)
ValidateBinding(j, s, o, recurring) ==
    /\ submits[j].at = "free" /\ \A k \in JobIds : k < j => submits[k].at # "free"
    /\ Owned(s, o) /\ Binding(s, sessionFile[s].stage, sessionFile[s].goal, recurring)
    /\ submits' = [submits EXCEPT ![j] = [at |-> "register", session |-> s, stage |-> sessionFile[s].stage, goal |-> sessionFile[s].goal, recurring |-> recurring]]
    /\ Quiet /\ UNCHANGED <<sessionFile, stamp, summary, invalidating, lister, staging, launched, saves, stages>>
(* try_insert_running: the job is durable, its worker waits for `registered`.                    *)
RegisterJob(j) ==
    /\ submits[j].at = "register"
    /\ \E ok \in BOOLEAN : submits' = [submits EXCEPT ![j].at = IF ok THEN "claim" ELSE "refused"]
    /\ Quiet /\ UNCHANGED <<sessionFile, stamp, summary, invalidating, lister, staging, launched, saves, stages>>
(* claim_goal_stage or rebind_goal_stage: checked again under the lock; a stage that changed,     *)
(* was claimed or cannot be written cancels the job.                                             *)
ClaimStage(j) ==
    LET s == submits[j].session
        ok == Present(s) /\ Binding(s, submits[j].stage, submits[j].goal, submits[j].recurring) IN
    /\ submits[j].at = "claim" /\ invalidating = "none" /\ Quiet
    /\ \/ /\ ok /\ Write(s, [sessionFile[s] EXCEPT !.job = j]) /\ submits' = [submits EXCEPT ![j].at = "launch"]
       \/ /\ submits' = [submits EXCEPT ![j].at = "refused"]
          /\ UNCHANGED <<sessionFile, stamp, invalidating, saves>>
    /\ UNCHANGED <<summary, lister, staging, launched, stages>>
LaunchJob(j) ==
    /\ submits[j].at = "launch" /\ invalidating = "none" /\ submits' = [submits EXCEPT ![j].at = "run"]
    /\ launched' = launched \cup {[job |-> j, stage |-> submits[j].stage, recurring |-> submits[j].recurring]}
    /\ Quiet /\ UNCHANGED <<sessionFile, stamp, summary, invalidating, lister, staging, saves, stages>>
JobEnds(j) ==
    /\ submits[j].at = "run" /\ submits' = [submits EXCEPT ![j].at = "ended"]
    /\ Quiet /\ UNCHANGED <<sessionFile, stamp, summary, invalidating, lister, staging, launched, saves, stages>>

SessionInit ==
    /\ \E legacy \in SUBSET StoredIds :
         /\ Cardinality(legacy) <= 1
         /\ sessionFile = [s \in StoredIds |-> IF s \in legacy THEN [NoStored EXCEPT !.owner = "none"] ELSE NoStored]
         /\ stamp \in {[s \in StoredIds |-> IF s \in legacy THEN x ELSE "none"] : x \in Stamps}
    /\ summary = [s \in StoredIds |-> NoRow] /\ invalidating = "none" /\ lister = NoLister /\ listing = {}
    /\ staging = NoStaging /\ submits = [j \in JobIds |-> NoSubmit] /\ launched = {} /\ saves = 0 /\ stages = 0
SessionNext ==
    \/ Invalidate \/ ListScan \/ ListRead \/ StageGoal
    \/ \E o \in SessionOwners : ClearSessions(o)
    \/ \E s \in StoredIds, o \in SessionOwners : StoreSession(s, o) \/ EditStored(s, o) \/ AdoptLegacy(s, o) \/ StageRead(s, o)
    \/ \E s \in StoredIds, o \in SessionOwners, g \in GoalTexts : SetSessionGoal(s, o, g)
    \/ \E j \in JobIds : RegisterJob(j) \/ ClaimStage(j) \/ LaunchJob(j) \/ JobEnds(j)
    \/ \E j \in JobIds, s \in StoredIds, o \in SessionOwners, r \in BOOLEAN : ValidateBinding(j, s, o, r)
SessionSpec == SessionInit /\ [][SessionNext]_sessionVars

(* ------------------------------- properties ------------------------------- *)
(* Types of the files and of the requests.                                         *)
SessionTypeOK ==
    /\ \A s \in StoredIds : sessionFile[s].owner \in SessionOwners \cup {"none", "absent"} /\ sessionFile[s].job \in JobIds \cup {0}
    /\ \A j \in JobIds : submits[j].at \in {"free", "register", "claim", "launch", "run", "ended", "refused"}
    /\ invalidating \in StoredIds \cup {"none"}

(* SessionStore::write and list_all: a list that begins after a write has returned shows     *)
(* that write or a later one, although the cache compares only (mtime, len) stamps that a     *)
(* quick second write may leave unchanged.                                                   *)
ListIsCurrent == \A row \in listing : row.rev >= row.atLeast
(* claim_goal_stage: however requests and schedules for the same staged goal interleave        *)
(* between validation and claim, one confirmed request per stage ever starts a worker.          *)
OneJobPerStage ==
    \A a, b \in launched : a.stage = b.stage /\ ~a.recurring /\ ~b.recurring => a.job = b.job
(* stage_goal: a stage whose job is running is never replaced by staging again, although the     *)
(* route looks at the job before it takes the store's lock.                                     *)
RunningStageKept ==
    [][\A s \in StoredIds :
         JobRunning(sessionFile[s].job) /\ Present(s) /\ sessionFile'[s].owner # "absent" => sessionFile'[s].stage = sessionFile[s].stage]_sessionVars
==============================================================================
