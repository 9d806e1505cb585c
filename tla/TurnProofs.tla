----------------------------- MODULE TurnProofs -----------------------------
(*****************************************************************************)
(* What serves one console turn (MCTurn), proved for every value of the      *)
(* constants: staged goals and their jobs, web research, reads of the web,   *)
(* the web turn's budget, search providers, calls to models, excerpts, the   *)
(* chat turn's spend and store, the window a turn is sized for, pins and the *)
(* parts of the prompt.  Each part has an inductive invariant and its proof; *)
(* the last section carries them to the turn as a whole.                     *)
(*****************************************************************************)
EXTENDS MCTurn, TLAPS, SequenceTheorems, FiniteSetTheorems, WellFoundedInduction

-----------------------------------------------------------------------------
(* Session files, their list and their staged goals.                        *)

StoredFiles == [owner : SessionOwners \cup {"none", "absent"}, rev : Nat, goal : GoalTexts, stage : Nat,
                stageGoal : GoalTexts, job : JobIds \cup {0}]
SummaryRows == [stamp : Stamps \cup {"none"}, rev : Nat, owner : SessionOwners \cup {"none", "absent"}]
Submits == [at : {"free", "register", "claim", "launch", "run", "ended", "refused"}, session : StoredIds \cup {"none"},
            stage : Nat, goal : GoalTexts, recurring : BOOLEAN]
Stagings == [at : {"idle", "write"}, session : StoredIds \cup {"none"}, goal : GoalTexts, stage : Nat, job : JobIds \cup {0}]

SessionShape ==
  /\ sessionFile \in [StoredIds -> StoredFiles] /\ stamp \in [StoredIds -> Stamps \cup {"none"}]
  /\ summary \in [StoredIds -> SummaryRows] /\ invalidating \in StoredIds \cup {"none"}
  /\ staging \in Stagings /\ (staging.at = "write" => staging.session \in StoredIds)
  /\ submits \in [JobIds -> Submits]
  /\ \A j \in JobIds : submits[j].at # "free" => submits[j].session \in StoredIds
  /\ saves \in Nat /\ stages \in Nat

(* The revisions: a file that is there has a stamp, and a summary row of a  *)
(* file that no writer is about to invalidate shows the file's revision.    *)
RowsAreCurrent ==
  /\ \A s \in StoredIds : sessionFile[s].rev <= saves
  /\ \A s \in StoredIds : Present(s) => stamp[s] # "none"
  /\ \A s \in StoredIds :
       s # invalidating /\ Present(s) /\ summary[s].stamp # "none" => summary[s].rev = sessionFile[s].rev

(* A list in progress: what it will show of a file it scanned, from the     *)
(* cache or from the file, is no older than the scan.                       *)
ListerInv ==
  /\ lister.at \in {"idle", "read"}
  /\ lister.at = "read" =>
       /\ DOMAIN lister.stamps \subseteq StoredIds
       /\ \A s \in DOMAIN lister.stamps :
            /\ lister.stamps[s] \in Stamps /\ lister.saved[s] \in Nat /\ lister.saved[s] <= saves
            /\ Present(s) => lister.saved[s] <= sessionFile[s].rev
            /\ summary[s].stamp # "none" => lister.saved[s] <= summary[s].rev

(* Stages: a number is given to one session once, and a stage a confirmed   *)
(* request has claimed is marked with a job and is claimed by no other.     *)
Claims(j) == submits[j].at \in {"launch", "run", "ended"}
StagesInv ==
  /\ \A s \in StoredIds : sessionFile[s].stage <= stages
  /\ \A s, t \in StoredIds : sessionFile[s].stage = sessionFile[t].stage /\ sessionFile[s].stage # 0 => s = t
  /\ \A j \in JobIds : submits[j].stage <= stages
  /\ \A j \in JobIds : Claims(j) =>
       submits[j].stage # 0 /\ \A s \in StoredIds : sessionFile[s].stage = submits[j].stage => sessionFile[s].job # 0
  /\ \A j, k \in JobIds :
       Claims(j) /\ Claims(k) /\ ~submits[j].recurring /\ ~submits[k].recurring /\ submits[j].stage = submits[k].stage => j = k
LaunchesInv ==
  \A l \in launched :
    /\ l.job \in JobIds /\ submits[l.job].at \in {"run", "ended"}
    /\ l.stage = submits[l.job].stage /\ l.recurring = submits[l.job].recurring

(* A job a session names has claimed its stage, and one that a stage        *)
(* request found at rest stays at rest.                                     *)
JobsInv ==
  /\ \A s \in StoredIds : sessionFile[s].job # 0 => Claims(sessionFile[s].job)
  /\ staging.at = "write" /\ staging.job # 0 => submits[staging.job].at = "ended"
  /\ \A s \in StoredIds : sessionFile[s].owner \in {"none", "absent"} => sessionFile[s].job = 0 /\ sessionFile[s].stage = 0
  /\ staging.at = "write" => sessionFile[staging.session].owner # "none"

GoalsInv ==
  SessionShape /\ RowsAreCurrent /\ ListerInv /\ ListIsCurrent /\ StagesInv /\ LaunchesInv /\ JobsInv

LEMMA JobIdsNat == JobIds \subseteq Nat /\ 0 \notin JobIds
  BY StoredAssumption DEF JobIds

LEMMA GoalsStart == SessionInit => GoalsInv
<1> SUFFICES ASSUME SessionInit PROVE GoalsInv OBVIOUS
<1>1. NoStored \in StoredFiles /\ [NoStored EXCEPT !.owner = "none"] \in StoredFiles /\ NoRow \in SummaryRows
      /\ NoSubmit \in Submits /\ NoStaging \in Stagings
  BY StoredAssumption DEF NoStored, StoredFiles, NoRow, SummaryRows, NoSubmit, Submits, NoStaging, Stagings
<1>2. PICK legacy \in SUBSET StoredIds, x \in Stamps :
        /\ sessionFile = [s \in StoredIds |-> IF s \in legacy THEN [NoStored EXCEPT !.owner = "none"] ELSE NoStored]
        /\ stamp = [s \in StoredIds |-> IF s \in legacy THEN x ELSE "none"]
  BY DEF SessionInit
<1>3. SessionShape
  BY <1>1, <1>2 DEF SessionInit, SessionShape, NoStaging, NoSubmit
<1>4. RowsAreCurrent
  BY <1>2, StoredAssumption DEF RowsAreCurrent, SessionInit, NoStored, NoRow, Present
<1>5. ListerInv /\ ListIsCurrent
  BY DEF ListerInv, ListIsCurrent, SessionInit, NoLister
<1>6. StagesInv /\ LaunchesInv /\ JobsInv
  BY <1>2 DEF StagesInv, LaunchesInv, JobsInv, SessionInit, NoStored, NoSubmit, NoStaging, Claims
<1> QED BY <1>3, <1>4, <1>5, <1>6 DEF GoalsInv

(* One file of one present session is written: what the write must keep.    *)
LEMMA WriteKeeps ==
  ASSUME GoalsInv, NEW s \in StoredIds, NEW rec \in StoredFiles, Write(s, rec), UNCHANGED <<summary, lister>>,
         rec.owner # "absent"
  PROVE  /\ sessionFile' \in [StoredIds -> StoredFiles] /\ stamp' \in [StoredIds -> Stamps \cup {"none"}]
         /\ saves' \in Nat /\ invalidating' = s
         /\ RowsAreCurrent' /\ ListerInv'
         /\ sessionFile'[s] = [rec EXCEPT !.rev = saves + 1]
         /\ \A t \in StoredIds : t # s => sessionFile'[t] = sessionFile[t]
<1> USE DEF GoalsInv, SessionShape
<1>1. PICK new \in Stamps : stamp' = [stamp EXCEPT ![s] = new] BY DEF Write
<1>2. saves' = saves + 1 /\ saves' \in Nat /\ invalidating' = s /\ saves < saves' BY DEF Write
<1>3. sessionFile' = [sessionFile EXCEPT ![s] = [rec EXCEPT !.rev = saves + 1]] BY DEF Write
<1>4. [rec EXCEPT !.rev = saves + 1] \in StoredFiles BY <1>2 DEF StoredFiles
<1>5. sessionFile' \in [StoredIds -> StoredFiles] /\ stamp' \in [StoredIds -> Stamps \cup {"none"}]
  BY <1>1, <1>3, <1>4
<1>6. sessionFile'[s] = [rec EXCEPT !.rev = saves + 1] /\ (sessionFile'[s]).rev = saves + 1
  BY <1>3, <1>4 DEF StoredFiles
<1>7. \A t \in StoredIds : t # s => sessionFile'[t] = sessionFile[t] /\ stamp'[t] = stamp[t] BY <1>1, <1>3
<1>8. \A t \in StoredIds : sessionFile[t].rev \in Nat BY DEF StoredFiles
<1>9. RowsAreCurrent'
  <2>1. ASSUME NEW t \in StoredIds PROVE sessionFile'[t].rev <= saves'
    <3>1. sessionFile[t].rev <= saves BY DEF RowsAreCurrent
    <3>2. CASE t = s BY <3>2, <1>2, <1>6
    <3>3. CASE t # s BY <3>1, <3>3, <1>2, <1>7, <1>8
    <3> QED BY <3>2, <3>3
  <2>2. \A t \in StoredIds : Present(t)' => stamp'[t] # "none"
    BY <1>1, <1>7, StoredAssumption DEF RowsAreCurrent, Present
  <2>3. \A t \in StoredIds : t # invalidating' /\ Present(t)' /\ summary'[t].stamp # "none"
           => summary'[t].rev = sessionFile'[t].rev
    BY <1>2, <1>7, StoredAssumption DEF RowsAreCurrent, Present, Write
  <2> QED BY <2>1, <2>2, <2>3 DEF RowsAreCurrent
<1>10. ListerInv'
  <2> SUFFICES ASSUME lister.at = "read", NEW t \in DOMAIN lister.stamps
      PROVE  /\ lister.stamps[t] \in Stamps /\ lister.saved[t] \in Nat /\ lister.saved[t] <= saves'
             /\ Present(t)' => lister.saved[t] <= sessionFile'[t].rev
             /\ summary[t].stamp # "none" => lister.saved[t] <= summary[t].rev
    BY DEF ListerInv
  <2>1. t \in StoredIds /\ lister.stamps[t] \in Stamps /\ lister.saved[t] \in Nat /\ lister.saved[t] <= saves
        /\ (Present(t) => lister.saved[t] <= sessionFile[t].rev)
        /\ (summary[t].stamp # "none" => lister.saved[t] <= summary[t].rev)
    BY DEF ListerInv
  <2>2. lister.saved[t] <= saves' BY <2>1, <1>2
  <2>3. CASE t = s BY <2>1, <2>2, <2>3, <1>2, <1>6
  <2>4. CASE t # s BY <2>1, <2>2, <2>4, <1>7 DEF Present
  <2> QED BY <2>3, <2>4
<1> QED BY <1>2, <1>5, <1>6, <1>7, <1>9, <1>10

(* A write that leaves the stage of its session alone, or takes it away.    *)
LEMMA StagesKept ==
  ASSUME GoalsInv, NEW s \in StoredIds, UNCHANGED <<submits, stages, launched>>,
         staging' = staging \/ staging'.at = "idle",
         \A t \in StoredIds : t # s => sessionFile'[t] = sessionFile[t],
         \/ sessionFile'[s].stage = sessionFile[s].stage /\ sessionFile'[s].job = sessionFile[s].job
         \/ sessionFile'[s].stage = 0 /\ sessionFile'[s].job = 0,
         sessionFile'[s].owner \notin {"none", "absent"}
  PROVE  StagesInv' /\ LaunchesInv' /\ JobsInv'
<1>1. \A j \in JobIds : Claims(j)' <=> Claims(j) BY DEF Claims
<1>2. stages \in Nat BY DEF GoalsInv, SessionShape
<1>3. StagesInv' BY <1>1, <1>2, JobIdsNat DEF GoalsInv, StagesInv
<1>4. LaunchesInv' BY DEF GoalsInv, LaunchesInv
<1>5. \A t \in StoredIds : sessionFile'[t].job # 0 => Claims(sessionFile[t].job)'
  BY DEF GoalsInv, JobsInv, Claims
<1>6. staging'.at = "write" /\ staging'.job # 0 => submits'[staging'.job].at = "ended"
  BY DEF GoalsInv, JobsInv
<1>7. \A t \in StoredIds : sessionFile'[t].owner \in {"none", "absent"} => sessionFile'[t].job = 0 /\ sessionFile'[t].stage = 0
  BY DEF GoalsInv, JobsInv
<1>8. staging'.at = "write" => sessionFile'[staging'.session].owner # "none"
  BY DEF GoalsInv, JobsInv, SessionShape
<1> QED BY <1>3, <1>4, <1>5, <1>6, <1>7, <1>8 DEF JobsInv

LEMMA FileType ==
  ASSUME GoalsInv, NEW s \in StoredIds
  PROVE  /\ sessionFile[s] \in StoredFiles
         /\ sessionFile[s].owner \in SessionOwners \cup {"none", "absent"} /\ sessionFile[s].rev \in Nat
         /\ sessionFile[s].goal \in GoalTexts /\ sessionFile[s].stage \in Nat
         /\ sessionFile[s].stageGoal \in GoalTexts /\ sessionFile[s].job \in JobIds \cup {0}
  BY DEF GoalsInv, SessionShape, StoredFiles

LEMMA QuietIsCurrent == Quiet => ListIsCurrent'
  BY DEF Quiet, ListIsCurrent

LEMMA StoreSessionStep ==
  ASSUME GoalsInv, NEW s \in StoredIds, NEW o \in SessionOwners, StoreSession(s, o)
  PROVE  GoalsInv'
<1> DEFINE rec == [NoStored EXCEPT !.owner = o]
<1>1. rec \in StoredFiles /\ rec.owner = o /\ rec.stage = 0 /\ rec.job = 0
  BY StoredAssumption DEF NoStored, StoredFiles
<1>2. Write(s, rec) /\ Quiet /\ UNCHANGED <<summary, lister, staging, submits, launched, stages>> BY DEF StoreSession
<1>3. rec.owner \notin {"none", "absent"} BY <1>1, StoredAssumption
<1> HIDE DEF rec
<1>4. /\ sessionFile' \in [StoredIds -> StoredFiles] /\ stamp' \in [StoredIds -> Stamps \cup {"none"}]
      /\ saves' \in Nat /\ invalidating' = s /\ RowsAreCurrent' /\ ListerInv'
      /\ sessionFile'[s] = [rec EXCEPT !.rev = saves + 1]
      /\ \A t \in StoredIds : t # s => sessionFile'[t] = sessionFile[t]
  BY <1>1, <1>2, <1>3, WriteKeeps
<1>5. SessionShape' BY <1>2, <1>4 DEF GoalsInv, SessionShape
<1>6. sessionFile'[s].stage = rec.stage /\ sessionFile'[s].job = rec.job /\ sessionFile'[s].owner = rec.owner
  BY <1>1, <1>4 DEF StoredFiles
<1>7. StagesInv' /\ LaunchesInv' /\ JobsInv' BY <1>1, <1>2, <1>3, <1>4, <1>6, StagesKept
<1> QED BY <1>2, <1>4, <1>5, <1>7, QuietIsCurrent DEF GoalsInv

LEMMA EditStoredStep ==
  ASSUME GoalsInv, NEW s \in StoredIds, NEW o \in SessionOwners, EditStored(s, o)
  PROVE  GoalsInv'
<1> DEFINE rec == sessionFile[s]
<1>1. rec \in StoredFiles /\ rec.owner = o BY FileType DEF EditStored, Owned
<1>2. Write(s, rec) /\ Quiet /\ UNCHANGED <<summary, lister, staging, submits, launched, stages>> BY DEF EditStored
<1>3. rec.owner \notin {"none", "absent"} BY <1>1, StoredAssumption
<1> HIDE DEF rec
<1>4. /\ sessionFile' \in [StoredIds -> StoredFiles] /\ stamp' \in [StoredIds -> Stamps \cup {"none"}]
      /\ saves' \in Nat /\ invalidating' = s /\ RowsAreCurrent' /\ ListerInv'
      /\ sessionFile'[s] = [rec EXCEPT !.rev = saves + 1]
      /\ \A t \in StoredIds : t # s => sessionFile'[t] = sessionFile[t]
  BY <1>1, <1>2, <1>3, WriteKeeps
<1>5. SessionShape' BY <1>2, <1>4 DEF GoalsInv, SessionShape
<1>6. sessionFile'[s].stage = rec.stage /\ sessionFile'[s].job = rec.job /\ sessionFile'[s].owner = rec.owner
  BY <1>1, <1>4 DEF StoredFiles
<1>7. StagesInv' /\ LaunchesInv' /\ JobsInv' BY <1>2, <1>3, <1>4, <1>6, StagesKept DEF rec
<1> QED BY <1>2, <1>4, <1>5, <1>7, QuietIsCurrent DEF GoalsInv

LEMMA SetSessionGoalStep ==
  ASSUME GoalsInv, NEW s \in StoredIds, NEW o \in SessionOwners, NEW g \in GoalTexts, SetSessionGoal(s, o, g)
  PROVE  GoalsInv'
<1> DEFINE rec == [sessionFile[s] EXCEPT !.goal = g]
<1>1. rec \in StoredFiles /\ rec.owner = o /\ rec.stage = sessionFile[s].stage /\ rec.job = sessionFile[s].job
  BY FileType DEF SetSessionGoal, Owned, StoredFiles
<1>2. Write(s, rec) /\ Quiet /\ UNCHANGED <<summary, lister, staging, submits, launched, stages>> BY DEF SetSessionGoal
<1>3. rec.owner \notin {"none", "absent"} BY <1>1, StoredAssumption
<1> HIDE DEF rec
<1>4. /\ sessionFile' \in [StoredIds -> StoredFiles] /\ stamp' \in [StoredIds -> Stamps \cup {"none"}]
      /\ saves' \in Nat /\ invalidating' = s /\ RowsAreCurrent' /\ ListerInv'
      /\ sessionFile'[s] = [rec EXCEPT !.rev = saves + 1]
      /\ \A t \in StoredIds : t # s => sessionFile'[t] = sessionFile[t]
  BY <1>1, <1>2, <1>3, WriteKeeps
<1>5. SessionShape' BY <1>2, <1>4 DEF GoalsInv, SessionShape
<1>6. sessionFile'[s].stage = rec.stage /\ sessionFile'[s].job = rec.job /\ sessionFile'[s].owner = rec.owner
  BY <1>1, <1>4 DEF StoredFiles
<1>7. StagesInv' /\ LaunchesInv' /\ JobsInv' BY <1>1, <1>2, <1>3, <1>4, <1>6, StagesKept
<1> QED BY <1>2, <1>4, <1>5, <1>7, QuietIsCurrent DEF GoalsInv

LEMMA AdoptLegacyStep ==
  ASSUME GoalsInv, NEW s \in StoredIds, NEW o \in SessionOwners, AdoptLegacy(s, o)
  PROVE  GoalsInv'
<1> DEFINE rec == [sessionFile[s] EXCEPT !.owner = o, !.stage = 0, !.stageGoal = NoGoal, !.job = 0]
<1>1. rec \in StoredFiles /\ rec.owner = o /\ rec.stage = 0 /\ rec.job = 0
  BY FileType, StoredAssumption DEF StoredFiles
<1>2. Write(s, rec) /\ Quiet /\ UNCHANGED <<summary, lister, staging, submits, launched, stages>> BY DEF AdoptLegacy
<1>3. rec.owner \notin {"none", "absent"} BY <1>1, StoredAssumption
<1> HIDE DEF rec
<1>4. /\ sessionFile' \in [StoredIds -> StoredFiles] /\ stamp' \in [StoredIds -> Stamps \cup {"none"}]
      /\ saves' \in Nat /\ invalidating' = s /\ RowsAreCurrent' /\ ListerInv'
      /\ sessionFile'[s] = [rec EXCEPT !.rev = saves + 1]
      /\ \A t \in StoredIds : t # s => sessionFile'[t] = sessionFile[t]
  BY <1>1, <1>2, <1>3, WriteKeeps
<1>5. SessionShape' BY <1>2, <1>4 DEF GoalsInv, SessionShape
<1>6. sessionFile'[s].stage = rec.stage /\ sessionFile'[s].job = rec.job /\ sessionFile'[s].owner = rec.owner
  BY <1>1, <1>4 DEF StoredFiles
<1>7. StagesInv' /\ LaunchesInv' /\ JobsInv' BY <1>1, <1>2, <1>3, <1>4, <1>6, StagesKept
<1> QED BY <1>2, <1>4, <1>5, <1>7, QuietIsCurrent DEF GoalsInv

LEMMA InvalidateStep == ASSUME GoalsInv, Invalidate PROVE GoalsInv'
<1>1. invalidating \in StoredIds /\ summary' = [summary EXCEPT ![invalidating] = NoRow] /\ invalidating' = "none"
      /\ UNCHANGED <<sessionFile, stamp, lister, staging, submits, launched, saves, stages>> /\ Quiet
  BY DEF Invalidate, GoalsInv, SessionShape
<1>2. NoRow \in SummaryRows /\ NoRow.stamp = "none" BY DEF NoRow, SummaryRows
<1>3. SessionShape' BY <1>1, <1>2 DEF GoalsInv, SessionShape
<1>4. \A s \in StoredIds : summary'[s] = IF s = invalidating THEN NoRow ELSE summary[s]
  BY <1>1 DEF GoalsInv, SessionShape
<1>5. RowsAreCurrent' BY <1>1, <1>2, <1>4, StoredAssumption DEF GoalsInv, RowsAreCurrent, Present
<1>6. ListerInv' BY <1>1, <1>2, <1>4 DEF GoalsInv, ListerInv, Present
<1>7. StagesInv' /\ LaunchesInv' /\ JobsInv' BY <1>1 DEF GoalsInv, StagesInv, LaunchesInv, JobsInv, Claims
<1> QED BY <1>1, <1>3, <1>5, <1>6, <1>7, QuietIsCurrent DEF GoalsInv

LEMMA ListScanStep == ASSUME GoalsInv, ListScan PROVE GoalsInv'
<1>1. /\ UNCHANGED <<sessionFile, stamp, summary, invalidating, staging, submits, launched, saves, stages>> /\ Quiet
      /\ lister'.at = "read" /\ DOMAIN lister'.stamps = {s \in StoredIds : Present(s)}
      /\ \A s \in StoredIds : Present(s) => lister'.stamps[s] = stamp[s]
      /\ \A s \in StoredIds : lister'.saved[s] = IF s = invalidating THEN 0 ELSE sessionFile[s].rev
  BY DEF ListScan
<1>2. SessionShape' /\ RowsAreCurrent' BY <1>1 DEF GoalsInv, SessionShape, RowsAreCurrent, Present
<1>3. ASSUME NEW s \in StoredIds, Present(s)
      PROVE  /\ lister'.stamps[s] \in Stamps /\ lister'.saved[s] \in Nat /\ lister'.saved[s] <= saves
             /\ lister'.saved[s] <= sessionFile[s].rev
             /\ summary[s].stamp # "none" => lister'.saved[s] <= summary[s].rev
  <2>1. sessionFile[s].rev \in Nat /\ sessionFile[s].rev <= saves /\ summary[s].rev \in Nat /\ saves \in Nat
    BY FileType DEF GoalsInv, RowsAreCurrent, SessionShape, SummaryRows
  <2>2. stamp[s] \in Stamps BY <1>3 DEF GoalsInv, RowsAreCurrent, SessionShape
  <2>3. CASE s = invalidating BY <1>1, <1>3, <2>1, <2>2, <2>3
  <2>4. CASE s # invalidating BY <1>1, <1>3, <2>1, <2>2, <2>4 DEF GoalsInv, RowsAreCurrent
  <2> QED BY <2>3, <2>4
<1>4. ListerInv' BY <1>1, <1>3 DEF ListerInv, Present
<1>5. StagesInv' /\ LaunchesInv' /\ JobsInv' BY <1>1 DEF GoalsInv, StagesInv, LaunchesInv, JobsInv, Claims
<1> QED BY <1>1, <1>2, <1>4, <1>5, QuietIsCurrent DEF GoalsInv

LEMMA ListReadStep == ASSUME GoalsInv, ListRead PROVE GoalsInv'
<1> DEFINE seen == {s \in DOMAIN lister.stamps : Cacheable(s) \/ Present(s)}
<1>1. /\ UNCHANGED <<sessionFile, stamp, invalidating, staging, submits, launched, saves, stages>>
      /\ lister.at = "read" /\ lister' = NoLister
      /\ summary' = [s \in StoredIds |-> IF s \in seen THEN RowOf(s) ELSE NoRow]
      /\ listing' = {[session |-> s, rev |-> RowOf(s).rev, owner |-> RowOf(s).owner, atLeast |-> lister.saved[s]] : s \in seen}
  BY DEF ListRead, Listing
<1>2. seen \subseteq StoredIds BY <1>1 DEF GoalsInv, ListerInv
<1>3. ASSUME NEW s \in seen
      PROVE  /\ RowOf(s) \in SummaryRows /\ RowOf(s).rev >= lister.saved[s] /\ RowOf(s).stamp # "none"
             /\ s # invalidating /\ Present(s) => RowOf(s).rev = sessionFile[s].rev
  <2>1. s \in StoredIds /\ s \in DOMAIN lister.stamps /\ (Cacheable(s) \/ Present(s)) BY <1>2
  <2>2. /\ lister.stamps[s] \in Stamps /\ lister.stamps[s] # "none" /\ lister.saved[s] \in Nat
        /\ Present(s) => lister.saved[s] <= sessionFile[s].rev
        /\ summary[s].stamp # "none" => lister.saved[s] <= summary[s].rev
    BY <1>1, <2>1, StoredAssumption DEF GoalsInv, ListerInv
  <2>3. summary[s] \in SummaryRows /\ summary[s].rev \in Nat BY <2>1 DEF GoalsInv, SessionShape, SummaryRows
  <2>4. sessionFile[s].rev \in Nat /\ sessionFile[s].owner \in SessionOwners \cup {"none", "absent"} BY <2>1, FileType
  <2>5. CASE Cacheable(s)
    <3>1. RowOf(s) = summary[s] /\ summary[s].stamp # "none" BY <2>2, <2>5 DEF RowOf, Cacheable
    <3>2. s # invalidating /\ Present(s) => summary[s].rev = sessionFile[s].rev BY <2>1, <3>1 DEF GoalsInv, RowsAreCurrent
    <3> QED BY <2>2, <2>3, <3>1, <3>2
  <2>6. CASE ~Cacheable(s)
    <3>1. RowOf(s) = [stamp |-> lister.stamps[s], rev |-> sessionFile[s].rev, owner |-> sessionFile[s].owner] /\ Present(s)
      BY <2>1, <2>6 DEF RowOf
    <3> QED BY <2>2, <2>4, <3>1 DEF SummaryRows
  <2> QED BY <2>5, <2>6
<1> HIDE DEF seen
<1>4. NoRow \in SummaryRows /\ NoRow.stamp = "none" BY DEF NoRow, SummaryRows
<1>5. SessionShape' BY <1>1, <1>2, <1>3, <1>4 DEF GoalsInv, SessionShape
<1>6. \A s \in StoredIds : s # invalidating /\ Present(s) /\ summary'[s].stamp # "none" => summary'[s].rev = sessionFile[s].rev
  BY <1>1, <1>3, <1>4
<1>7. RowsAreCurrent' BY <1>1, <1>6 DEF GoalsInv, RowsAreCurrent, Present
<1>8. ListerInv' BY <1>1 DEF ListerInv, NoLister
<1>9. ListIsCurrent' BY <1>1, <1>3 DEF ListIsCurrent
<1>10. StagesInv' /\ LaunchesInv' /\ JobsInv' BY <1>1 DEF GoalsInv, StagesInv, LaunchesInv, JobsInv, Claims
<1> QED BY <1>5, <1>7, <1>8, <1>9, <1>10 DEF GoalsInv

LEMMA ClearSessionsStep == ASSUME GoalsInv, NEW o \in SessionOwners, ClearSessions(o) PROVE GoalsInv'
<1>1. PICK gone \in SUBSET StoredIds : sessionFile' = [s \in StoredIds |-> IF s \in gone THEN NoStored ELSE sessionFile[s]]
  BY DEF ClearSessions
<1>2. UNCHANGED <<stamp, summary, invalidating, lister, staging, submits, launched, saves, stages>> /\ Quiet BY DEF ClearSessions
<1>3. /\ NoStored \in StoredFiles /\ NoStored.owner = "absent" /\ NoStored.rev = 0
      /\ NoStored.stage = 0 /\ NoStored.job = 0
  BY StoredAssumption DEF NoStored, StoredFiles
<1>4. SessionShape' BY <1>1, <1>2, <1>3 DEF GoalsInv, SessionShape
<1>5. \A s \in StoredIds : IF s \in gone THEN sessionFile'[s] = NoStored ELSE sessionFile'[s] = sessionFile[s] BY <1>1
<1>6. saves \in Nat /\ stages \in Nat BY DEF GoalsInv, SessionShape
<1>7. RowsAreCurrent' BY <1>2, <1>3, <1>5, <1>6 DEF GoalsInv, RowsAreCurrent, Present
<1>8. ListerInv' BY <1>2, <1>3, <1>5 DEF GoalsInv, ListerInv, Present
<1>9. StagesInv'
  <2>1. \A s \in StoredIds : sessionFile'[s].stage <= stages BY <1>3, <1>5, <1>6 DEF GoalsInv, StagesInv
  <2>2. \A s, t \in StoredIds : sessionFile'[s].stage = sessionFile'[t].stage /\ sessionFile'[s].stage # 0 => s = t
    BY <1>3, <1>5 DEF GoalsInv, StagesInv
  <2>3. \A j \in JobIds : Claims(j) =>
          submits[j].stage # 0 /\ \A s \in StoredIds : sessionFile'[s].stage = submits[j].stage => sessionFile'[s].job # 0
    BY <1>3, <1>5 DEF GoalsInv, StagesInv
  <2> QED BY <1>2, <2>1, <2>2, <2>3 DEF GoalsInv, StagesInv, Claims
<1>10. LaunchesInv' BY <1>2 DEF GoalsInv, LaunchesInv
<1>11. JobsInv' BY <1>2, <1>3, <1>5 DEF GoalsInv, SessionShape, JobsInv, Claims
<1> QED BY <1>2, <1>4, <1>7, <1>8, <1>9, <1>10, <1>11, QuietIsCurrent DEF GoalsInv

LEMMA StageReadStep ==
  ASSUME GoalsInv, NEW s \in StoredIds, NEW o \in SessionOwners, StageRead(s, o)
  PROVE  GoalsInv'
<1>1. /\ staging' = [at |-> "write", session |-> s, goal |-> sessionFile[s].goal, stage |-> sessionFile[s].stage, job |-> sessionFile[s].job]
      /\ ~JobRunning(sessionFile[s].job) /\ Quiet
      /\ UNCHANGED <<sessionFile, stamp, summary, invalidating, lister, submits, launched, saves, stages>>
  BY DEF StageRead
<1>2. SessionShape' BY <1>1, FileType DEF GoalsInv, SessionShape, Stagings
<1>3. RowsAreCurrent' /\ ListerInv' BY <1>1 DEF GoalsInv, RowsAreCurrent, ListerInv, Present
<1>4. StagesInv' /\ LaunchesInv' BY <1>1 DEF GoalsInv, StagesInv, LaunchesInv, Claims
<1>5. sessionFile[s].job # 0 => submits[sessionFile[s].job].at = "ended"
  BY <1>1 DEF GoalsInv, JobsInv, Claims, JobRunning
<1>6. sessionFile[s].owner # "none" BY StoredAssumption DEF StageRead, Owned
<1>7. JobsInv' BY <1>1, <1>5, <1>6 DEF GoalsInv, JobsInv, Claims
<1> QED BY <1>1, <1>2, <1>3, <1>4, <1>7, QuietIsCurrent DEF GoalsInv

LEMMA StageGoalStep == ASSUME GoalsInv, StageGoal PROVE GoalsInv'
<1> DEFINE s == staging.session
           rec == [sessionFile[s] EXCEPT !.stage = stages + 1, !.stageGoal = staging.goal, !.job = 0]
<1>1. s \in StoredIds /\ staging' = NoStaging /\ UNCHANGED <<summary, lister, submits, launched>> /\ Quiet
      /\ staging.goal \in GoalTexts /\ stages \in Nat
  BY DEF StageGoal, GoalsInv, SessionShape, Stagings
<1>2. NoStaging \in Stagings /\ NoStaging.at = "idle" BY StoredAssumption DEF NoStaging, Stagings
<1>3. CASE Present(s) /\ UnchangedSince(s)
  <2>1. Write(s, rec) /\ stages' = stages + 1 BY <1>3 DEF StageGoal
  <2>0. sessionFile[s] \in StoredFiles /\ stages + 1 \in Nat BY <1>1, FileType
  <2>2. rec \in StoredFiles /\ rec.owner = sessionFile[s].owner /\ rec.stage = stages + 1 /\ rec.job = 0
    BY <1>1, <2>0 DEF StoredFiles
  <2> HIDE DEF rec, s
  <2>3. rec.owner # "absent" BY <1>3, <2>2 DEF Present
  <2>4. /\ sessionFile' \in [StoredIds -> StoredFiles] /\ stamp' \in [StoredIds -> Stamps \cup {"none"}]
        /\ saves' \in Nat /\ invalidating' = s /\ RowsAreCurrent' /\ ListerInv'
        /\ sessionFile'[s] = [rec EXCEPT !.rev = saves + 1]
        /\ \A t \in StoredIds : t # s => sessionFile'[t] = sessionFile[t]
    BY <1>1, <2>1, <2>2, <2>3, WriteKeeps
  <2>5. SessionShape' BY <1>1, <1>2, <2>1, <2>4 DEF GoalsInv, SessionShape
  <2>6. sessionFile'[s].stage = stages + 1 /\ sessionFile'[s].job = 0
    BY <2>2, <2>4 DEF StoredFiles
  <2>7. \A t \in StoredIds : sessionFile[t].stage \in Nat /\ sessionFile[t].stage <= stages
    BY FileType DEF GoalsInv, StagesInv
  <2>8. \A j \in JobIds : submits[j].stage \in Nat /\ submits[j].stage <= stages
    BY DEF GoalsInv, StagesInv, SessionShape, Submits
  <2>9. StagesInv'
    <3>1. ASSUME NEW t \in StoredIds PROVE sessionFile'[t].stage <= stages + 1
      <4>1. CASE t = s BY <1>1, <2>6, <4>1
      <4>2. CASE t # s BY <1>1, <2>4, <2>7, <4>2
      <4> QED BY <4>1, <4>2
    <3>2. ASSUME NEW t \in StoredIds, NEW u \in StoredIds, sessionFile'[t].stage = sessionFile'[u].stage,
                 sessionFile'[t].stage # 0, t # u
          PROVE  FALSE
      <4>1. CASE t # s /\ u # s BY <3>2, <4>1, <2>4 DEF GoalsInv, StagesInv
      <4>2. CASE t = s BY <1>1, <3>2, <4>2, <2>4, <2>6, <2>7
      <4>3. CASE u = s BY <1>1, <3>2, <4>3, <2>4, <2>6, <2>7
      <4> QED BY <4>1, <4>2, <4>3
    <3>3. \A j \in JobIds : submits[j].stage <= stages + 1 BY <1>1, <2>8
    <3>4. ASSUME NEW j \in JobIds, Claims(j)
          PROVE  submits[j].stage # 0 /\ \A t \in StoredIds : sessionFile'[t].stage = submits[j].stage => sessionFile'[t].job # 0
      <4>1. submits[j].stage # 0 /\ \A t \in StoredIds : sessionFile[t].stage = submits[j].stage => sessionFile[t].job # 0
        BY <3>4 DEF GoalsInv, StagesInv
      <4>2. sessionFile'[s].stage # submits[j].stage BY <1>1, <2>6, <2>8
      <4> QED BY <2>4, <4>1, <4>2
    <3>5. \A j \in JobIds : Claims(j)' <=> Claims(j) BY <1>1 DEF Claims
    <3> QED BY <1>1, <2>1, <3>1, <3>2, <3>3, <3>4, <3>5 DEF GoalsInv, StagesInv
  <2>10. LaunchesInv' BY <1>1 DEF GoalsInv, LaunchesInv
  <2>11. sessionFile'[s].owner \notin {"none", "absent"}
    <3>1. sessionFile'[s].owner = sessionFile[s].owner BY <2>2, <2>4 DEF StoredFiles
    <3>2. sessionFile[s].owner # "none" BY DEF GoalsInv, JobsInv, StageGoal, s
    <3> QED BY <1>3, <3>1, <3>2 DEF Present
  <2>12. JobsInv' BY <1>1, <1>2, <2>4, <2>6, <2>11 DEF GoalsInv, JobsInv, Claims
  <2> QED BY <1>1, <2>4, <2>5, <2>9, <2>10, <2>12, QuietIsCurrent DEF GoalsInv
<1>4. CASE ~(Present(s) /\ UnchangedSince(s))
  <2>1. UNCHANGED <<sessionFile, stamp, invalidating, saves, stages>> BY <1>4 DEF StageGoal
  <2>2. SessionShape' BY <1>1, <1>2, <2>1 DEF GoalsInv, SessionShape
  <2>3. RowsAreCurrent' /\ ListerInv' BY <1>1, <2>1 DEF GoalsInv, RowsAreCurrent, ListerInv, Present
  <2>4. StagesInv' /\ LaunchesInv' BY <1>1, <2>1 DEF GoalsInv, StagesInv, LaunchesInv, Claims
  <2>5. JobsInv' BY <1>1, <1>2, <2>1 DEF GoalsInv, JobsInv, Claims
  <2> QED BY <1>1, <2>2, <2>3, <2>4, <2>5, QuietIsCurrent DEF GoalsInv
<1> QED BY <1>3, <1>4

LEMMA ValidateBindingStep ==
  ASSUME GoalsInv, NEW j \in JobIds, NEW s \in StoredIds, NEW o \in SessionOwners, NEW r \in BOOLEAN, ValidateBinding(j, s, o, r)
  PROVE  GoalsInv'
<1> DEFINE new == [at |-> "register", session |-> s, stage |-> sessionFile[s].stage, goal |-> sessionFile[s].goal, recurring |-> r]
<1>1. /\ submits' = [submits EXCEPT ![j] = new] /\ submits[j].at = "free" /\ Quiet
      /\ UNCHANGED <<sessionFile, stamp, summary, invalidating, lister, staging, launched, saves, stages>>
  BY DEF ValidateBinding
<1>2. new \in Submits /\ new.at = "register" /\ new.session \in StoredIds /\ new.stage <= stages
  BY FileType DEF Submits, GoalsInv, StagesInv
<1> HIDE DEF new
<1>3. submits' \in [JobIds -> Submits] /\ submits'[j] = new /\ \A k \in JobIds : k # j => submits'[k] = submits[k]
  BY <1>1, <1>2 DEF GoalsInv, SessionShape
<1>4. SessionShape' BY <1>1, <1>2, <1>3 DEF GoalsInv, SessionShape
<1>5. RowsAreCurrent' /\ ListerInv' BY <1>1 DEF GoalsInv, RowsAreCurrent, ListerInv, Present
<1>6. ~Claims(j) /\ ~Claims(j)' /\ \A k \in JobIds : Claims(k)' => Claims(k) /\ submits'[k] = submits[k]
  BY <1>1, <1>2, <1>3 DEF Claims
<1>7. StagesInv' BY <1>1, <1>2, <1>3, <1>6 DEF GoalsInv, StagesInv
<1>8. LaunchesInv' BY <1>1, <1>3 DEF GoalsInv, LaunchesInv
<1>9. JobsInv'
  <2>1. \A t \in StoredIds : sessionFile[t].job # 0 => sessionFile[t].job # j /\ sessionFile[t].job \in JobIds /\ Claims(sessionFile[t].job)
    BY <1>6, FileType DEF GoalsInv, JobsInv
  <2>2. \A t \in StoredIds : sessionFile'[t].job # 0 => Claims(sessionFile[t].job)'
    BY <1>1, <1>3, <2>1 DEF Claims
  <2>3. staging.at = "write" /\ staging.job # 0 => submits'[staging.job].at = "ended"
    BY <1>1, <1>3 DEF GoalsInv, JobsInv, SessionShape, Stagings
  <2> QED BY <1>1, <2>2, <2>3 DEF GoalsInv, JobsInv
<1> QED BY <1>1, <1>4, <1>5, <1>7, <1>8, <1>9, QuietIsCurrent DEF GoalsInv

(* A request moves on without touching a file: only from one claim to the   *)
(* next, or outside the claims, and never back from an ended job.           *)
LEMMA RequestMoves ==
  ASSUME GoalsInv, NEW j \in JobIds, NEW to \in {"claim", "refused", "run", "ended"},
         submits' = [submits EXCEPT ![j].at = to], submits[j].at \notin {"free", "ended"},
         Claims(j) <=> to \in {"run", "ended"},
         UNCHANGED <<sessionFile, stamp, summary, invalidating, lister, staging, saves, stages>>
  PROVE  SessionShape' /\ RowsAreCurrent' /\ ListerInv' /\ StagesInv' /\ JobsInv'
<1>1. submits \in [JobIds -> Submits] BY DEF GoalsInv, SessionShape
<1>2. /\ submits' \in [JobIds -> Submits] /\ submits'[j].at = to
      /\ \A k \in JobIds : /\ submits'[k].session = submits[k].session /\ submits'[k].stage = submits[k].stage
                           /\ submits'[k].recurring = submits[k].recurring
                           /\ k # j => submits'[k] = submits[k]
  BY <1>1 DEF Submits
<1>3. \A k \in JobIds : Claims(k)' <=> Claims(k) BY <1>2 DEF Claims
<1>4. SessionShape' BY <1>2 DEF GoalsInv, SessionShape
<1>5. RowsAreCurrent' /\ ListerInv' BY DEF GoalsInv, RowsAreCurrent, ListerInv, Present
<1>6. StagesInv'
  <2>1. \A k \in JobIds : submits'[k].stage <= stages BY <1>2 DEF GoalsInv, StagesInv
  <2>2. \A k \in JobIds : Claims(k)' =>
          submits'[k].stage # 0 /\ \A s \in StoredIds : sessionFile[s].stage = submits'[k].stage => sessionFile[s].job # 0
    BY <1>2, <1>3 DEF GoalsInv, StagesInv
  <2>3. \A i, k \in JobIds :
          Claims(i)' /\ Claims(k)' /\ ~submits'[i].recurring /\ ~submits'[k].recurring /\ submits'[i].stage = submits'[k].stage => i = k
    BY <1>2, <1>3 DEF GoalsInv, StagesInv
  <2> QED BY <2>1, <2>2, <2>3 DEF GoalsInv, StagesInv
<1>7. JobsInv'
  <2>1. \A t \in StoredIds : sessionFile[t].job # 0 => sessionFile[t].job \in JobIds /\ Claims(sessionFile[t].job)
    BY FileType DEF GoalsInv, JobsInv
  <2>2. \A t \in StoredIds : sessionFile'[t].job # 0 => Claims(sessionFile[t].job)'
    BY <1>2, <2>1 DEF Claims
  <2>3. staging.at = "write" /\ staging.job # 0 => submits'[staging.job].at = "ended"
    BY <1>2 DEF GoalsInv, JobsInv, SessionShape, Stagings
  <2> QED BY <2>2, <2>3 DEF GoalsInv, JobsInv
<1> QED BY <1>4, <1>5, <1>6, <1>7

LEMMA LaunchesKept ==
  ASSUME GoalsInv, NEW j \in JobIds, NEW to, submits' = [submits EXCEPT ![j].at = to], UNCHANGED launched,
         submits[j].at \in {"run", "ended"} => to \in {"run", "ended"}
  PROVE  LaunchesInv'
<1>1. submits \in [JobIds -> Submits] BY DEF GoalsInv, SessionShape
<1>2. /\ submits'[j].at = to
      /\ \A k \in JobIds : /\ submits'[k].stage = submits[k].stage /\ submits'[k].recurring = submits[k].recurring
                           /\ k # j => submits'[k] = submits[k]
  BY <1>1 DEF Submits
<1> QED BY <1>2 DEF GoalsInv, LaunchesInv

LEMMA RegisterJobStep == ASSUME GoalsInv, NEW j \in JobIds, RegisterJob(j) PROVE GoalsInv'
<1>1. PICK to \in {"claim", "refused"} : submits' = [submits EXCEPT ![j].at = to] BY DEF RegisterJob
<1>2. submits[j].at = "register" /\ Quiet
      /\ UNCHANGED <<sessionFile, stamp, summary, invalidating, lister, staging, launched, saves, stages>> BY DEF RegisterJob
<1>3. SessionShape' /\ RowsAreCurrent' /\ ListerInv' /\ StagesInv' /\ JobsInv' BY <1>1, <1>2, RequestMoves DEF Claims
<1>4. LaunchesInv' BY <1>1, <1>2, LaunchesKept
<1> QED BY <1>2, <1>3, <1>4, QuietIsCurrent DEF GoalsInv

LEMMA JobEndsStep == ASSUME GoalsInv, NEW j \in JobIds, JobEnds(j) PROVE GoalsInv'
<1>1. submits' = [submits EXCEPT ![j].at = "ended"] /\ submits[j].at = "run" /\ Quiet
      /\ UNCHANGED <<sessionFile, stamp, summary, invalidating, lister, staging, launched, saves, stages>> BY DEF JobEnds
<1>2. SessionShape' /\ RowsAreCurrent' /\ ListerInv' /\ StagesInv' /\ JobsInv' BY <1>1, RequestMoves DEF Claims
<1>3. LaunchesInv' BY <1>1, LaunchesKept
<1> QED BY <1>1, <1>2, <1>3, QuietIsCurrent DEF GoalsInv

LEMMA LaunchJobStep == ASSUME GoalsInv, NEW j \in JobIds, LaunchJob(j) PROVE GoalsInv'
<1> DEFINE new == [job |-> j, stage |-> submits[j].stage, recurring |-> submits[j].recurring]
<1>1. submits' = [submits EXCEPT ![j].at = "run"] /\ submits[j].at = "launch" /\ Quiet /\ launched' = launched \cup {new}
      /\ UNCHANGED <<sessionFile, stamp, summary, invalidating, lister, staging, saves, stages>> BY DEF LaunchJob
<1>2. SessionShape' /\ RowsAreCurrent' /\ ListerInv' /\ StagesInv' /\ JobsInv' BY <1>1, RequestMoves DEF Claims
<1>3. submits \in [JobIds -> Submits] BY DEF GoalsInv, SessionShape
<1>4. /\ submits'[j].at = "run"
      /\ \A k \in JobIds : /\ submits'[k].stage = submits[k].stage /\ submits'[k].recurring = submits[k].recurring
                           /\ k # j => submits'[k] = submits[k]
  BY <1>1, <1>3 DEF Submits
<1>5. LaunchesInv' BY <1>1, <1>4 DEF GoalsInv, LaunchesInv
<1> QED BY <1>1, <1>2, <1>5, QuietIsCurrent DEF GoalsInv

LEMMA ClaimStageStep == ASSUME GoalsInv, NEW j \in JobIds, ClaimStage(j) PROVE GoalsInv'
<1> DEFINE s == submits[j].session
           rec == [sessionFile[s] EXCEPT !.job = j]
<1>1. submits[j].at = "claim" /\ Quiet /\ UNCHANGED <<summary, lister, staging, launched, stages>> BY DEF ClaimStage
<1>2. s \in StoredIds /\ submits \in [JobIds -> Submits] BY <1>1 DEF GoalsInv, SessionShape
<1>3. CASE submits' = [submits EXCEPT ![j].at = "refused"] /\ UNCHANGED <<sessionFile, stamp, invalidating, saves>>
  <2>1. SessionShape' /\ RowsAreCurrent' /\ ListerInv' /\ StagesInv' /\ JobsInv' BY <1>1, <1>3, RequestMoves DEF Claims
  <2>2. LaunchesInv' BY <1>1, <1>3, LaunchesKept
  <2> QED BY <1>1, <2>1, <2>2, QuietIsCurrent DEF GoalsInv
<1>4. CASE /\ Present(s) /\ Binding(s, submits[j].stage, submits[j].goal, submits[j].recurring)
           /\ Write(s, rec) /\ submits' = [submits EXCEPT ![j].at = "launch"]
  <2>1. sessionFile[s] \in StoredFiles /\ j # 0 BY <1>2, FileType, JobIdsNat
  <2>2. rec \in StoredFiles /\ rec.owner = sessionFile[s].owner /\ rec.stage = sessionFile[s].stage /\ rec.job = j
    BY <2>1 DEF StoredFiles
  <2>3. submits[j].stage = sessionFile[s].stage /\ submits[j].stage # 0 /\ (submits[j].recurring \/ sessionFile[s].job = 0)
        /\ sessionFile[s].owner # "absent"
    BY <1>4 DEF Binding, Present
  <2> HIDE DEF rec, s
  <2>4. /\ sessionFile' \in [StoredIds -> StoredFiles] /\ stamp' \in [StoredIds -> Stamps \cup {"none"}]
        /\ saves' \in Nat /\ invalidating' = s /\ RowsAreCurrent' /\ ListerInv'
        /\ sessionFile'[s] = [rec EXCEPT !.rev = saves + 1]
        /\ \A t \in StoredIds : t # s => sessionFile'[t] = sessionFile[t]
    BY <1>1, <1>2, <1>4, <2>2, <2>3, WriteKeeps
  <2>5. sessionFile'[s].stage = sessionFile[s].stage /\ sessionFile'[s].job = j /\ sessionFile'[s].owner = sessionFile[s].owner
    BY <2>2, <2>4 DEF StoredFiles
  <2>6. /\ submits' \in [JobIds -> Submits] /\ submits'[j].at = "launch"
        /\ \A k \in JobIds : /\ submits'[k].session = submits[k].session /\ submits'[k].stage = submits[k].stage
                             /\ submits'[k].recurring = submits[k].recurring
                             /\ k # j => submits'[k] = submits[k]
    BY <1>2, <1>4 DEF Submits
  <2>7. ~Claims(j) /\ Claims(j)' /\ \A k \in JobIds : k # j => (Claims(k)' <=> Claims(k))
    BY <1>1, <2>6 DEF Claims
  <2>8. SessionShape' BY <1>1, <1>2, <2>4, <2>6 DEF GoalsInv, SessionShape
  <2>9. StagesInv'
    <3>1. \A t \in StoredIds : sessionFile'[t].stage = sessionFile[t].stage BY <2>4, <2>5
    <3>2. ASSUME NEW k \in JobIds, Claims(k)'
          PROVE  submits'[k].stage # 0 /\ \A t \in StoredIds : sessionFile'[t].stage = submits'[k].stage => sessionFile'[t].job # 0
      <4>1. CASE k # j
        <5>1. submits[k].stage # 0 /\ \A t \in StoredIds : sessionFile[t].stage = submits[k].stage => sessionFile[t].job # 0
          BY <3>2, <4>1, <2>7 DEF GoalsInv, StagesInv
        <5> QED BY <5>1, <3>1, <2>1, <2>4, <2>5, <2>6
      <4>2. CASE k = j
        <5>1. \A t \in StoredIds : sessionFile[t].stage = sessionFile[s].stage => t = s
          BY <1>2, <2>3 DEF GoalsInv, StagesInv
        <5> QED BY <4>2, <5>1, <3>1, <2>1, <2>3, <2>5, <2>6
      <4> QED BY <4>1, <4>2
    <3>3. ASSUME NEW i \in JobIds, NEW k \in JobIds, Claims(i)', Claims(k)', ~submits'[i].recurring, ~submits'[k].recurring,
                 submits'[i].stage = submits'[k].stage, i # k
          PROVE  FALSE
      <4>1. CASE i # j /\ k # j BY <3>3, <4>1, <2>6, <2>7 DEF GoalsInv, StagesInv
      <4>2. ASSUME NEW m \in JobIds, Claims(m), submits[m].stage = submits[j].stage, ~submits[j].recurring PROVE FALSE
        BY <4>2, <1>2, <2>3 DEF GoalsInv, StagesInv
      <4>3. CASE i = j BY <3>3, <4>2, <4>3, <2>6, <2>7
      <4>4. CASE k = j BY <3>3, <4>2, <4>4, <2>6, <2>7
      <4> QED BY <4>1, <4>3, <4>4
    <3>4. \A k \in JobIds : submits'[k].stage <= stages BY <2>6 DEF GoalsInv, StagesInv
    <3> QED BY <1>1, <3>1, <3>2, <3>3, <3>4 DEF GoalsInv, StagesInv
  <2>10. LaunchesInv' BY <1>1, <1>4, LaunchesKept
  <2>11. JobsInv'
    <3>1. ASSUME NEW t \in StoredIds, sessionFile'[t].job # 0 PROVE Claims(sessionFile[t].job)'
      <4>1. CASE t = s BY <4>1, <2>5, <2>7
      <4>2. CASE t # s
        <5>1. sessionFile[t].job \in JobIds /\ Claims(sessionFile[t].job) /\ sessionFile'[t].job = sessionFile[t].job
          BY <3>1, <4>2, <2>4, FileType DEF GoalsInv, JobsInv
        <5>2. sessionFile[t].job # j BY <5>1, <2>7
        <5> QED BY <5>1, <5>2, <2>6 DEF Claims
      <4> QED BY <4>1, <4>2
    <3>2. staging.at = "write" /\ staging.job # 0 => submits'[staging.job].at = "ended"
      BY <1>1, <2>6 DEF GoalsInv, JobsInv, SessionShape, Stagings
    <3>3. sessionFile[s].owner \notin {"none", "absent"}
      BY <2>3, <1>2 DEF GoalsInv, JobsInv
    <3>4. \A t \in StoredIds : sessionFile'[t].owner \in {"none", "absent"} => sessionFile'[t].job = 0 /\ sessionFile'[t].stage = 0
      BY <2>4, <2>5, <3>3 DEF GoalsInv, JobsInv
    <3>5. staging.at = "write" => sessionFile'[staging.session].owner # "none"
      BY <2>4, <2>5 DEF GoalsInv, JobsInv, SessionShape
    <3> QED BY <1>1, <3>1, <3>2, <3>4, <3>5 DEF JobsInv
  <2> QED BY <1>1, <2>4, <2>8, <2>9, <2>10, <2>11, QuietIsCurrent DEF GoalsInv
<1> QED BY <1>3, <1>4 DEF ClaimStage

LEMMA GoalsStep == GoalsInv /\ [SessionNext]_sessionVars => GoalsInv'
<1> SUFFICES ASSUME GoalsInv, [SessionNext]_sessionVars PROVE GoalsInv' OBVIOUS
<1>1. CASE UNCHANGED sessionVars
  BY <1>1 DEF sessionVars, GoalsInv, SessionShape, RowsAreCurrent, ListerInv, ListIsCurrent, StagesInv, LaunchesInv, JobsInv,
     Claims, Present
<1>2. CASE SessionNext
  BY <1>2, InvalidateStep, ListScanStep, ListReadStep, StageGoalStep, ClearSessionsStep, StoreSessionStep, EditStoredStep,
     AdoptLegacyStep, StageReadStep, SetSessionGoalStep, RegisterJobStep, ClaimStageStep, LaunchJobStep, JobEndsStep,
     ValidateBindingStep DEF SessionNext
<1> QED BY <1>1, <1>2

LEMMA GoalsPromise == GoalsInv => SessionTypeOK /\ OneJobPerStage /\ ListIsCurrent
<1> SUFFICES ASSUME GoalsInv PROVE SessionTypeOK /\ OneJobPerStage /\ ListIsCurrent OBVIOUS
<1>1. SessionTypeOK
  BY DEF GoalsInv, SessionShape, SessionTypeOK, StoredFiles, Submits
<1>2. ASSUME NEW a \in launched, NEW b \in launched, a.stage = b.stage, ~a.recurring, ~b.recurring PROVE a.job = b.job
  <2>1. /\ a.job \in JobIds /\ Claims(a.job) /\ a.stage = submits[a.job].stage /\ a.recurring = submits[a.job].recurring
        /\ b.job \in JobIds /\ Claims(b.job) /\ b.stage = submits[b.job].stage /\ b.recurring = submits[b.job].recurring
    BY DEF GoalsInv, LaunchesInv, Claims
  <2> QED BY <1>2, <2>1 DEF GoalsInv, StagesInv
<1> QED BY <1>1, <1>2 DEF OneJobPerStage, GoalsInv

(* The action of RunningStageKept.                                          *)
RunningStageStep ==
  \A s \in StoredIds :
    JobRunning(sessionFile[s].job) /\ Present(s) /\ sessionFile'[s].owner # "absent" => sessionFile'[s].stage = sessionFile[s].stage

(* What a write leaves of the other files and keeps of its own.             *)
LEMMA WriteIsLocal ==
  ASSUME GoalsInv, NEW s \in StoredIds, NEW rec \in StoredFiles, Write(s, rec), NEW t \in StoredIds
  PROVE  sessionFile'[t].stage = IF t = s THEN rec.stage ELSE sessionFile[t].stage
  BY DEF GoalsInv, SessionShape, Write, StoredFiles

LEMMA RunningStage == GoalsInv /\ [SessionNext]_sessionVars => RunningStageStep
<1> SUFFICES ASSUME GoalsInv, [SessionNext]_sessionVars, NEW t \in StoredIds,
                    JobRunning(sessionFile[t].job), sessionFile'[t].owner # "absent"
             PROVE  sessionFile'[t].stage = sessionFile[t].stage
  BY DEF RunningStageStep
<1>1. ASSUME NEW s \in StoredIds, NEW rec \in StoredFiles, Write(s, rec), rec.stage = sessionFile[s].stage \/ t # s
      PROVE  sessionFile'[t].stage = sessionFile[t].stage
  BY <1>1, WriteIsLocal
<1>2. CASE UNCHANGED sessionFile BY <1>2
<1>3. CASE StageGoal
  <2>1. staging.session \in StoredIds /\ stages \in Nat /\ staging.goal \in GoalTexts
    BY <1>3 DEF StageGoal, GoalsInv, SessionShape, Stagings
  <2>2. CASE Present(staging.session) /\ UnchangedSince(staging.session)
    <3>1. sessionFile[staging.session].job = staging.job BY <2>2 DEF UnchangedSince
    <3>2. t # staging.session
      BY <1>3, <3>1 DEF StageGoal, GoalsInv, JobsInv, JobRunning
    <3>3. sessionFile[staging.session] \in StoredFiles /\ stages + 1 \in Nat BY <2>1, FileType
    <3>4. [sessionFile[staging.session] EXCEPT !.stage = stages + 1, !.stageGoal = staging.goal, !.job = 0] \in StoredFiles
      BY <2>1, <3>3 DEF StoredFiles
    <3> QED BY <1>3, <2>1, <2>2, <3>2, <3>4, <1>1 DEF StageGoal
  <2>3. CASE ~(Present(staging.session) /\ UnchangedSince(staging.session)) BY <1>3, <2>3 DEF StageGoal
  <2> QED BY <2>2, <2>3
<1>4. ASSUME NEW o \in SessionOwners, ClearSessions(o) PROVE sessionFile'[t].stage = sessionFile[t].stage
  BY <1>4 DEF ClearSessions, NoStored
<1>5. ASSUME NEW s \in StoredIds, NEW o \in SessionOwners, StoreSession(s, o) PROVE sessionFile'[t].stage = sessionFile[t].stage
  <2>1. [NoStored EXCEPT !.owner = o] \in StoredFiles BY StoredAssumption DEF NoStored, StoredFiles
  <2>2. t # s
    <3>1. sessionFile[s].job = 0 BY <1>5 DEF StoreSession, Present, GoalsInv, JobsInv
    <3> QED BY <3>1 DEF JobRunning
  <2> QED BY <1>1, <1>5, <2>1, <2>2 DEF StoreSession
<1>6. ASSUME NEW s \in StoredIds, NEW o \in SessionOwners, EditStored(s, o) PROVE sessionFile'[t].stage = sessionFile[t].stage
  BY <1>1, <1>6, FileType DEF EditStored
<1>7. ASSUME NEW s \in StoredIds, NEW o \in SessionOwners, AdoptLegacy(s, o) PROVE sessionFile'[t].stage = sessionFile[t].stage
  <2>1. [sessionFile[s] EXCEPT !.owner = o, !.stage = 0, !.stageGoal = NoGoal, !.job = 0] \in StoredFiles
    BY FileType, StoredAssumption DEF StoredFiles
  <2>2. t # s
    <3>1. sessionFile[s].job = 0 BY <1>7 DEF AdoptLegacy, Owned, GoalsInv, JobsInv
    <3> QED BY <3>1 DEF JobRunning
  <2> QED BY <1>1, <1>7, <2>1, <2>2 DEF AdoptLegacy
<1>8. ASSUME NEW s \in StoredIds, NEW o \in SessionOwners, NEW g \in GoalTexts, SetSessionGoal(s, o, g)
      PROVE  sessionFile'[t].stage = sessionFile[t].stage
  <2>1. sessionFile[s] \in StoredFiles BY FileType
  <2>2. [sessionFile[s] EXCEPT !.goal = g] \in StoredFiles /\ [sessionFile[s] EXCEPT !.goal = g].stage = sessionFile[s].stage
    BY <2>1 DEF StoredFiles
  <2> QED BY <1>1, <1>8, <2>2 DEF SetSessionGoal
<1>9. ASSUME NEW j \in JobIds, ClaimStage(j) PROVE sessionFile'[t].stage = sessionFile[t].stage
  <2>1. submits[j].session \in StoredIds BY <1>9 DEF ClaimStage, GoalsInv, SessionShape
  <2>2. sessionFile[submits[j].session] \in StoredFiles BY <2>1, FileType
  <2>3. LET rec == [sessionFile[submits[j].session] EXCEPT !.job = j]
        IN  rec \in StoredFiles /\ rec.stage = sessionFile[submits[j].session].stage
    BY <2>2 DEF StoredFiles
  <2> QED BY <1>1, <1>9, <2>1, <2>3 DEF ClaimStage
<1>10. QED
  BY <1>2, <1>3, <1>4, <1>5, <1>6, <1>7, <1>8, <1>9 DEF SessionNext, sessionVars, Invalidate, ListScan, ListRead, StageRead,
     ValidateBinding, RegisterJob, LaunchJob, JobEnds


-----------------------------------------------------------------------------
(* Web research: its run, its jobs and what they hand out.                  *)

RunPlaces == {"idle", "load", "discover", "lookup", "ranking", "plan", "planning", "synthesize", "answering", "conclude"}
Findings == SUBSET Sources
Results == [passages : Findings, answer : Findings, queries : Findings, warned : BOOLEAN]
ResearchRuns ==
  [pc : RunPlaces, owner : Researchers \cup {NoOne}, job : Nat, round : 0 .. Rounds, queries : 1 .. (Subqueries + 1),
   asked : Findings, evidence : Findings, answer : Findings, usage : [total : Nat, last : Nat], warned : BOOLEAN,
   blocking : BOOLEAN]
ResearchJobs ==
  [id : Nat \ {0}, owner : Researchers, status : {"running", "finished", "failed", "cancelled"}, result : Results]

ResearchShape ==
  /\ granted \subseteq Sources /\ researcherOk \subseteq Researchers /\ searchGate \in {0, 1}
  /\ run \in ResearchRuns /\ jobs \in Seq(ResearchJobs) /\ nextJob \in Nat
  /\ lease \in [owner : Researchers \cup {NoOne}, cancelled : BOOLEAN]

(* What the places of a run know of it.                                     *)
RunFits(r) ==
  /\ r.pc = "idle" => r.job = 0
  /\ r.pc \in {"plan", "planning"} => r.round < Rounds
  /\ r.pc # "conclude" => r.answer = {}
  /\ r.answer \subseteq r.evidence
  /\ r.usage.last <= r.usage.total /\ r.usage.total <= TotalBudget
  /\ r.pc = "planning" => r.usage.last = PromptSize + PlanCap
  /\ r.pc = "answering" => r.usage.last = PromptSize + AnswerCap

(* An answer is written from the passages it is kept with.                  *)
AnswersAreFounded == \A i \in DOMAIN jobs : jobs[i].result.answer \subseteq jobs[i].result.passages

ResearchInv == ResearchShape /\ RunFits(run) /\ AnswersAreFounded /\ RunningJobRuns

LEMMA IdleRun == Idle \in ResearchRuns /\ RunFits(Idle) /\ Idle.job = 0
  BY ResearchAssumption DEF Idle, NoUsage, ResearchRuns, RunFits, RunPlaces, Findings

LEMMA NoResultOk == NoResult \in Results /\ NoResult.answer \subseteq NoResult.passages
                    /\ [NoResult EXCEPT !.warned = TRUE] \in Results
                    /\ [NoResult EXCEPT !.warned = TRUE].passages = {} /\ [NoResult EXCEPT !.warned = TRUE].answer = {}
  BY DEF NoResult, Results, Findings

LEMMA ResearchStarts == ResearchInit => ResearchInv
<1> SUFFICES ASSUME ResearchInit PROVE ResearchInv OBVIOUS
<1>1. ResearchShape BY IdleRun DEF ResearchInit, ResearchShape, NoLease
<1>2. AnswersAreFounded /\ RunningJobRuns BY IdleRun DEF ResearchInit, AnswersAreFounded, RunningJobRuns
<1> QED BY <1>1, <1>2, IdleRun DEF ResearchInit, ResearchInv

(* What taking one element out of a sequence leaves.                        *)
LEMMA RemoveAtLeaves ==
  ASSUME NEW S, NEW s \in Seq(S), NEW i \in 1 .. Len(s)
  PROVE  /\ RemoveAt(s, i) \in Seq(S) /\ Len(RemoveAt(s, i)) = Len(s) - 1
         /\ \A k \in 1 .. (Len(s) - 1) : RemoveAt(s, i)[k] = IF k < i THEN s[k] ELSE s[k + 1]
<1> DEFINE n == Len(s)
           a == SubSeq(s, 1, i - 1)
           b == SubSeq(s, i + 1, n)
<1>1. n \in Nat /\ i \in Nat /\ 1 <= i /\ i <= n OBVIOUS
<1>2. a \in Seq(S) /\ Len(a) = i - 1 /\ \A k \in 1 .. (i - 1) : a[k] = s[k] BY <1>1
<1>3. b \in Seq(S) /\ Len(b) = n - i /\ \A k \in 1 .. (n - i) : b[k] = s[i + k] BY <1>1
<1>4. RemoveAt(s, i) = a \o b BY DEF RemoveAt
<1>5. n = Len(s) OBVIOUS
<1> HIDE DEF a, b, n
<1>6. /\ a \o b \in Seq(S) /\ Len(a \o b) = Len(a) + Len(b)
      /\ \A k \in 1 .. (Len(a) + Len(b)) : (a \o b)[k] = IF k <= Len(a) THEN a[k] ELSE b[k - Len(a)]
  BY <1>2, <1>3, ConcatProperties
<1>7. Len(a) + Len(b) = n - 1 BY <1>1, <1>2, <1>3
<1>8. ASSUME NEW k \in 1 .. (n - 1) PROVE (a \o b)[k] = IF k < i THEN s[k] ELSE s[k + 1]
  <2>0. k \in Nat /\ 1 <= k /\ k <= n - 1 BY <1>1
  <2>1. CASE k < i
    <3>1. k <= Len(a) /\ k \in 1 .. (i - 1) BY <1>1, <1>2, <2>0, <2>1
    <3> QED BY <1>2, <1>6, <1>7, <2>1, <3>1
  <2>2. CASE ~(k < i)
    <3>1. ~(k <= Len(a)) /\ k - Len(a) \in 1 .. (n - i) /\ i + (k - Len(a)) = k + 1 BY <1>1, <1>2, <2>0, <2>2
    <3>2. (a \o b)[k] = b[k - Len(a)] BY <1>6, <1>7, <3>1
    <3>3. b[k - Len(a)] = s[i + (k - Len(a))] BY <1>3, <3>1
    <3> QED BY <2>2, <3>1, <3>2, <3>3
  <2> QED BY <2>1, <2>2
<1> QED BY <1>4, <1>5, <1>6, <1>7, <1>8

(* A set of numbers that is not empty has a smallest one.                   *)
LEMMA SmallestIn == ASSUME NEW T, T \subseteq Nat, T # {} PROVE \E x \in T : \A y \in T : x <= y
<1>1. PICK R : IsWellFoundedOn(R, Nat) /\ \A x, y \in Nat : x < y => <<x, y>> \in R
  <2>1. \A x, y \in Nat : x < y => <<x, y>> \in OpToRel(<, Nat) BY DEF OpToRel
  <2> QED BY <2>1, NatLessThanWellFounded, Zenon
<1>2. IsWellFoundedOn(R, Nat) BY <1>1
<1>3. PICK x \in T : \A y \in T : ~ (<<y, x>> \in R) BY <1>2, WFMin, Zenon
<1>4. ASSUME NEW y \in T PROVE x <= y
  <2>1. x \in Nat /\ y \in Nat OBVIOUS
  <2>2. ~(y < x) BY <1>1, <1>3, <2>1
  <2> QED BY <2>1, <2>2
<1> QED BY <1>4

(* A new job is recorded: the oldest settled one may go, the new one stays. *)
LEMMA TrimKeeps ==
  ASSUME NEW js \in Seq(ResearchJobs), NEW job \in ResearchJobs, job.status = "running",
         \A i \in DOMAIN js : js[i].status # "running" /\ js[i].result.answer \subseteq js[i].result.passages,
         job.result.answer \subseteq job.result.passages,
         NEW out, out = Trimmed(Append(js, job))
  PROVE  /\ out \in Seq(ResearchJobs) /\ out # <<>> /\ out[Len(out)] = job
         /\ \A i \in DOMAIN out : out[i].status = "running" => out[i] = job
         /\ \A i \in DOMAIN out : out[i].result.answer \subseteq out[i].result.passages
<1>1. PICK all : all = Append(js, job) OBVIOUS
<1>2. /\ all \in Seq(ResearchJobs) /\ Len(all) = Len(js) + 1 /\ all[Len(js) + 1] = job
      /\ \A i \in 1 .. Len(js) : all[i] = js[i]
      /\ Len(js) \in Nat /\ DOMAIN js = 1 .. Len(js) /\ DOMAIN all = 1 .. Len(all)
  BY <1>1
<1>3. \A i \in DOMAIN all : (all[i].status = "running" => all[i] = job) /\ all[i].result.answer \subseteq all[i].result.passages
  BY <1>2
<1>4. \A i \in Settled(all) : i \in 1 .. Len(js) BY <1>2 DEF Settled
<1>5. out = all \/ \E i \in Settled(all) : out = RemoveAt(all, i)
  <2>1. CASE ~(Len(all) > MaxJobs /\ Settled(all) # {}) BY <1>1, <2>1 DEF Trimmed
  <2>2. CASE Len(all) > MaxJobs /\ Settled(all) # {}
    <3>1. Settled(all) \subseteq Nat BY <1>4
    <3>2. \E i \in Settled(all) : \A k \in Settled(all) : i <= k BY <2>2, <3>1, SmallestIn
    <3>3. (CHOOSE i \in Settled(all) : \A k \in Settled(all) : i <= k) \in Settled(all) BY <3>2
    <3> QED BY <1>1, <2>2, <3>3 DEF Trimmed
  <2> QED BY <2>1, <2>2
<1>6. CASE out = all
  <2>1. all # <<>> /\ all[Len(all)] = job BY <1>2
  <2> QED BY <1>2, <1>3, <1>6, <2>1
<1>7. ASSUME NEW i \in Settled(all), out = RemoveAt(all, i)
      PROVE  /\ out \in Seq(ResearchJobs) /\ out # <<>> /\ out[Len(out)] = job
             /\ \A k \in DOMAIN out : out[k].status = "running" => out[k] = job
             /\ \A k \in DOMAIN out : out[k].result.answer \subseteq out[k].result.passages
  <2>1. i \in 1 .. Len(js) /\ i \in 1 .. Len(all) /\ Len(all) - 1 = Len(js) BY <1>2, <1>4
  <2>2. /\ out \in Seq(ResearchJobs) /\ Len(out) = Len(js)
        /\ \A k \in 1 .. Len(js) : out[k] = IF k < i THEN all[k] ELSE all[k + 1]
    <3>1. /\ out \in Seq(ResearchJobs) /\ Len(out) = Len(all) - 1
          /\ \A k \in 1 .. (Len(all) - 1) : out[k] = IF k < i THEN all[k] ELSE all[k + 1]
      <4>1. all \in Seq(ResearchJobs) /\ i \in 1 .. Len(all) BY <1>2, <2>1
      <4> QED BY ONLY <1>7, <4>1, RemoveAtLeaves
    <3> QED BY <2>1, <3>1
  <2>3. Len(js) \in 1 .. Len(js) /\ ~(Len(js) < i) BY <1>2, <2>1
  <2>4. out # <<>> /\ out[Len(out)] = job BY <1>2, <2>2, <2>3
  <2>5. ASSUME NEW k \in DOMAIN out
        PROVE  (out[k].status = "running" => out[k] = job) /\ out[k].result.answer \subseteq out[k].result.passages
    <3>1. k \in 1 .. Len(js) BY <2>2
    <3>2. k \in DOMAIN all /\ k + 1 \in DOMAIN all BY <1>2, <3>1
    <3> QED BY <1>3, <2>2, <3>1, <3>2
  <2> QED BY <2>2, <2>4, <2>5
<1> QED BY <1>5, <1>6, <1>7

(* One step of a run that goes on.                                          *)
LEMMA RunGoesOn ==
  ASSUME ResearchInv, NEW r, RunStep(r), r \in ResearchRuns, RunFits(r), r.job = run.job
  PROVE  ResearchInv' /\ given' \subseteq granted
<1>1. UNCHANGED <<granted, researcherOk, lease, searchGate, modelBusy, jobs, nextJob, revocations>> /\ run' = r /\ given' = {}
  BY DEF RunStep, Nobody
<1>2. RunningJobRuns' BY <1>1 DEF ResearchInv, RunningJobRuns
<1> QED BY <1>1, <1>2 DEF ResearchInv, ResearchShape, AnswersAreFounded

(* A run that ends, with what it hands its job.                             *)
LEMMA RunIsOver ==
  ASSUME ResearchInv, NEW status \in {"finished", "failed", "cancelled"}, NEW result \in Results,
         result.answer \subseteq result.passages, EndRun(status, result)
  PROVE  ResearchInv'
<1> DEFINE js == JobFinished(jobs, run.job, status, result)
<1>1. /\ run' = Idle /\ lease' = NoLease /\ searchGate' \in {0, searchGate}
      /\ jobs' = IF run.job # 0 THEN js ELSE jobs
      /\ UNCHANGED <<granted, researcherOk, modelBusy, nextJob, revocations>>
  BY DEF EndRun, Outcome
<1>2. jobs \in Seq(ResearchJobs) BY DEF ResearchInv, ResearchShape
<1>3. /\ js \in Seq(ResearchJobs) /\ DOMAIN js = DOMAIN jobs
      /\ \A i \in DOMAIN jobs : js[i] = IF jobs[i].id = run.job THEN [jobs[i] EXCEPT !.status = status, !.result = result] ELSE jobs[i]
  <2>0. Len(jobs) \in Nat /\ DOMAIN jobs = 1 .. Len(jobs) BY <1>2
  <2>1. \A i \in DOMAIN jobs : jobs[i] \in ResearchJobs BY <1>2
  <2>2. \A i \in DOMAIN jobs : [jobs[i] EXCEPT !.status = status, !.result = result] \in ResearchJobs
    BY <2>1 DEF ResearchJobs
  <2>3. js = [i \in 1 .. Len(jobs) |-> IF jobs[i].id = run.job THEN [jobs[i] EXCEPT !.status = status, !.result = result] ELSE jobs[i]]
    BY <2>0 DEF JobFinished
  <2>4. js \in [1 .. Len(jobs) -> ResearchJobs]
    <3> HIDE DEF js
    <3> QED BY <2>0, <2>1, <2>2, <2>3, Zenon
  <2> HIDE DEF js
  <2>5. js \in Seq(ResearchJobs) BY <2>0, <2>4, SeqDef
  <2> QED BY <2>0, <2>3, <2>5
<1> HIDE DEF js
<1>4. \A i \in DOMAIN jobs : jobs[i] \in ResearchJobs BY <1>2
<1>5. ASSUME NEW i \in DOMAIN js PROVE js[i].status # "running" /\ js[i].result.answer \subseteq js[i].result.passages
  <2>1. i \in DOMAIN jobs /\ jobs[i] \in ResearchJobs BY <1>3, <1>4
  <2>2. CASE jobs[i].id = run.job
    <3>1. js[i] = [jobs[i] EXCEPT !.status = status, !.result = result] BY <1>3, <2>1, <2>2
    <3>2. js[i].status = status /\ js[i].result = result BY <2>1, <3>1 DEF ResearchJobs
    <3> QED BY <3>2
  <2>3. CASE jobs[i].id # run.job
    BY <1>3, <2>1, <2>3 DEF ResearchInv, RunningJobRuns, AnswersAreFounded
  <2> QED BY <2>2, <2>3
<1>6. \A i \in DOMAIN jobs' : jobs'[i].status # "running" /\ jobs'[i].result.answer \subseteq jobs'[i].result.passages
  <2>1. CASE run.job # 0 BY <1>1, <1>5, <2>1
  <2>2. CASE run.job = 0
    <3>1. \A i \in DOMAIN jobs : jobs[i].status # "running"
      <4>1. \A i \in DOMAIN jobs : jobs[i].id # 0 BY <1>4 DEF ResearchJobs
      <4> QED BY <2>2, <4>1 DEF ResearchInv, RunningJobRuns
    <3> QED BY <1>1, <2>2, <3>1 DEF ResearchInv, AnswersAreFounded
  <2> QED BY <2>1, <2>2
<1>7. jobs' \in Seq(ResearchJobs) BY <1>1, <1>2, <1>3
<1>8. ResearchShape' BY <1>1, <1>7, IdleRun DEF ResearchInv, ResearchShape, NoLease
<1>9. AnswersAreFounded' /\ RunningJobRuns' BY <1>1, <1>6, IdleRun DEF AnswersAreFounded, RunningJobRuns
<1> QED BY <1>1, <1>8, <1>9, IdleRun DEF ResearchInv

(* The states of a run that its steps lead to.                              *)
LEMMA RunType ==
  ASSUME NEW r \in ResearchRuns
  PROVE  /\ r.round \in 0 .. Rounds /\ r.queries \in 1 .. (Subqueries + 1) /\ r.evidence \in Findings /\ r.answer \in Findings
         /\ r.usage.total \in Nat /\ r.usage.last \in Nat /\ r.pc \in RunPlaces /\ r.job \in Nat
         /\ r.asked \in Findings /\ r.usage \in [total : Nat, last : Nat] /\ r.warned \in BOOLEAN
  BY DEF ResearchRuns

LEMMA MovesTo ==
  ASSUME NEW r \in ResearchRuns, RunFits(r), NEW to \in RunPlaces \ {"idle", "plan", "planning", "answering"},
         r.pc # "conclude" \/ to = "conclude", NEW w \in BOOLEAN, NEW b \in BOOLEAN, NEW out,
         \/ out = [r EXCEPT !.pc = to] \/ out = [r EXCEPT !.pc = to, !.warned = w] \/ out = [r EXCEPT !.pc = to, !.blocking = b]
         \/ out = [[r EXCEPT !.warned = w] EXCEPT !.pc = to]
  PROVE  out \in ResearchRuns /\ RunFits(out) /\ out.job = r.job
<1>1. out \in ResearchRuns BY DEF ResearchRuns
<1>2. out.pc = to /\ out.job = r.job /\ out.answer = r.answer /\ out.evidence = r.evidence /\ out.usage = r.usage
  BY DEF ResearchRuns
<1>3. RunFits(out) BY <1>2 DEF RunFits
<1> QED BY <1>1, <1>2, <1>3

LEMMA ConcludedRun ==
  ASSUME NEW r \in ResearchRuns, RunFits(r), NEW out, out = Conclude([r EXCEPT !.warned = TRUE])
  PROVE  out \in ResearchRuns /\ RunFits(out) /\ out.job = r.job
<1>1. out \in ResearchRuns BY DEF ResearchRuns, Conclude, RunPlaces
<1>2. out.pc = "conclude" /\ out.job = r.job /\ out.answer = r.answer /\ out.evidence = r.evidence /\ out.usage = r.usage
  BY DEF ResearchRuns, Conclude
<1>3. RunFits(out) BY <1>2 DEF RunFits
<1> QED BY <1>1, <1>2, <1>3

LEMMA FailedRun ==
  ASSUME NEW r \in ResearchRuns, RunFits(r)
  PROVE  ResearchFailed(r) \in ResearchRuns /\ RunFits(ResearchFailed(r)) /\ ResearchFailed(r).job = r.job
  BY DEF ResearchFailed, Conclude, ResearchRuns, RunFits, RunPlaces, Findings

LEMMA NextRoundRun ==
  ASSUME NEW r \in ResearchRuns, RunFits(r), r.round < Rounds, r.pc # "conclude"
  PROVE  NextRound(r) \in ResearchRuns /\ RunFits(NextRound(r)) /\ NextRound(r).job = r.job
<1>1. Rounds \in Nat /\ r.round \in 0 .. Rounds BY ResearchAssumption DEF ResearchRuns
<1>2. r.round + 1 \in 0 .. Rounds BY <1>1
<1>3. NextRound(r) = [r EXCEPT !.pc = "lookup", !.round = r.round + 1] BY DEF NextRound
<1> QED BY <1>2, <1>3 DEF ResearchRuns, RunFits, RunPlaces

(* A call is reserved only where its cap fits, and then it is answered with *)
(* no more than that.                                                       *)
LEMMA ReservedRun ==
  ASSUME NEW r \in ResearchRuns, RunFits(r), NEW cap \in Nat, Fits(r, cap), NEW out, out = Reserved(r, cap)
  PROVE  /\ out \in ResearchRuns /\ out.usage.last = PromptSize + cap /\ out.usage.last <= out.usage.total
         /\ out.usage.total <= TotalBudget /\ out.job = r.job /\ out.round = r.round /\ out.answer = r.answer
         /\ out.evidence = r.evidence /\ out.pc = r.pc /\ out.queries = r.queries
<1>1. PromptSize \in Nat /\ r.usage.total \in Nat /\ r.usage.last \in Nat BY ResearchAssumption, RunType
<1>2. out = [r EXCEPT !.usage = [total |-> r.usage.total + PromptSize + cap, last |-> PromptSize + cap]] BY DEF Reserved
<1>3. r.usage.total + PromptSize + cap \in Nat /\ PromptSize + cap \in Nat BY <1>1
<1>4. r.usage.total + PromptSize + cap <= TotalBudget BY DEF Fits, SpentTokens
<1>5. PromptSize + cap <= r.usage.total + PromptSize + cap BY <1>1
<1>6. out \in ResearchRuns BY <1>2, <1>3 DEF ResearchRuns
<1>7. /\ out.usage = [total |-> r.usage.total + PromptSize + cap, last |-> PromptSize + cap]
      /\ out.job = r.job /\ out.round = r.round /\ out.answer = r.answer
      /\ out.evidence = r.evidence /\ out.pc = r.pc /\ out.queries = r.queries
  BY <1>2 DEF ResearchRuns
<1> QED BY <1>4, <1>5, <1>6, <1>7

LEMMA ReportedRun ==
  ASSUME NEW r \in ResearchRuns, RunFits(r), NEW cap \in Nat, NEW n \in Usages(cap), r.usage.last = PromptSize + cap,
         NEW out, out = Reported(r, n)
  PROVE  /\ out \in ResearchRuns /\ out.usage.last <= out.usage.total
         /\ out.usage.total <= TotalBudget /\ out.job = r.job /\ out.round = r.round /\ out.answer = r.answer
         /\ out.evidence = r.evidence /\ out.pc = r.pc /\ out.queries = r.queries
<1>1. PromptSize \in Nat /\ TotalBudget \in Nat /\ r.usage.total \in Nat /\ r.usage.last \in Nat BY ResearchAssumption, RunType
<1>2. n \in Nat /\ n <= r.usage.last BY <1>1 DEF Usages
<1>3. r.usage.last <= r.usage.total /\ r.usage.total <= TotalBudget BY DEF RunFits
<1>4. out = [r EXCEPT !.usage = [total |-> (r.usage.total - r.usage.last) + n, last |-> n]] BY DEF Reported
<1>5. (r.usage.total - r.usage.last) + n \in Nat /\ n <= (r.usage.total - r.usage.last) + n
      /\ (r.usage.total - r.usage.last) + n <= TotalBudget
  BY <1>1, <1>2, <1>3
<1>6. out \in ResearchRuns BY <1>2, <1>4, <1>5 DEF ResearchRuns
<1>7. /\ out.usage = [total |-> (r.usage.total - r.usage.last) + n, last |-> n]
      /\ out.job = r.job /\ out.round = r.round /\ out.answer = r.answer
      /\ out.evidence = r.evidence /\ out.pc = r.pc /\ out.queries = r.queries
  BY <1>4 DEF ResearchRuns
<1> QED BY <1>5, <1>6, <1>7

LEMMA StartRunStep ==
  ASSUME ResearchInv, NEW o \in Researchers, NEW detached \in BOOLEAN, StartRun(o, detached)
  PROVE  ResearchInv' /\ given' \subseteq granted
<1> DEFINE id == nextJob + 1
           r == [Idle EXCEPT !.pc = "load", !.owner = o, !.job = IF detached THEN id ELSE 0]
<1>1. /\ run.pc = "idle" /\ nextJob' = id /\ searchGate' = 1 /\ run' = r /\ given' = {}
      /\ lease' = [owner |-> o, cancelled |-> FALSE]
      /\ jobs' = IF detached THEN Trimmed(Append(jobs, Job(id, o))) ELSE jobs
      /\ UNCHANGED <<granted, researcherOk, modelBusy, revocations>>
  BY DEF StartRun, TakeLease, Nobody
<1>2. id \in Nat /\ id # 0 BY DEF ResearchInv, ResearchShape
<1> HIDE DEF id
<1>3. r \in ResearchRuns /\ RunFits(r) /\ r.job = IF detached THEN id ELSE 0
  <2>1. PICK j \in Nat : j = IF detached THEN id ELSE 0 BY <1>2
  <2>2. Idle \in ResearchRuns /\ RunFits(Idle) /\ Idle.usage = NoUsage /\ Idle.answer = {} BY IdleRun DEF Idle
  <2>3. r \in ResearchRuns BY <2>1, <2>2 DEF ResearchRuns, RunPlaces
  <2>4. r.pc = "load" /\ r.job = j /\ r.answer = {} /\ r.usage = NoUsage BY <2>1, <2>2 DEF ResearchRuns
  <2> QED BY <2>1, <2>2, <2>3, <2>4, ResearchAssumption DEF RunFits, NoUsage
<1>4. Job(id, o) \in ResearchJobs /\ Job(id, o).status = "running" /\ Job(id, o).id = id
      /\ Job(id, o).result.answer \subseteq Job(id, o).result.passages
  BY <1>2, NoResultOk DEF Job, ResearchJobs
<1>5. jobs \in Seq(ResearchJobs) /\ run.job = 0 BY <1>1 DEF ResearchInv, ResearchShape, RunFits
<1>6. \A i \in DOMAIN jobs : jobs[i].status # "running" /\ jobs[i].result.answer \subseteq jobs[i].result.passages
  <2>1. \A i \in DOMAIN jobs : jobs[i].id # 0
    <3>1. \A i \in DOMAIN jobs : jobs[i] \in ResearchJobs BY <1>5
    <3> QED BY <3>1 DEF ResearchJobs
  <2> QED BY <1>5, <2>1 DEF ResearchInv, RunningJobRuns, AnswersAreFounded
<1> HIDE DEF r
<1>7. CASE detached
  <2>1. /\ jobs' \in Seq(ResearchJobs) /\ jobs' # <<>> /\ jobs'[Len(jobs')] = Job(id, o)
        /\ \A i \in DOMAIN jobs' : jobs'[i].status = "running" => jobs'[i] = Job(id, o)
        /\ \A i \in DOMAIN jobs' : jobs'[i].result.answer \subseteq jobs'[i].result.passages
    <3>1. jobs' = Trimmed(Append(jobs, Job(id, o))) BY <1>1, <1>7
    <3> QED BY ONLY <1>4, <1>5, <1>6, <3>1, TrimKeeps
  <2>2. Len(jobs') \in DOMAIN jobs' BY <2>1
  <2>3. ResearchShape' BY <1>1, <1>2, <1>3, <2>1 DEF ResearchInv, ResearchShape
  <2>4. AnswersAreFounded' BY <2>1 DEF AnswersAreFounded
  <2>5. RunningJobRuns' BY <1>1, <1>3, <1>4, <1>7, <2>1, <2>2 DEF RunningJobRuns
  <2> QED BY <1>1, <1>3, <2>3, <2>4, <2>5 DEF ResearchInv
<1>8. CASE ~detached
  <2>1. jobs' = jobs BY <1>1, <1>8
  <2>2. ResearchShape' BY <1>1, <1>2, <1>3, <2>1 DEF ResearchInv, ResearchShape
  <2>3. AnswersAreFounded' /\ RunningJobRuns' BY <1>1, <1>3, <1>6, <1>8, <2>1 DEF AnswersAreFounded, RunningJobRuns
  <2> QED BY <1>1, <1>3, <2>2, <2>3 DEF ResearchInv
<1> QED BY <1>7, <1>8

LEMMA RunStepsStep == ASSUME ResearchInv, RunSteps PROVE ResearchInv' /\ given' \subseteq granted
<1>1. run \in ResearchRuns /\ RunFits(run) /\ run.pc \in RunPlaces BY RunType DEF ResearchInv, ResearchShape
<1>2. PlanCap \in Nat /\ AnswerCap \in Nat /\ PromptSize \in Nat /\ Rounds \in Nat /\ Subqueries \in Nat BY ResearchAssumption
<1>3. ASSUME NEW status \in {"finished", "failed", "cancelled"}, EndRun(status, NoResult), Nobody
      PROVE  ResearchInv' /\ given' \subseteq granted
  BY <1>3, NoResultOk, RunIsOver DEF Nobody
<1>4. ASSUME NEW r, RunStep(r), r \in ResearchRuns, RunFits(r), r.job = run.job PROVE ResearchInv' /\ given' \subseteq granted
  BY <1>4, RunGoesOn
<1>5. CASE LoadResearchModel \/ LoadFails
  <2>1. CASE RunStep([run EXCEPT !.pc = "discover"]) /\ run.pc = "load"
    <3>1. "discover" \in RunPlaces \ {"idle", "plan", "planning", "answering"} BY DEF RunPlaces
    <3> QED BY <1>1, <1>4, <2>1, <3>1, MovesTo
  <2> QED BY <1>3, <1>5, <2>1 DEF LoadResearchModel, LoadFails
<1>6. CASE Discover
  <2>1. "lookup" \in RunPlaces \ {"idle", "plan", "planning", "answering"} BY DEF RunPlaces
  <2>2. [run EXCEPT !.pc = "lookup"] \in ResearchRuns /\ RunFits([run EXCEPT !.pc = "lookup"]) /\ [run EXCEPT !.pc = "lookup"].job = run.job
    BY <1>1, <1>6, <2>1, MovesTo DEF Discover
  <2> QED BY <1>1, <1>4, <1>6, <2>2, FailedRun DEF Discover
<1>7. CASE BeginLookup
  <2>1. RunStep([run EXCEPT !.pc = "ranking", !.blocking = TRUE]) BY <1>7 DEF BeginLookup, RunStep
  <2>2. "ranking" \in RunPlaces \ {"idle", "plan", "planning", "answering"} BY DEF RunPlaces
  <2> QED BY <1>1, <1>4, <1>7, <2>1, <2>2, MovesTo DEF BeginLookup
<1>8. CASE PlanSearch
  <2>1. run.pc = "plan" /\ run.round < Rounds BY <1>1, <1>8 DEF PlanSearch, RunFits
  <2>2. NextRound(run) \in ResearchRuns /\ RunFits(NextRound(run)) /\ NextRound(run).job = run.job
    BY <1>1, <2>1, NextRoundRun
  <2>3. LET out == [run EXCEPT !.pc = "synthesize", !.warned = TRUE] IN out \in ResearchRuns /\ RunFits(out) /\ out.job = run.job
    <3>1. "synthesize" \in RunPlaces \ {"idle", "plan", "planning", "answering"} BY DEF RunPlaces
    <3> QED BY <1>1, <2>1, <3>1, MovesTo
  <2>4. ASSUME Fits(run, PlanCap), NEW r, r = [Reserved(run, PlanCap) EXCEPT !.pc = "planning", !.asked = run.evidence]
        PROVE  r \in ResearchRuns /\ RunFits(r) /\ r.job = run.job
    <3>1. PICK s : s = Reserved(run, PlanCap) OBVIOUS
    <3>2. /\ s \in ResearchRuns /\ s.usage.last = PromptSize + PlanCap /\ s.usage.last <= s.usage.total
          /\ s.usage.total <= TotalBudget /\ s.job = run.job /\ s.round = run.round /\ s.answer = run.answer
          /\ s.evidence = run.evidence
      <4>1. Fits(run, PlanCap) BY <2>4
      <4> QED BY ONLY <1>1, <1>2, <3>1, <4>1, ReservedRun
    <3>3. r = [s EXCEPT !.pc = "planning", !.asked = run.evidence] /\ run.evidence \in Findings BY <1>1, <2>4, <3>1, RunType
    <3>4. r \in ResearchRuns /\ r.pc = "planning" /\ r.job = s.job /\ r.round = s.round /\ r.answer = s.answer
          /\ r.evidence = s.evidence /\ r.usage = s.usage
      BY <3>2, <3>3 DEF ResearchRuns, RunPlaces
    <3>5. run.answer = {} BY <1>1, <2>1 DEF RunFits
    <3> QED BY <2>1, <3>2, <3>4, <3>5 DEF RunFits
  <2> QED BY <1>1, <1>4, <1>8, <2>2, <2>3, <2>4, FailedRun DEF PlanSearch
<1>9. CASE PlanFails
  <2>1. run.pc = "planning" /\ run.round < Rounds BY <1>1, <1>9 DEF PlanFails, RunFits
  <2>2. PICK s : s = NextRound(run) OBVIOUS
  <2>3. s \in ResearchRuns /\ RunFits(s) /\ s.job = run.job BY <1>1, <2>1, <2>2, NextRoundRun
  <2>4. PICK r : r = [s EXCEPT !.warned = TRUE] OBVIOUS
  <2>5. r \in ResearchRuns /\ r.pc = s.pc /\ r.job = s.job /\ r.round = s.round /\ r.answer = s.answer
        /\ r.evidence = s.evidence /\ r.usage = s.usage
    BY <2>3, <2>4 DEF ResearchRuns
  <2>6. RunFits(r) BY <2>3, <2>5 DEF RunFits
  <2>7. RunStep(r) BY <1>9, <2>2, <2>4 DEF PlanFails
  <2> QED BY <1>4, <2>3, <2>5, <2>6, <2>7
<1>10. CASE Synthesize
  <2>1. run.pc = "synthesize" BY <1>10 DEF Synthesize
  <2>2. LET out == Conclude([run EXCEPT !.warned = TRUE]) IN out \in ResearchRuns /\ RunFits(out) /\ out.job = run.job
    BY <1>1, ConcludedRun
  <2>3. ASSUME Fits(run, AnswerCap), NEW kept \in SUBSET run.evidence, NEW r,
               r = [Reserved(run, AnswerCap) EXCEPT !.pc = "answering", !.evidence = kept]
        PROVE  r \in ResearchRuns /\ RunFits(r) /\ r.job = run.job
    <3>1. PICK s : s = Reserved(run, AnswerCap) OBVIOUS
    <3>2. /\ s \in ResearchRuns /\ s.usage.last = PromptSize + AnswerCap /\ s.usage.last <= s.usage.total
          /\ s.usage.total <= TotalBudget /\ s.job = run.job /\ s.round = run.round /\ s.answer = run.answer
          /\ s.evidence = run.evidence
      <4>1. Fits(run, AnswerCap) BY <2>3
      <4> QED BY ONLY <1>1, <1>2, <3>1, <4>1, ReservedRun
    <3>3. r = [s EXCEPT !.pc = "answering", !.evidence = kept] /\ kept \in Findings BY <1>1, <2>3, <3>1, RunType DEF Findings
    <3>4. r \in ResearchRuns /\ r.pc = "answering" /\ r.job = s.job /\ r.answer = s.answer /\ r.usage = s.usage
      BY <3>2, <3>3 DEF ResearchRuns, RunPlaces
    <3>5. run.answer = {} BY <1>1, <2>1 DEF RunFits
    <3> QED BY <3>2, <3>4, <3>5 DEF RunFits
  <2>4. CASE ~AuthorizeEvidence(run.owner, run.evidence) BY <1>1, <1>4, <1>10, <2>4, FailedRun DEF Synthesize
  <2>5. CASE RunStep(Conclude([run EXCEPT !.warned = TRUE])) BY <1>4, <2>2, <2>5
  <2>6. ASSUME Fits(run, AnswerCap), NEW kept \in SUBSET run.evidence,
               RunStep([Reserved(run, AnswerCap) EXCEPT !.pc = "answering", !.evidence = kept])
        PROVE  ResearchInv' /\ given' \subseteq granted
    <3>1. PICK r : r = [Reserved(run, AnswerCap) EXCEPT !.pc = "answering", !.evidence = kept] OBVIOUS
    <3>2. r \in ResearchRuns /\ RunFits(r) /\ r.job = run.job BY <2>3, <2>6, <3>1
    <3> QED BY <1>4, <2>6, <3>1, <3>2
  <2> QED BY <1>10, <2>4, <2>5, <2>6 DEF Synthesize
<1>11. CASE ResearchAnswerFails
  <2>1. LET out == Conclude([run EXCEPT !.warned = TRUE]) IN out \in ResearchRuns /\ RunFits(out) /\ out.job = run.job
    BY <1>1, ConcludedRun
  <2> QED BY <1>4, <1>11, <2>1 DEF ResearchAnswerFails
<1>12. ASSUME NEW found \in SUBSET Sources, EndLookup(found) PROVE ResearchInv' /\ given' \subseteq granted
  <2>1. PICK s : s = [run EXCEPT !.evidence = found, !.blocking = FALSE] OBVIOUS
  <2>2. run.pc = "ranking" /\ run.answer = {} BY <1>1, <1>12 DEF EndLookup, RunFits
  <2>3. s \in ResearchRuns /\ s.job = run.job /\ s.round = run.round /\ s.answer = {} /\ s.usage = run.usage
    BY <1>1, <2>1, <2>2 DEF ResearchRuns, Findings
  <2>4. ASSUME NEW to \in {"synthesize", "plan"}, to = "plan" => s.round < Rounds, NEW r, r = [s EXCEPT !.pc = to]
        PROVE  r \in ResearchRuns /\ RunFits(r) /\ r.job = run.job
    <3>1. r \in ResearchRuns /\ r.pc = to /\ r.job = s.job /\ r.round = s.round /\ r.answer = s.answer /\ r.usage = s.usage
      BY <2>3, <2>4 DEF ResearchRuns, RunPlaces
    <3> QED BY <1>1, <2>3, <2>4, <3>1 DEF RunFits
  <2>5. s.round \in 0 .. Rounds BY <2>3, RunType
  <2>6. s.round >= Rounds \/ s.round < Rounds BY <1>2, <2>5
  <2>7. RunStep(AfterLookup(s)) BY <1>12, <2>1 DEF EndLookup
  <2>8. CASE AfterLookup(s) = [s EXCEPT !.pc = "synthesize"] BY <1>4, <2>4, <2>7, <2>8
  <2>9. CASE AfterLookup(s) = [s EXCEPT !.pc = "plan"] /\ s.round < Rounds BY <1>4, <2>4, <2>7, <2>9
  <2> QED BY <2>6, <2>8, <2>9 DEF AfterLookup
<1>13. ASSUME NEW n \in Usages(PlanCap), run.pc = "planning", NEW s, s = Reported(run, n)
       PROVE  /\ s \in ResearchRuns /\ s.usage.last <= s.usage.total /\ s.usage.total <= TotalBudget /\ s.job = run.job
              /\ s.round = run.round /\ s.answer = {} /\ s.pc = run.pc /\ s.queries = run.queries /\ run.round < Rounds
  BY <1>1, <1>2, <1>13, ReportedRun DEF RunFits
<1>14. ASSUME NEW n \in Usages(PlanCap), PlanInvalid(n) PROVE ResearchInv' /\ given' \subseteq granted
  <2>1. PICK s : s = Reported(run, n) OBVIOUS
  <2>2. /\ s \in ResearchRuns /\ s.usage.last <= s.usage.total /\ s.usage.total <= TotalBudget /\ s.job = run.job
        /\ s.answer = {}
    BY <1>13, <1>14, <2>1 DEF PlanInvalid
  <2>3. PICK r : r = [s EXCEPT !.pc = "synthesize", !.warned = TRUE] OBVIOUS
  <2>4. r \in ResearchRuns /\ r.pc = "synthesize" /\ r.job = s.job /\ r.answer = s.answer /\ r.usage = s.usage
    BY <2>2, <2>3 DEF ResearchRuns, RunPlaces
  <2>5. RunFits(r) BY <2>2, <2>4 DEF RunFits
  <2> QED BY <1>4, <1>14, <2>1, <2>2, <2>3, <2>4, <2>5 DEF PlanInvalid
<1>15. ASSUME NEW n \in Usages(PlanCap), NEW more \in 0 .. 2, PlanReturns(n, more) PROVE ResearchInv' /\ given' \subseteq granted
  <2>1. PICK s : s = Reported(run, n) OBVIOUS
  <2>2. /\ s \in ResearchRuns /\ s.usage.last <= s.usage.total /\ s.usage.total <= TotalBudget /\ s.job = run.job
        /\ s.answer = {} /\ s.round = run.round /\ s.queries = run.queries /\ run.round < Rounds
    BY <1>13, <1>15, <2>1 DEF PlanReturns
  <2>3. s.queries + more \in 1 .. (Subqueries + 1)
    <3>1. run.queries \in 1 .. (Subqueries + 1) BY <1>1, RunType
    <3> QED BY <1>2, <1>15, <2>2, <3>1 DEF PlanReturns
  <2>4. PICK q : q = s.queries + more OBVIOUS
  <2>5. PICK r : r = [s EXCEPT !.queries = q] OBVIOUS
  <2>6. r \in ResearchRuns /\ r.job = s.job /\ r.answer = s.answer /\ r.usage = s.usage /\ r.round = s.round
    BY <2>2, <2>3, <2>4, <2>5 DEF ResearchRuns
  <2>7. PICK out : out = NextRound(r) OBVIOUS
  <2>8. Rounds \in Nat /\ r.round \in 0 .. Rounds BY <1>2, <2>6, RunType
  <2>9. r.round + 1 \in 0 .. Rounds BY <2>2, <2>6, <2>8
  <2>10. out = [r EXCEPT !.pc = "lookup", !.round = r.round + 1] BY <2>7 DEF NextRound
  <2>11. out \in ResearchRuns /\ out.pc = "lookup" /\ out.job = r.job /\ out.answer = r.answer /\ out.usage = r.usage
    BY <2>6, <2>9, <2>10 DEF ResearchRuns, RunPlaces
  <2>12. RunFits(out) BY <2>2, <2>6, <2>11 DEF RunFits
  <2>13. RunStep(out) BY <1>15, <2>1, <2>4, <2>5, <2>7 DEF PlanReturns
  <2> QED BY <1>4, <2>2, <2>6, <2>11, <2>12, <2>13
<1>16. ASSUME NEW n \in Usages(AnswerCap), NEW cited \in SUBSET Sources, AnswerReturns(n, cited)
       PROVE  ResearchInv' /\ given' \subseteq granted
  <2>1. PICK s : s = Reported(run, n) OBVIOUS
  <2>2. run.pc = "answering" /\ cited \subseteq run.evidence BY <1>16 DEF AnswerReturns
  <2>3. /\ s \in ResearchRuns /\ s.usage.last <= s.usage.total /\ s.usage.total <= TotalBudget /\ s.job = run.job
        /\ s.evidence = run.evidence
    BY <1>1, <1>2, <2>1, <2>2, ReportedRun DEF RunFits
  <2>4. PICK r : r = Conclude([s EXCEPT !.answer = cited]) OBVIOUS
  <2>5. r \in ResearchRuns /\ r.pc = "conclude" /\ r.job = s.job /\ r.answer = cited /\ r.usage = s.usage /\ r.evidence = s.evidence
    BY <2>3, <2>4 DEF ResearchRuns, RunPlaces, Conclude, Findings
  <2>6. RunFits(r) BY <2>2, <2>3, <2>5 DEF RunFits
  <2> QED BY <1>4, <1>16, <2>1, <2>3, <2>4, <2>5, <2>6 DEF AnswerReturns
<1>17. CASE Stopped BY <1>1, <1>4, <1>17, FailedRun DEF Stopped
<1>18. CASE Abandoned BY <1>3, <1>18 DEF Abandoned
<1>19. CASE ConcludeRun
  <2>1. PICK result : result = Delivered(run) OBVIOUS
  <2>2. /\ result \in Results /\ result.answer \subseteq result.passages
        /\ result.passages \subseteq granted
    <3>1. run.evidence \in Findings /\ run.answer \in Findings /\ run.asked \in Findings /\ run.warned \in BOOLEAN
          /\ run.answer \subseteq run.evidence
      BY <1>1, RunType DEF RunFits
    <3>2. CASE AuthorizeEvidence(run.owner, run.evidence)
      BY <2>1, <3>1, <3>2 DEF Delivered, AuthorizeEvidence, Results
    <3>3. CASE ~AuthorizeEvidence(run.owner, run.evidence)
      BY <2>1, <3>3, NoResultOk DEF Delivered
    <3> QED BY <3>2, <3>3
  <2>3. PICK status \in {"finished", "failed", "cancelled"} : EndRun(status, result)
    BY <1>19, <2>1 DEF ConcludeRun
  <2>4. ResearchInv' BY <2>2, <2>3, RunIsOver
  <2>5. given' \subseteq granted BY <1>19, <2>1, <2>2 DEF ConcludeRun
  <2> QED BY <2>4, <2>5
<1> QED
  BY <1>5, <1>6, <1>7, <1>8, <1>9, <1>10, <1>11, <1>12, <1>14, <1>15, <1>16, <1>17, <1>18, <1>19 DEF RunSteps

LEMMA ResearchMoves == ResearchInv /\ [ResearchNext]_researchVars => ResearchInv' /\ (given' \subseteq granted \/ UNCHANGED researchVars)
<1> SUFFICES ASSUME ResearchInv, [ResearchNext]_researchVars PROVE ResearchInv' /\ (given' \subseteq granted \/ UNCHANGED researchVars)
  OBVIOUS
<1>1. CASE UNCHANGED researchVars
  BY <1>1 DEF researchVars, ResearchInv, ResearchShape, AnswersAreFounded, RunningJobRuns
<1>2. ASSUME UNCHANGED <<run, jobs, nextJob>>, granted' \subseteq Sources, researcherOk' \subseteq Researchers, searchGate' \in {0, 1},
             lease' \in [owner : Researchers \cup {NoOne}, cancelled : BOOLEAN]
      PROVE  ResearchInv'
  BY <1>2 DEF ResearchInv, ResearchShape, AnswersAreFounded, RunningJobRuns
<1>3. ASSUME NEW o \in Researchers, CancelResearch(o) PROVE ResearchInv' /\ given' \subseteq granted
  <2>1. lease' \in [owner : Researchers \cup {NoOne}, cancelled : BOOLEAN] BY <1>3 DEF CancelResearch, ResearchInv, ResearchShape
  <2> QED BY <1>2, <1>3, <2>1 DEF CancelResearch, Nobody, ResearchInv, ResearchShape
<1>4. ASSUME NEW o \in Researchers, NEW i \in DOMAIN jobs, DeliverJob(o, i) PROVE ResearchInv' /\ given' \subseteq granted
  <2>1. ResearchInv' BY <1>2, <1>4 DEF DeliverJob, ResearchInv, ResearchShape
  <2>2. jobs[i].result.answer \subseteq jobs[i].result.passages BY DEF ResearchInv, AnswersAreFounded
  <2>3. given' \subseteq granted BY <1>4, <2>2 DEF DeliverJob, AuthorizeEvidence
  <2> QED BY <2>1, <2>3
<1>5. CASE OrphanReturns BY <1>2, <1>5 DEF OrphanReturns, Nobody, ResearchInv, ResearchShape
<1>6. CASE ChangeGrant
  <2>1. granted' \subseteq Sources /\ researcherOk' \subseteq Researchers BY <1>6 DEF ChangeGrant, ResearchInv, ResearchShape
  <2> QED BY <1>2, <1>6, <2>1 DEF ChangeGrant, Nobody, ResearchInv, ResearchShape
<1>7. CASE OtherModelWork BY <1>2, <1>7 DEF OtherModelWork, Nobody, ResearchInv, ResearchShape
<1> QED BY <1>1, <1>3, <1>4, <1>5, <1>6, <1>7, StartRunStep, RunStepsStep DEF ResearchNext

LEMMA ResearchPromise == ResearchInv => ResearchTypeOK /\ RunningJobRuns /\ BudgetReserved
<1> SUFFICES ASSUME ResearchInv PROVE ResearchTypeOK /\ BudgetReserved BY DEF ResearchInv
<1>1. run \in ResearchRuns BY DEF ResearchInv, ResearchShape
<1>2. \A i \in DOMAIN jobs : jobs[i] \in ResearchJobs BY DEF ResearchInv, ResearchShape
<1>3. ResearchTypeOK BY <1>1, <1>2, RunType DEF ResearchInv, ResearchShape, ResearchTypeOK, Findings, ResearchJobs
<1>4. BudgetReserved BY DEF ResearchInv, RunFits, BudgetReserved, SpentTokens
<1> QED BY <1>3, <1>4


-----------------------------------------------------------------------------
(* Reads of the web: the policy they are checked against and their bytes.   *)

ReadFields == {"kind", "pc", "owner", "group", "queue", "queued", "url", "robot", "seen", "pages", "requests", "sites", "robots",
               "pinned", "got", "charged", "moved", "late"}
ReadNumbers(r) ==
  /\ DOMAIN r = ReadFields
  /\ r.moved \in Nat /\ r.charged \in Nat /\ r.got \in Nat /\ r.pinned \in Int /\ r.late \in BOOLEAN

(* At each place of a read that counts against a run: what it has moved is  *)
(* charged already or will be by the outcome it waits for, and the next     *)
(* outcome still fits the run's bytes.                                      *)
BytesFit(r) ==
  /\ r.pc \in {"get", "dns", "sent"} => r.moved <= r.charged /\ r.charged + ResponseBytes <= RunBytes
  /\ r.pc \in {"fallback", "fcwait", "fcsent"} =>
       /\ r.kind = "batch" /\ Firecrawl /\ r.pinned >= -1 /\ r.pinned <= ResponseBytes
       /\ r.pinned < 0 => r.moved <= r.charged
       /\ r.pinned >= 0 => r.moved <= r.charged + r.pinned
       /\ r.charged + ResponseBytes <= RunBytes
  /\ r.pc \in {"fcwait", "fcsent"} => r.charged + PinnedCharge(r) + ResponseBytes <= RunBytes
  /\ r.pc = "page" => r.moved <= r.charged + r.got /\ r.charged + r.got <= RunBytes
  /\ r.pc = "cache" => r.moved <= r.charged /\ r.charged <= RunBytes
  /\ r.pc = "next" => r.moved <= r.charged /\ r.moved <= RunBytes /\ (r.late \/ r.charged <= RunBytes)
ReadOk(r) == ReadNumbers(r) /\ (Gated(r.kind) => BytesFit(r))
BytesInv == ReadOk(read)

LEMMA NoReadOk == ReadOk(NoRead) /\ NoRead.kind = "none" /\ NoRead.pc = "idle" /\ NoRead.late = FALSE
                  /\ NoRead.moved = 0 /\ NoRead.charged = 0 /\ NoRead.requests = 0
<1>1. ReadNumbers(NoRead) BY DEF NoRead, ReadNumbers, ReadFields
<1>2. NoRead.kind = "none" BY DEF NoRead
<1> QED BY <1>1, <1>2 DEF NoRead, ReadOk, Gated

LEMMA BytesNat == ResponseBytes \in Nat /\ RunBytes \in Nat /\ ResponseBytes > 0
  BY WebAccessAssumption

LEMMA NumbersKept ==
  ASSUME NEW r, ReadNumbers(r), NEW x
  PROVE  /\ ReadNumbers([r EXCEPT !.pc = x]) /\ ReadNumbers([r EXCEPT !.robots = x]) /\ ReadNumbers([r EXCEPT !.robot = x])
         /\ ReadNumbers([r EXCEPT !.queue = x]) /\ ReadNumbers([r EXCEPT !.queued = x]) /\ ReadNumbers([r EXCEPT !.pages = x])
         /\ ReadNumbers([r EXCEPT !.seen = x]) /\ ReadNumbers([r EXCEPT !.url = x]) /\ ReadNumbers([r EXCEPT !.requests = x])
         /\ ReadNumbers([r EXCEPT !.sites = x])
         /\ x \in Nat => ReadNumbers([r EXCEPT !.moved = x]) /\ ReadNumbers([r EXCEPT !.charged = x]) /\ ReadNumbers([r EXCEPT !.got = x])
         /\ x \in Int => ReadNumbers([r EXCEPT !.pinned = x])
         /\ x \in BOOLEAN => ReadNumbers([r EXCEPT !.late = x])
  BY DEF ReadNumbers, ReadFields

(* What the failure of a read leaves of it.                                 *)
LEMMA FailedFields ==
  ASSUME NEW r, ReadNumbers(r), NEW n \in Nat, r.kind # "fetch", NEW out, out = FetchFailed(r, n)
  PROVE  /\ ReadNumbers(out) /\ out.pc = "next" /\ out.moved = r.moved /\ out.charged = r.charged + n /\ out.late = r.late
         /\ out.kind = r.kind
<1>1. PICK c : c = [r EXCEPT !.charged = r.charged + n] OBVIOUS
<1>2. ReadNumbers(c) /\ c.moved = r.moved /\ c.charged = r.charged + n /\ c.late = r.late /\ c.kind = r.kind
  BY <1>1 DEF ReadNumbers, ReadFields
<1>3. PICK x : out = [c EXCEPT !.pc = "next", !.robots = x, !.robot = FALSE, !.pinned = 0]
  BY <1>1 DEF FetchFailed, Charged
<1> QED BY <1>2, <1>3 DEF ReadNumbers, ReadFields

LEMMA FailedRead ==
  ASSUME NEW r, ReadNumbers(r), NEW n \in Nat,
         Gated(r.kind) => r.moved <= r.charged + n /\ r.moved <= RunBytes /\ (r.late \/ r.charged + n <= RunBytes)
  PROVE  ReadOk(FetchFailed(r, n)) /\ FetchFailed(r, n).pc \in {"idle", "next"}
<1>1. CASE r.kind = "fetch" BY <1>1, NoReadOk DEF FetchFailed
<1>2. CASE r.kind # "fetch"
  <2>1. PICK out : out = FetchFailed(r, n) OBVIOUS
  <2>2. /\ ReadNumbers(out) /\ out.pc = "next" /\ out.moved = r.moved /\ out.charged = r.charged + n /\ out.late = r.late
        /\ out.kind = r.kind
    BY <1>2, <2>1, FailedFields
  <2>3. Gated(out.kind) => BytesFit(out) BY <2>2 DEF BytesFit
  <2> QED BY <2>1, <2>2, <2>3 DEF ReadOk
<1> QED BY <1>1, <1>2

LEMMA ArrivedRead ==
  ASSUME NEW r, ReadNumbers(r), NEW n \in Nat,
         Gated(r.kind) => r.moved <= r.charged + n /\ r.charged + n <= RunBytes
  PROVE  ReadOk(Arrived(r, n)) /\ Arrived(r, n).pc = "page"
<1>1. PICK out : out = Arrived(r, n) OBVIOUS
<1>2. ReadNumbers(out) /\ out.pc = "page" /\ out.moved = r.moved /\ out.charged = r.charged /\ out.got = n /\ out.kind = r.kind
  BY <1>1 DEF ReadNumbers, ReadFields, Arrived
<1>3. Gated(out.kind) => BytesFit(out) BY <1>2 DEF BytesFit
<1> QED BY <1>1, <1>2, <1>3 DEF ReadOk

(* The pinned outcome stands, whatever the second reader added.             *)
LEMMA PinnedRead ==
  ASSUME NEW r, ReadNumbers(r), NEW fb \in Nat,
         Gated(r.kind) =>
           /\ r.pinned >= 0 => r.moved <= r.charged + r.pinned + fb /\ r.charged + r.pinned + fb <= RunBytes
           /\ r.pinned < 0 => r.moved <= r.charged + ResponseBytes + fb /\ r.charged + ResponseBytes + fb <= RunBytes
  PROVE  ReadOk(KeepPinned(r, fb)) /\ KeepPinned(r, fb).pc \in {"idle", "next", "page"}
<1>1. r.moved \in Nat /\ r.charged \in Nat /\ r.pinned \in Int /\ ResponseBytes \in Nat /\ RunBytes \in Nat
  BY BytesNat DEF ReadNumbers
<1>2. CASE r.pinned >= 0
  <2>1. r.pinned + fb \in Nat /\ r.charged + (r.pinned + fb) = r.charged + r.pinned + fb BY <1>1, <1>2
  <2>2. ReadOk(Arrived(r, r.pinned + fb)) /\ Arrived(r, r.pinned + fb).pc = "page" BY <1>2, <2>1, ArrivedRead
  <2> QED BY <1>2, <2>2 DEF KeepPinned
<1>3. CASE ~(r.pinned >= 0)
  <2>1. ResponseBytes + fb \in Nat /\ r.charged + (ResponseBytes + fb) = r.charged + ResponseBytes + fb /\ r.pinned < 0 BY <1>1, <1>3
  <2>2. Gated(r.kind) => r.moved <= RunBytes BY <1>1, <2>1
  <2>3. ReadOk(FetchFailed(r, ResponseBytes + fb)) /\ FetchFailed(r, ResponseBytes + fb).pc \in {"idle", "next"}
    BY <2>1, <2>2, FailedRead
  <2> QED BY <1>3, <2>3 DEF KeepPinned
<1> QED BY <1>2, <1>3

(* A step of a read that keeps its bytes.                                   *)
LEMMA SameBytes ==
  ASSUME NEW r, ReadOk(r), NEW out, ReadNumbers(out), out.kind = r.kind, out.moved = r.moved, out.charged = r.charged,
         out.pinned = r.pinned, out.late = r.late, out.got = r.got,
         \/ out.pc = r.pc \/ out.pc \in {"done", "ranked", "idle"}
         \/ r.pc \in {"get", "dns", "sent"} /\ out.pc \in {"dns", "sent"}
         \/ r.pc = "fcwait" /\ out.pc = "fcsent"
         \/ r.pc = "cache" /\ out.pc = "next"
  PROVE  ReadOk(out)
<1>1. r.moved \in Nat /\ r.charged \in Nat /\ RunBytes \in Nat BY BytesNat DEF ReadOk, ReadNumbers
<1>2. Gated(out.kind) => BytesFit(out) BY <1>1 DEF ReadOk, BytesFit, PinnedCharge
<1> QED BY <1>2 DEF ReadOk

(* The action of RevokedIsUnread.                                           *)
UnreadStep ==
  /\ (read.pc = "dns" /\ read'.pc = "sent") \/ (read.pc = "fcwait" /\ read'.pc = "fcsent")
       => AuthorizeRead(policy, read.url, read.group, read.robot)
  /\ \A u \in shown'.urls : Authorize(policy, u, shown'.group)
ReadGoal == BytesInv' /\ UnreadStep

LEMMA QuietStep ==
  ASSUME NEW r, read' = r, AccessQuiet, ReadOk(r),
         read.pc = "dns" /\ r.pc = "sent" => AuthorizeRead(policy, read.url, read.group, read.robot),
         read.pc = "fcwait" /\ r.pc = "fcsent" => AuthorizeRead(policy, read.url, read.group, read.robot)
  PROVE  ReadGoal
  BY DEF ReadGoal, BytesInv, UnreadStep, AccessQuiet, Nothing

LEMMA StillRead == ASSUME BytesInv, UNCHANGED read, AccessQuiet PROVE ReadGoal
  BY DEF ReadGoal, BytesInv, UnreadStep, AccessQuiet, Nothing

LEMMA PolicyEdits ==
  ASSUME BytesInv,
         \/ \E p \in Patterns : (\E g \in RuleGroups : AllowRule(p, g)) \/ Deny(p) \/ BlockRule(p) \/ Unblock(p)
         \/ \E mode \in {"allow", "deny"} : SetMode(mode)
         \/ BreakFile
  PROVE  ReadGoal
<1>1. UNCHANGED read /\ AccessQuiet BY DEF AllowRule, Deny, BlockRule, Unblock, SetMode, BreakFile, WritePolicy
<1> QED BY <1>1, StillRead

LEMMA StartedStep ==
  ASSUME BytesInv, NEW o, NEW g, NEW us, NEW kind, NEW at, Started(kind, o, g, us, at),
         \/ kind = "fetch" /\ at = "get"
         \/ at = "next"
  PROVE  ReadGoal
<1>1. PICK q, k, u : read' = [NoRead EXCEPT !.kind = kind, !.pc = at, !.owner = o, !.group = g, !.queue = q, !.queued = k, !.url = u]
  BY DEF Started
<1>2. read.pc = "idle" /\ AccessQuiet BY DEF Started
<1>3. ReadNumbers(NoRead) /\ NoRead.moved = 0 /\ NoRead.charged = 0 BY NoReadOk DEF ReadOk
<1>4. ReadNumbers(read') /\ read'.kind = kind /\ read'.pc = at /\ read'.moved = 0 /\ read'.charged = 0
  BY <1>1, <1>3 DEF ReadNumbers, ReadFields
<1>5. Gated(kind) => at = "next" BY DEF Gated
<1>6. ReadOk(read') BY <1>4, <1>5, BytesNat DEF ReadOk, BytesFit
<1> QED BY <1>2, <1>6, QuietStep

LEMMA StartsStep ==
  ASSUME BytesInv,
         \/ \E o \in WebOwners : \E u \in Urls : Fetch(o, u)
         \/ \E o \in WebOwners, g \in ReadGroups :
              (\E us \in Starts : FetchMany(o, g, us) \/ Crawl(o, g, us)) \/ SearchPages(o, g)
  PROVE  ReadGoal
  BY StartedStep DEF Fetch, FetchMany, Crawl, SearchPages

LEMMA RequestedRead ==
  ASSUME NEW r, ReadOk(r), r.pc = "next", ~Spent(r), NEW u, NEW robot, NEW out,
         out = RequestPage(r, u, robot) \/ out = Skip(RequestPage(r, u, robot))
  PROVE  ReadOk(out) /\ out.pc = "get"
<1>1. PICK a : a = RequestPage(r, u, robot) OBVIOUS
<1>2. ReadNumbers(a) /\ a.pc = "get" /\ a.kind = r.kind /\ a.moved = r.moved /\ a.charged = r.charged
  BY <1>1 DEF RequestPage, ReadOk, ReadNumbers, ReadFields
<1>3. ReadNumbers(out) /\ out.pc = "get" /\ out.kind = r.kind /\ out.moved = r.moved /\ out.charged = r.charged
  BY <1>1, <1>2 DEF Skip, ReadNumbers, ReadFields
<1>4. r.charged + ResponseBytes <= RunBytes
  BY BytesNat DEF Spent, ReadOk, ReadNumbers
<1> QED BY <1>3, <1>4 DEF ReadOk, BytesFit

LEMMA NextUrlStep == ASSUME BytesInv, NextUrl PROVE ReadGoal
<1>1. read.pc = "next" /\ ReadOk(read) /\ ReadNumbers(read) BY DEF NextUrl, BytesInv, ReadOk
<1>2. ASSUME NEW r, ReadStep(r), ReadOk(r) PROVE ReadGoal
  BY <1>1, <1>2, QuietStep DEF ReadStep
<1>3. ASSUME NEW x, NEW r, r = [read EXCEPT !.queue = x] \/ r = [read EXCEPT !.robots = x] \/ r = [read EXCEPT !.pc = "done"]
      PROVE  ReadOk(r)
  <2>1. ReadNumbers(r) /\ r.kind = read.kind /\ r.moved = read.moved /\ r.charged = read.charged /\ r.pinned = read.pinned
        /\ r.late = read.late /\ r.got = read.got /\ r.pc \in {read.pc, "done"}
    BY <1>1, <1>3 DEF ReadNumbers, ReadFields
  <2> QED BY <1>1, <2>1, SameBytes
<1>4. CASE EndRead BY <1>2, <1>4, NoReadOk DEF EndRead
<1>5. CASE ReadStep(Skip(read)) BY <1>2, <1>3, <1>5 DEF Skip
<1>6. CASE ReadStep([read EXCEPT !.pc = "done"]) BY <1>2, <1>3, <1>6
<1>7. CASE ReadStep([read EXCEPT !.robots[Origin[Head(read.queue).url]] = "none"])
  <2>1. PICK x : [read EXCEPT !.robots[Origin[Head(read.queue).url]] = "none"] = [read EXCEPT !.robots = x]
    <3>1. [read EXCEPT !.robots[Origin[Head(read.queue).url]] = "none"]
          = [read EXCEPT !.robots = [read.robots EXCEPT ![Origin[Head(read.queue).url]] = "none"]]
      OBVIOUS
    <3> QED BY <3>1
  <2> QED BY <1>2, <1>3, <1>7, <2>1
<1>8. CASE ~Spent(read) /\ ReadStep(RequestPage(read, Head(read.queue).url, TRUE))
  BY <1>1, <1>2, <1>8, RequestedRead
<1>9. CASE ~Spent(read) /\ ReadStep(Skip(RequestPage(read, Head(read.queue).url, FALSE)))
  BY <1>1, <1>2, <1>9, RequestedRead
<1> QED
  <2> DEFINE u == Head(read.queue).url
             page == IF Spent(read) THEN [read EXCEPT !.pc = "done"]
                     ELSE IF read.sites[Origin[u]] >= PerSite THEN Skip(read)
                     ELSE Skip(RequestPage(read, u, FALSE))
  <2>1. CASE ReadStep(page) BY <1>5, <1>6, <1>9, <2>1
  <2>2. ReadStep(page) \/ EndRead \/ ReadStep(Skip(read)) \/ ReadStep([read EXCEPT !.robots[Origin[u]] = "none"])
        \/ (~Spent(read) /\ ReadStep(RequestPage(read, u, TRUE)))
    BY DEF NextUrl
  <2> QED BY <1>4, <1>5, <1>7, <1>8, <2>1, <2>2

(* The fields a read keeps when only its place, and what it saw, change.    *)
LEMMA PlaceChanges ==
  ASSUME NEW r, ReadNumbers(r), NEW at, NEW x, NEW out, out = [r EXCEPT !.pc = at] \/ out = [r EXCEPT !.pc = at, !.seen = x]
  PROVE  ReadNumbers(out) /\ out.pc = at /\ out.kind = r.kind /\ out.moved = r.moved /\ out.charged = r.charged
         /\ out.pinned = r.pinned /\ out.late = r.late /\ out.got = r.got
  BY DEF ReadNumbers, ReadFields

LEMMA PlaceOk ==
  ASSUME NEW r, ReadOk(r), NEW at, NEW x, NEW out, out = [r EXCEPT !.pc = at] \/ out = [r EXCEPT !.pc = at, !.seen = x],
         \/ at \in {"done", "ranked", "idle"}
         \/ r.pc \in {"get", "dns", "sent"} /\ at \in {"dns", "sent"}
         \/ r.pc = "fcwait" /\ at = "fcsent"
  PROVE  ReadOk(out) /\ out.pc = at
<1>1. ReadNumbers(r) BY DEF ReadOk
<1>2. ReadNumbers(out) /\ out.pc = at /\ out.kind = r.kind /\ out.moved = r.moved /\ out.charged = r.charged
      /\ out.pinned = r.pinned /\ out.late = r.late /\ out.got = r.got
  BY <1>1 DEF ReadNumbers, ReadFields
<1>3. Gated(out.kind) => BytesFit(out) BY <1>2 DEF ReadOk, BytesFit, PinnedCharge
<1> QED BY <1>2, <1>3 DEF ReadOk

LEMMA FetchSteps ==
  ASSUME BytesInv, QueueDone \/ BeginGet \/ SendFetch
  PROVE  ReadGoal
<1>1. ReadOk(read) /\ ReadNumbers(read) BY DEF BytesInv, ReadOk
<1>2. CASE QueueDone
  <2>1. PICK r : r = [read EXCEPT !.pc = "done"] OBVIOUS
  <2>2. ReadOk(r) /\ r.pc = "done" BY <1>1, <2>1, PlaceOk
  <2> QED BY <1>2, <2>1, <2>2, QuietStep DEF QueueDone, ReadStep
<1>3. read.pc \in {"get", "dns", "sent"} => ReadOk(ReadFails(read)) /\ ReadFails(read).pc \in {"idle", "next"}
  <2>1. SUFFICES ASSUME read.pc \in {"get", "dns", "sent"}
                 PROVE  Gated(read.kind) => read.moved <= read.charged + ResponseBytes /\ read.moved <= RunBytes
                                            /\ read.charged + ResponseBytes <= RunBytes
    BY <1>1, FailedRead, BytesNat DEF ReadFails
  <2> QED BY <1>1, <2>1, BytesNat DEF ReadOk, ReadNumbers, BytesFit
<1>4. CASE BeginGet
  <2>1. PICK r : r = [read EXCEPT !.pc = "dns", !.seen = policy] OBVIOUS
  <2>0. read.pc = "get" BY <1>4 DEF BeginGet
  <2>2. ReadOk(r) /\ r.pc = "dns"
    <3>1. ReadNumbers(r) /\ r.pc = "dns" /\ r.kind = read.kind /\ r.moved = read.moved /\ r.charged = read.charged
      BY <1>1, <2>1 DEF ReadNumbers, ReadFields
    <3>2. Gated(r.kind) => BytesFit(r) BY <1>1, <2>0, <3>1 DEF ReadOk, BytesFit
    <3> QED BY <3>1, <3>2 DEF ReadOk
  <2>3. CASE ReadStep(r) BY <1>4, <2>2, <2>3, QuietStep DEF ReadStep, BeginGet
  <2>4. CASE ReadStep(ReadFails(read)) BY <1>3, <1>4, <2>4, QuietStep DEF ReadStep, BeginGet
  <2> QED BY <1>4, <2>1, <2>3, <2>4 DEF BeginGet
<1>5. CASE SendFetch
  <2>1. PICK r : r = [read EXCEPT !.pc = "sent"] OBVIOUS
  <2>0. read.pc = "dns" BY <1>5 DEF SendFetch
  <2>2. ReadOk(r) /\ r.pc = "sent" BY <1>1, <2>0, <2>1, PlaceOk
  <2>3. CASE StillAllowed(read) /\ ReadStep(r) BY <1>5, <2>2, <2>3, QuietStep DEF ReadStep, SendFetch, StillAllowed
  <2>4. CASE ReadStep(ReadFails(read)) BY <1>3, <1>5, <2>4, QuietStep DEF ReadStep, SendFetch
  <2> QED BY <1>5, <2>1, <2>3, <2>4 DEF SendFetch
<1> QED BY <1>2, <1>4, <1>5

LEMMA MovedFields ==
  ASSUME NEW r, ReadNumbers(r), NEW n \in Nat, NEW out, out = [r EXCEPT !.moved = @ + n]
  PROVE  /\ ReadNumbers(out) /\ out.moved = r.moved + n /\ out.kind = r.kind /\ out.charged = r.charged /\ out.pinned = r.pinned
         /\ out.late = r.late /\ out.got = r.got /\ out.pc = r.pc
  BY DEF ReadNumbers, ReadFields

LEMMA FallbackFields ==
  ASSUME NEW r, ReadNumbers(r), NEW n \in Int, NEW out, out = [r EXCEPT !.pc = "fallback", !.pinned = n]
  PROVE  ReadNumbers(out) /\ out.pc = "fallback" /\ out.moved = r.moved /\ out.kind = r.kind /\ out.charged = r.charged /\ out.pinned = n
  BY DEF ReadNumbers, ReadFields

LEMMA AnswerSteps ==
  ASSUME BytesInv,
         \/ AnswerNotModified
         \/ \E n \in 1..ResponseBytes, thin \in BOOLEAN : AnswerPage(n, thin)
         \/ \E n \in 0..ResponseBytes, b \in BOOLEAN : AnswerFails(n, b)
  PROVE  ReadGoal
<1>1. ReadOk(read) /\ ReadNumbers(read) /\ read.moved \in Nat /\ read.charged \in Nat BY DEF BytesInv, ReadOk, ReadNumbers
<1>2. read.pc = "sent" BY DEF AnswerNotModified, AnswerPage, AnswerFails
<1>3. Gated(read.kind) => read.moved <= read.charged /\ read.charged + ResponseBytes <= RunBytes
  BY <1>1, <1>2 DEF ReadOk, BytesFit
<1>4. ASSUME NEW r, ReadStep(r), ReadOk(r) PROVE ReadGoal
  BY <1>2, <1>4, QuietStep DEF ReadStep
<1>5. ASSUME NEW n \in 0 .. ResponseBytes, NEW r, r = [read EXCEPT !.moved = @ + n]
      PROVE  /\ ReadOk(ReadFails(r)) /\ ReadOk(Arrived(r, n))
             /\ Firecrawl /\ read.kind \in {"fetch", "batch"} => ReadOk([r EXCEPT !.pc = "fallback", !.pinned = n])
             /\ Firecrawl /\ read.kind \in {"fetch", "batch"} /\ n = 0 => ReadOk([r EXCEPT !.pc = "fallback", !.pinned = -1])
  <2>1. n \in Nat /\ n <= ResponseBytes BY BytesNat
  <2>2. /\ ReadNumbers(r) /\ r.moved = read.moved + n /\ r.kind = read.kind /\ r.charged = read.charged /\ r.late = read.late
    BY <1>1, <1>5, <2>1, MovedFields
  <2>3. Gated(r.kind) => r.moved <= r.charged + n /\ r.moved <= r.charged + ResponseBytes /\ r.moved <= RunBytes
                         /\ r.charged + ResponseBytes <= RunBytes /\ r.charged + n <= RunBytes
    BY <1>1, <1>3, <2>1, <2>2, BytesNat
  <2>4. ReadOk(ReadFails(r)) BY <2>2, <2>3, BytesNat, FailedRead DEF ReadFails
  <2>5. ReadOk(Arrived(r, n)) BY <2>1, <2>2, <2>3, ArrivedRead
  <2>6. ASSUME Firecrawl, read.kind \in {"fetch", "batch"}, NEW m \in Int, NEW out, out = [r EXCEPT !.pc = "fallback", !.pinned = m],
               m = n \/ (n = 0 /\ m = -1)
        PROVE  ReadOk(out)
    <3>1. ReadNumbers(out) /\ out.pc = "fallback" /\ out.moved = r.moved /\ out.kind = r.kind /\ out.charged = r.charged /\ out.pinned = m
      <4>1. m \in Int /\ out = [r EXCEPT !.pc = "fallback", !.pinned = m] BY <2>6
      <4> QED BY <2>2, <4>1 DEF ReadNumbers, ReadFields
    <3>2. m >= -1 /\ m <= ResponseBytes
      <4>1. CASE m = n BY <2>1, <4>1, BytesNat
      <4>2. CASE m = -1 BY <4>2, BytesNat
      <4> QED BY <2>6, <4>1, <4>2
    <3>3. Gated(out.kind) => out.kind = "batch" BY <2>2, <2>6, <3>1 DEF Gated
    <3>4. Gated(out.kind) /\ m < 0 => out.moved <= out.charged BY <1>1, <1>3, <2>1, <2>2, <2>6, <3>1
    <3>5. Gated(out.kind) /\ m >= 0 => out.moved <= out.charged + m BY <2>1, <2>2, <2>3, <2>6, <3>1
    <3>6. Gated(out.kind) => BytesFit(out) BY <2>3, <2>6, <3>1, <3>2, <3>3, <3>4, <3>5 DEF BytesFit
    <3> QED BY <3>1, <3>6 DEF ReadOk
  <2>7. n \in Int /\ -1 \in Int BY <2>1
  <2> QED BY <2>4, <2>5, <2>6, <2>7
<1>6. CASE AnswerNotModified
  <2>1. ReadOk(Arrived(read, 0)) BY <1>1, <1>3, BytesNat, ArrivedRead
  <2>2. ReadOk(ReadFails(read)) BY <1>1, <1>3, BytesNat, FailedRead DEF ReadFails
  <2> QED BY <1>4, <1>6, <2>1, <2>2 DEF AnswerNotModified
<1>7. ASSUME NEW n \in 1 .. ResponseBytes, NEW thin \in BOOLEAN, AnswerPage(n, thin) PROVE ReadGoal
  <2>1. n \in 0 .. ResponseBytes BY BytesNat
  <2>2. PICK r : r = [read EXCEPT !.moved = @ + n] OBVIOUS
  <2>3. \/ ReadStep(ReadFails(r)) \/ ReadStep(Arrived(r, n))
        \/ Firecrawl /\ read.kind \in {"fetch", "batch"} /\ ReadStep([r EXCEPT !.pc = "fallback", !.pinned = n])
    BY <1>7, <2>2 DEF AnswerPage, Escalates
  <2> QED BY <1>4, <1>5, <2>1, <2>2, <2>3
<1>8. ASSUME NEW n \in 0 .. ResponseBytes, NEW b \in BOOLEAN, AnswerFails(n, b) PROVE ReadGoal
  <2>1. PICK r : r = [read EXCEPT !.moved = @ + n] OBVIOUS
  <2>2. \/ ReadStep(ReadFails(r))
        \/ Firecrawl /\ read.kind \in {"fetch", "batch"} /\ n = 0 /\ ReadStep([r EXCEPT !.pc = "fallback", !.pinned = -1])
    BY <1>8, <2>1 DEF AnswerFails, Escalates
  <2> QED BY <1>4, <1>5, <2>1, <2>2
<1> QED BY <1>6, <1>7, <1>8
(* The read ends, and what the step hands out is permitted.                 *)
LEMMA EndsStep ==
  ASSUME read' = NoRead, \A u \in shown'.urls : Authorize(policy, u, shown'.group)
  PROVE  ReadGoal
  BY NoReadOk DEF ReadGoal, BytesInv, UnreadStep

LEMMA QuietShows == ASSUME AccessQuiet PROVE \A u \in shown'.urls : Authorize(policy, u, shown'.group)
  BY DEF AccessQuiet, Nothing

(* The bounds of a read that waits for its second reader.                   *)
LEMMA WaitingBounds ==
  ASSUME NEW r, ReadOk(r), Gated(r.kind), r.pc \in {"fallback", "fcwait", "fcsent"}
  PROVE  /\ r.pinned \in Int /\ r.moved \in Nat /\ r.charged \in Nat /\ r.pinned <= ResponseBytes
         /\ r.pinned >= 0 => r.moved <= r.charged + r.pinned /\ PinnedCharge(r) = r.pinned
         /\ r.pinned < 0 => r.moved <= r.charged /\ PinnedCharge(r) = ResponseBytes
         /\ r.charged + ResponseBytes <= RunBytes
         /\ r.pc \in {"fcwait", "fcsent"} => r.charged + PinnedCharge(r) + ResponseBytes <= RunBytes
         /\ r.kind = "batch" /\ Firecrawl
<1>1. r.pinned \in Int /\ r.moved \in Nat /\ r.charged \in Nat BY DEF ReadOk, ReadNumbers
<1>2. BytesFit(r) BY DEF ReadOk
<1>3. r.pinned >= 0 => PinnedCharge(r) = r.pinned BY <1>1 DEF PinnedCharge
<1>4. r.pinned < 0 => PinnedCharge(r) = ResponseBytes BY <1>1 DEF PinnedCharge
<1> QED BY <1>1, <1>2, <1>3, <1>4 DEF BytesFit

LEMMA FallbackSteps == ASSUME BytesInv, BeginFallback \/ SendFallback PROVE ReadGoal
<1>1. ReadOk(read) /\ ReadNumbers(read) /\ AccessQuiet
  BY DEF BytesInv, ReadOk, BeginFallback, SendFallback, ReadStep
<1>2. read.pc \in {"fallback", "fcwait"} BY DEF BeginFallback, SendFallback
<1>3. ReadOk(KeepPinned(read, 0)) /\ KeepPinned(read, 0).pc \in {"idle", "next", "page"}
  <2>1. Gated(read.kind) =>
          /\ read.pinned >= 0 => read.moved <= read.charged + read.pinned + 0 /\ read.charged + read.pinned + 0 <= RunBytes
          /\ read.pinned < 0 => /\ read.moved <= read.charged + ResponseBytes + 0
                                /\ read.charged + ResponseBytes + 0 <= RunBytes
    BY <1>1, <1>2, WaitingBounds, BytesNat
  <2> QED BY <1>1, <2>1, PinnedRead
<1>4. CASE BeginFallback /\ FallbackFits(read) /\ read' = [read EXCEPT !.pc = "fcwait", !.seen = policy]
  <2>1. PICK r : r = [read EXCEPT !.pc = "fcwait", !.seen = policy] OBVIOUS
  <2>2. /\ ReadNumbers(r) /\ r.pc = "fcwait" /\ r.kind = read.kind /\ r.moved = read.moved /\ r.charged = read.charged
        /\ r.pinned = read.pinned
    BY <1>1, <2>1 DEF ReadNumbers, ReadFields
  <2>3. Gated(read.kind) => PinnedCharge(read) + ResponseBytes <= RunBytes - read.charged
    BY <1>4 DEF FallbackFits, Gated
  <2>4. PinnedCharge(r) = PinnedCharge(read) BY <2>2 DEF PinnedCharge
  <2>5. PinnedCharge(read) \in Int BY <1>1, BytesNat DEF PinnedCharge, ReadNumbers
  <2>6. Gated(read.kind) => r.charged + PinnedCharge(r) + ResponseBytes <= RunBytes
    BY <1>1, <2>2, <2>3, <2>4, <2>5, BytesNat DEF ReadNumbers
  <2>7. read.pc = "fallback" BY <1>4 DEF BeginFallback
  <2>8. Gated(r.kind) => BytesFit(r) BY <1>1, <2>2, <2>6, <2>7 DEF BytesFit, ReadOk
  <2>9. ReadOk(r) BY <2>2, <2>8 DEF ReadOk
  <2> QED BY <1>1, <1>4, <2>1, <2>2, <2>9, QuietStep
<1>5. CASE read' = KeepPinned(read, 0) BY <1>1, <1>3, <1>5, QuietStep
<1>6. CASE SendFallback /\ StillAllowed(read) /\ read' = [read EXCEPT !.pc = "fcsent"]
  <2>1. PICK r : r = [read EXCEPT !.pc = "fcsent"] OBVIOUS
  <2>2. read.pc = "fcwait" BY <1>6 DEF SendFallback
  <2>3. ReadOk(r) /\ r.pc = "fcsent" BY <1>1, <2>1, <2>2, PlaceOk
  <2>4. AuthorizeRead(policy, read.url, read.group, read.robot) BY <1>6 DEF StillAllowed
  <2> QED BY <1>1, <1>6, <2>1, <2>3, <2>4, QuietStep
<1> QED BY <1>4, <1>5, <1>6 DEF BeginFallback, SendFallback, ReadStep

LEMMA FallbackAnswered == ASSUME BytesInv, NEW n \in 0 .. ResponseBytes, NEW ok \in BOOLEAN, AnswerFallback(n, ok) PROVE ReadGoal
<1>1. ReadOk(read) /\ ReadNumbers(read) /\ AccessQuiet /\ read.pc = "fcsent"
  BY DEF BytesInv, ReadOk, AnswerFallback, ReadStep
<1>2. n \in Nat /\ n <= ResponseBytes /\ ResponseBytes \in Nat BY BytesNat
<1>3. PICK r : r = [read EXCEPT !.moved = @ + n] OBVIOUS
<1>4. /\ ReadNumbers(r) /\ r.moved = read.moved + n /\ r.kind = read.kind /\ r.charged = read.charged /\ r.pinned = read.pinned
  BY <1>1, <1>2, <1>3, MovedFields
<1>5. PinnedCharge(r) = PinnedCharge(read) /\ PinnedCharge(r) \in Nat
  BY <1>4, <1>2 DEF PinnedCharge, ReadNumbers
<1>6. Gated(r.kind) => r.moved <= r.charged + (PinnedCharge(r) + n) /\ r.charged + (PinnedCharge(r) + n) <= RunBytes
  BY <1>1, <1>2, <1>4, <1>5, WaitingBounds, BytesNat
<1>7. ReadOk(Arrived(r, PinnedCharge(r) + n)) /\ Arrived(r, PinnedCharge(r) + n).pc = "page"
  BY <1>2, <1>4, <1>5, <1>6, ArrivedRead
<1>8. ASSUME NEW fb \in {n, ResponseBytes} PROVE ReadOk(KeepPinned(r, fb)) /\ KeepPinned(r, fb).pc \in {"idle", "next", "page"}
  <2>1. fb \in Nat /\ n <= fb /\ fb <= ResponseBytes BY <1>2
  <2>2. Gated(r.kind) =>
          /\ r.pinned >= 0 => r.moved <= r.charged + r.pinned + fb /\ r.charged + r.pinned + fb <= RunBytes
          /\ r.pinned < 0 => r.moved <= r.charged + ResponseBytes + fb /\ r.charged + ResponseBytes + fb <= RunBytes
    BY <1>1, <1>2, <1>4, <1>5, <2>1, WaitingBounds, BytesNat
  <2> QED BY <1>4, <2>1, <2>2, PinnedRead
<1>9. read' \in {Arrived(r, PinnedCharge(r) + n), KeepPinned(r, n), KeepPinned(r, ResponseBytes)}
  BY <1>3 DEF AnswerFallback, ReadStep
<1>10. CASE read' = Arrived(r, PinnedCharge(r) + n) BY <1>1, <1>7, <1>10, QuietStep
<1>11. CASE read' = KeepPinned(r, n) BY <1>1, <1>8, <1>11, QuietStep
<1>12. CASE read' = KeepPinned(r, ResponseBytes) BY <1>1, <1>8, <1>12, QuietStep
<1> QED BY <1>9, <1>10, <1>11, <1>12

LEMMA DeadlineStep == ASSUME BytesInv, NEW n \in 0 .. ResponseBytes, DeadlineCut(n) PROVE ReadGoal
<1>1. ReadOk(read) /\ ReadNumbers(read) /\ AccessQuiet /\ Gated(read.kind) /\ BytesFit(read)
  BY DEF BytesInv, ReadOk, DeadlineCut, ReadStep
<1>2. n \in Nat /\ n <= ResponseBytes /\ ResponseBytes \in Nat /\ RunBytes \in Nat BY BytesNat
<1>3. PICK r : r = [read EXCEPT !.moved = @ + n] OBVIOUS
<1>4. ReadNumbers(r) /\ r.moved = read.moved + n /\ r.kind = read.kind /\ r.charged = read.charged
  BY <1>1, <1>2, <1>3, MovedFields
<1>5. PICK a : a = IF read.kind = "batch" /\ Firecrawl THEN 2 * ResponseBytes ELSE ResponseBytes OBVIOUS
<1>6. a \in Nat /\ a >= ResponseBytes BY <1>2, <1>5
<1>7. PICK f : f = FetchFailed(r, a) OBVIOUS
<1>8. read' = [f EXCEPT !.late = TRUE] BY <1>3, <1>5, <1>7 DEF DeadlineCut, ReadStep
<1>9. /\ ReadNumbers(f) /\ f.pc = "next" /\ f.moved = r.moved /\ f.charged = r.charged + a /\ f.kind = r.kind
  BY <1>1, <1>4, <1>6, <1>7, FailedFields DEF Gated
<1>10. r.moved <= r.charged + a /\ r.moved <= RunBytes
  <2>1. read.pc \in {"get", "dns", "sent", "fcwait", "fcsent"} BY DEF DeadlineCut
  <2>2. read.moved \in Nat /\ read.charged \in Nat BY <1>1 DEF ReadNumbers
  <2>3. CASE read.pc \in {"get", "dns", "sent"}
    <3>1. read.moved <= read.charged /\ read.charged + ResponseBytes <= RunBytes BY <1>1, <2>3 DEF BytesFit
    <3> QED BY <1>2, <1>4, <1>6, <2>2, <3>1
  <2>4. CASE read.pc \in {"fcwait", "fcsent"}
    <3>1. a = 2 * ResponseBytes BY <1>1, <1>5, <2>4, WaitingBounds
    <3> QED BY <1>1, <1>2, <1>4, <2>2, <2>4, <3>1, WaitingBounds
  <2> QED BY <2>1, <2>3, <2>4
<1>11. PICK out : out = [f EXCEPT !.late = TRUE] OBVIOUS
<1>12. ReadNumbers(out) /\ out.pc = "next" /\ out.moved = r.moved /\ out.charged = r.charged + a /\ out.late
  BY <1>9, <1>11 DEF ReadNumbers, ReadFields
<1>13. ReadOk(out) BY <1>10, <1>12 DEF ReadOk, BytesFit
<1> QED BY <1>1, <1>8, <1>11, <1>12, <1>13, QuietStep

LEMMA ChargedStep == ASSUME BytesInv, PageCharged PROVE ReadGoal
<1>1. ReadOk(read) /\ ReadNumbers(read) /\ AccessQuiet /\ read.pc = "page"
  BY DEF BytesInv, ReadOk, PageCharged, ReadStep
<1>2. PICK r : r = Charged(read, read.got) OBVIOUS
<1>3. ReadNumbers(r) /\ r.moved = read.moved /\ r.kind = read.kind /\ r.late = read.late
      /\ (Gated(read.kind) => r.charged = read.charged + read.got)
  <2>1. CASE read.kind = "fetch" BY <1>1, <1>2, <2>1 DEF Charged, Gated
  <2>2. CASE read.kind # "fetch"
    <3>1. read.charged + read.got \in Nat BY <1>1 DEF ReadNumbers
    <3>2. r = [read EXCEPT !.charged = read.charged + read.got] BY <1>2, <2>2 DEF Charged
    <3> QED BY <1>1, <3>1, <3>2 DEF ReadNumbers, ReadFields
  <2> QED BY <2>1, <2>2
<1>4. Gated(read.kind) => r.moved <= r.charged /\ r.charged <= RunBytes /\ r.moved <= RunBytes
  BY <1>1, <1>3, BytesNat DEF ReadOk, ReadNumbers, BytesFit
<1>5. PICK verdict \in {"allow", "deny"} :
        read' = IF r.robot THEN [r EXCEPT !.pc = "next", !.robot = FALSE, !.robots[Origin[r.url]] = verdict]
                ELSE [r EXCEPT !.pc = "cache", !.pinned = 0]
  BY <1>2 DEF PageCharged, ReadStep
<1>6. ReadNumbers(read') /\ read'.moved = r.moved /\ read'.charged = r.charged /\ read'.kind = r.kind /\ read'.pc \in {"next", "cache"}
  BY <1>3, <1>5 DEF ReadNumbers, ReadFields
<1>7. Gated(read'.kind) => BytesFit(read') BY <1>3, <1>4, <1>6 DEF BytesFit
<1>8. ReadOk(read') BY <1>6, <1>7 DEF ReadOk
<1> QED BY <1>1, <1>6, <1>8, QuietStep

LEMMA CacheStep == ASSUME BytesInv, CachePage PROVE ReadGoal
<1>1. ReadOk(read) /\ ReadNumbers(read) /\ AccessQuiet /\ read.pc = "cache"
  BY DEF BytesInv, ReadOk, CachePage
<1>2. CASE read' = NoRead BY <1>1, <1>2, EndsStep, QuietShows
<1>3. CASE read' # NoRead
  <2>1. \E at \in {"done", "next"} : \E q, k, ps : read' = [read EXCEPT !.queue = q, !.queued = k, !.pc = at, !.pages = ps]
    <3>1. PICK q, k : Enqueued(read) = [read EXCEPT !.queue = q, !.queued = k] BY DEF Enqueued
    <3>2. PICK e : e = Enqueued(read) OBVIOUS
    <3>3. PICK at \in {"done", "next"} : \E ps : read' = [e EXCEPT !.pc = at, !.pages = ps]
      BY <1>3, <3>2 DEF CachePage
    <3> PICK ps : read' = [e EXCEPT !.pc = at, !.pages = ps] BY <3>3
    <3>4. read' = [read EXCEPT !.queue = q, !.queued = k, !.pc = at, !.pages = ps] BY <3>1, <3>2
    <3>5. \E x, y, z : read' = [read EXCEPT !.queue = x, !.queued = y, !.pc = at, !.pages = z] BY ONLY <3>4
    <3> QED BY <3>5
  <2>2. /\ ReadNumbers(read') /\ read'.moved = read.moved /\ read'.charged = read.charged /\ read'.kind = read.kind
        /\ read'.pinned = read.pinned /\ read'.late = read.late /\ read'.got = read.got /\ read'.pc \in {"done", "next"}
    BY <1>1, <2>1 DEF ReadNumbers, ReadFields
  <2>3. Gated(read.kind) => read.moved <= read.charged /\ read.charged <= RunBytes /\ read.moved <= RunBytes
    BY <1>1, BytesNat DEF ReadOk, ReadNumbers, BytesFit
  <2>4. Gated(read'.kind) => BytesFit(read') BY <2>2, <2>3 DEF BytesFit
  <2>5. ReadOk(read') BY <2>2, <2>4 DEF ReadOk
  <2> QED BY <1>1, <2>2, <2>5, QuietStep
<1> QED BY <1>2, <1>3

LEMMA EndSteps ==
  ASSUME BytesInv, FinishRead \/ RankPages \/ FinishSearch \/ Cancel
  PROVE  ReadGoal
<1>1. ReadOk(read) /\ ReadNumbers(read) BY DEF BytesInv, ReadOk
<1>2. CASE FinishRead
  <2>1. CASE AccessQuiet BY <1>2, <2>1, EndsStep, QuietShows DEF FinishRead
  <2>2. CASE ~AccessQuiet
    <3>1. /\ \A i \in DOMAIN read.pages : Authorize(policy, read.pages[i], read.group)
          /\ shown' = [urls |-> ToSet(read.pages), group |-> read.group]
      BY <1>2, <2>2 DEF FinishRead, Show
    <3>2. \A u \in shown'.urls : Authorize(policy, u, shown'.group) BY <3>1 DEF ToSet
    <3> QED BY <1>2, <3>2, EndsStep DEF FinishRead
  <2> QED BY <2>1, <2>2
<1>3. CASE RankPages
  <2>1. AccessQuiet BY <1>3 DEF RankPages, EndRead, ReadStep
  <2>2. CASE read' = NoRead BY <2>1, <2>2, EndsStep, QuietShows
  <2>3. CASE read' # NoRead
    <3>1. PICK ps : read' = [read EXCEPT !.pc = "ranked", !.pages = ps]
      BY <1>3, <2>3 DEF RankPages, EndRead, ReadStep
    <3>2. ReadNumbers(read') /\ read'.pc = "ranked" /\ read'.kind = read.kind
      BY <1>1, <3>1 DEF ReadNumbers, ReadFields
    <3>3. ReadOk(read') BY <3>2 DEF ReadOk, BytesFit
    <3> QED BY <2>1, <3>2, <3>3, QuietStep
  <2> QED BY <2>2, <2>3
<1>4. CASE FinishSearch
  <2>1. CASE AccessQuiet BY <1>4, <2>1, EndsStep, QuietShows DEF FinishSearch
  <2>2. CASE ~AccessQuiet
    <3>1. shown' = [urls |-> {read.pages[i] : i \in Standing(read.pages)}, group |-> read.group]
      BY <1>4, <2>2 DEF FinishSearch, Show
    <3>2. \A u \in shown'.urls : Authorize(policy, u, shown'.group) BY <3>1 DEF Standing
    <3> QED BY <1>4, <3>2, EndsStep DEF FinishSearch
  <2> QED BY <2>1, <2>2
<1>5. CASE Cancel BY <1>5, EndsStep, QuietShows DEF Cancel, EndRead, ReadStep
<1> QED BY <1>2, <1>3, <1>4, <1>5

LEMMA ContextSteps ==
  ASSUME BytesInv, HourPasses \/ \E o \in WebOwners : Inject(o) \/ Forget(o) \/ ContextText(o)
  PROVE  ReadGoal
<1>1. CASE HourPasses \/ \E o \in WebOwners : Inject(o) \/ Forget(o)
  BY <1>1, StillRead DEF HourPasses, Inject, Forget
<1>2. ASSUME NEW o \in WebOwners, ContextText(o) PROVE ReadGoal
  <2>1. read' = read /\ shown' = [urls |-> {context[o]}, group |-> NoGroup] /\ Authorize(policy, context[o], NoGroup)
    BY <1>2 DEF ContextText, Show
  <2>2. \A u \in shown'.urls : Authorize(policy, u, shown'.group) BY <2>1
  <2> QED BY <2>1, <2>2 DEF ReadGoal, BytesInv, UnreadStep
<1> QED BY <1>1, <1>2

LEMMA AccessStarts == ASSUME AccessInit PROVE BytesInv
  BY NoReadOk DEF AccessInit, BytesInv

LEMMA AccessMoves ==
  ASSUME BytesInv, [AccessNext]_accessVars
  PROVE  BytesInv' /\ (UnreadStep \/ UNCHANGED accessVars)
<1>1. CASE UNCHANGED accessVars BY <1>1 DEF accessVars, BytesInv
<1>2. CASE AccessNext
  <2>1. ReadGoal
    BY <1>2, PolicyEdits, StartsStep, NextUrlStep, FetchSteps, AnswerSteps, FallbackSteps, FallbackAnswered, DeadlineStep,
       ChargedStep, CacheStep, EndSteps, ContextSteps
    DEF AccessNext
  <2> QED BY <2>1 DEF ReadGoal
<1> QED BY <1>1, <1>2

LEMMA BytesPromise == ASSUME BytesInv PROVE RunBytesHold
  BY DEF BytesInv, ReadOk, BytesFit, RunBytesHold





-----------------------------------------------------------------------------
(* A web turn: its rounds, and the room its results leave the reply.        *)

(* The sums Later takes exist: no data is too long for them.                *)
SumOf(g, f, n) == g \in [0..n -> Nat] /\ \A k \in 0..n : g[k] = IF k = 0 THEN 0 ELSE f[k] + g[k - 1]
LEMMA SumsExist ==
  ASSUME NEW n \in Nat, NEW f, \A k \in 1..n : f[k] \in Nat
  PROVE  \E g : SumOf(g, f, n)
<1> DEFINE Upto(m, g) == g \in [0..m -> Nat] /\ g[0] = 0 /\ \A k \in 1..m : g[k] = f[k] + g[k - 1]
<1> DEFINE Bad == {m \in 0..n : ~\E g : Upto(m, g)}
<1>1. Bad = {}
  <2>1. SUFFICES ASSUME Bad # {} PROVE FALSE OBVIOUS
  <2>2. PICK m \in Bad : \A x \in Bad : m <= x
    <3>1. Bad \subseteq Nat OBVIOUS
    <3> HIDE DEF Bad
    <3> QED BY <2>1, <3>1, SmallestIn
  <2>3. m # 0
    <3>1. Upto(0, [k \in 0..0 |-> 0]) OBVIOUS
    <3> QED BY <3>1
  <2>4. m \in Nat /\ m \in 1..n /\ m - 1 \in 0..n /\ m - 1 \notin Bad
    <3>1. m \in 0..n OBVIOUS
    <3>2. m \in 1..n /\ m - 1 \in 0..n /\ ~(m <= m - 1) BY <2>3, <3>1
    <3>3. m - 1 \notin Bad
      <4> HIDE DEF Bad
      <4> QED BY <2>2, <3>2
    <3> QED BY <3>2, <3>3
  <2>5. PICK g : Upto(m - 1, g) BY <2>4
  <2>6. PICK h : h = [k \in 0..m |-> IF k = m THEN f[m] + g[m - 1] ELSE g[k]] OBVIOUS
  <2>7. h \in [0..m -> Nat]
    <3>1. f[m] + g[m - 1] \in Nat BY <2>4, <2>5
    <3>2. \A k \in 0..m : k # m => k \in 0..(m - 1) BY <2>4
    <3> QED BY <2>5, <2>6, <3>1, <3>2
  <2>8. h[0] = 0 BY <2>4, <2>5, <2>6
  <2>9. \A k \in 1..m : h[k] = f[k] + h[k - 1]
    <3>1. SUFFICES ASSUME NEW k \in 1..m PROVE h[k] = f[k] + h[k - 1] OBVIOUS
    <3>2. CASE k = m BY <2>4, <2>6, <3>1, <3>2
    <3>3. CASE k # m
      <4>1. k \in 1..(m - 1) /\ k \in 0..m /\ k - 1 \in 0..m /\ k - 1 # m BY <2>4, <3>1, <3>3
      <4> QED BY <2>5, <2>6, <3>3, <4>1
    <3> QED BY <3>2, <3>3
  <2> QED BY <2>2, <2>7, <2>8, <2>9
<1>2. PICK g : Upto(n, g)
  <2>1. n \in 0..n OBVIOUS
  <2> QED BY <1>1, <2>1
<1>3. \A k \in 0..n : g[k] = IF k = 0 THEN 0 ELSE f[k] + g[k - 1] BY <1>2
<1> QED BY <1>2, <1>3 DEF SumOf

CallOk(cs) == Len(cs) \in Nat /\ \A i \in 1..Len(cs) : cs[i].minimal \in Nat
LEMMA ReserveNat == ASSUME NEW call, call.minimal \in Nat PROVE Reserve(call) \in Nat /\ Reserve(call) >= MinResult
                                                               /\ Reserve(call) >= call.minimal
  BY WebTurnAssumption DEF Reserve

(* What later cs are left: nothing after the last, and one reserve more  *)
(* for every call before it.                                                *)
LEMMA LaterSums ==
  ASSUME NEW cs, CallOk(cs)
  PROVE  /\ \A i \in 0..Len(cs) : Later(cs, i) \in Nat
         /\ Later(cs, Len(cs)) = 0
         /\ \A i \in 0..(Len(cs) - 1) : Later(cs, i) = Reserve(cs[i + 1]) + Later(cs, i + 1)
<1>1. PICK n \in Nat : n = Len(cs) BY DEF CallOk
<1>2. PICK f : f = [k \in 1..n |-> Reserve(cs[n + 1 - k])] OBVIOUS
<1>3. \A k \in 1..n : f[k] = Reserve(cs[n + 1 - k]) /\ f[k] \in Nat
  <2>1. \A k \in 1..n : n + 1 - k \in 1..n BY <1>1
  <2> QED BY <1>1, <1>2, <2>1, ReserveNat DEF CallOk
<1> DEFINE Sums(g) == g = [k \in 0..n |-> IF k = 0 THEN 0 ELSE Reserve(cs[n + 1 - k]) + g[k - 1]]
<1>4. PICK g \in [0..n -> Nat] : Sums(g)
  <2>1. PICK g \in [0..n -> Nat] : \A k \in 0..n : g[k] = IF k = 0 THEN 0 ELSE f[k] + g[k - 1]
    <3>1. \A k \in 1..n : f[k] \in Nat BY <1>3
    <3>2. PICK g : SumOf(g, f, n) BY <3>1, SumsExist
    <3> QED BY <3>2 DEF SumOf
  <2>2. ASSUME NEW k \in 0..n PROVE g[k] = IF k = 0 THEN 0 ELSE Reserve(cs[n + 1 - k]) + g[k - 1]
    <3>1. g[k] = IF k = 0 THEN 0 ELSE f[k] + g[k - 1] BY <2>1
    <3>2. k # 0 => k \in 1..n OBVIOUS
    <3> QED BY <1>3, <3>1, <3>2
  <2>3. g = [k \in 0..n |-> g[k]] OBVIOUS
  <2>4. g = [k \in 0..n |-> IF k = 0 THEN 0 ELSE Reserve(cs[n + 1 - k]) + g[k - 1]] BY <2>2, <2>3
  <2> QED BY <2>4
<1>5. PICK c : c = CHOOSE h : Sums(h) OBVIOUS
<1>6. Sums(c) BY <1>4, <1>5
<1>7. \A i : Later(cs, i) = c[n - i] BY <1>1, <1>5 DEF Later
<1>8. c[0] = 0 /\ \A k \in 1..n : c[k] = f[k] + c[k - 1]
  <2>1. 0 \in 0..n /\ \A k \in 1..n : k \in 0..n /\ k # 0 BY <1>1
  <2> QED BY <1>3, <1>6, <2>1
<1>9. \A k \in 0..n : c[k] \in Nat
  <2> DEFINE Bad == {k \in 0..n : c[k] \notin Nat}
  <2>1. SUFFICES ASSUME Bad # {} PROVE FALSE OBVIOUS
  <2>2. PICK m \in Bad : \A x \in Bad : m <= x
    <3>1. Bad \subseteq Nat OBVIOUS
    <3> HIDE DEF Bad
    <3> QED BY <2>1, <3>1, SmallestIn
  <2>3. m # 0 BY <1>8
  <2>4. m \in 1..n /\ m - 1 \in 0..n /\ m - 1 \notin Bad
    <3>1. m \in 0..n OBVIOUS
    <3>2. m \in 1..n /\ m - 1 \in 0..n /\ ~(m <= m - 1) BY <2>3, <3>1
    <3>3. m - 1 \notin Bad
      <4> HIDE DEF Bad
      <4> QED BY <2>2, <3>2
    <3> QED BY <3>2, <3>3
  <2>5. c[m] = f[m] + c[m - 1] /\ f[m] \in Nat BY <1>3, <1>8, <2>4
  <2>6. c[m - 1] \in Nat BY <2>4
  <2> QED BY <2>2, <2>5, <2>6
<1>10. \A i \in 0..n : n - i \in 0..n BY <1>1
<1>11. ASSUME NEW i \in 0..(n - 1) PROVE Later(cs, i) = Reserve(cs[i + 1]) + Later(cs, i + 1)
  <2>1. n - i \in 1..n /\ (n - i) - 1 = n - (i + 1) /\ n + 1 - (n - i) = i + 1 BY <1>1, <1>11
  <2> QED BY <1>3, <1>7, <1>8, <2>1
<1>12. \A i \in 0..n : Later(cs, i) \in Nat BY <1>7, <1>9, <1>10
<1>13. Later(cs, n) = 0
  <2>1. n - n = 0 BY <1>1
  <2> QED BY <1>7, <1>8, <2>1
<1> QED BY <1>1, <1>11, <1>12, <1>13
WebFields == {"pc", "round", "used", "withheld", "offered", "tools", "sent", "batch", "done", "ok", "sources", "searched",
              "closed", "loop", "events"}
WebNumbers(w) ==
  DOMAIN w = WebFields /\ w.used \in 0..ToolCalls /\ w.round \in Nat /\ w.sent \in Nat /\ w.withheld \in BOOLEAN

(* Between batches every round so far spent a call, unless the tools were   *)
(* withdrawn; during one, the results to come still have their reserves.    *)
TurnFits(w) ==
  /\ w.pc # "limit" /\ (w.pc = "budget" => w.used = 0)
  /\ w.pc \in {"round", "model", "synthesis"} =>
       /\ w.batch = <<>> /\ w.done = 0 /\ w.round <= ToolCalls /\ (~w.withheld => w.round <= w.used)
       /\ w.used > 0 => w.sent + Reservation <= TotalTokens
  /\ w.pc \in {"model", "synthesis"} /\ w.offered # {} => w.used < ToolCalls /\ w.round <= w.used
  /\ w.pc = "read" =>
       /\ CallOk(w.batch) /\ w.done \in 0..Len(w.batch) /\ w.round < w.used
       /\ w.sent + Later(w.batch, w.done) + Reservation <= TotalTokens
WebOk(w) == WebNumbers(w) /\ TurnFits(w)
WebInv == WebOk(web)

LEMMA TokensNat ==
  /\ ToolCalls \in Nat /\ TotalTokens \in Nat /\ ToolTokens \in Nat /\ CallTokens \in Nat /\ Reservation \in Nat
  /\ MinResult \in Nat /\ FailureTokens \in Nat /\ FailureTokens <= MinResult
  BY WebTurnAssumption

LEMMA NoWebFields ==
  /\ WebNumbers(NoWeb) /\ NoWeb.pc = "idle" /\ NoWeb.round = 0 /\ NoWeb.used = 0 /\ NoWeb.withheld = FALSE /\ NoWeb.batch = <<>>
  /\ NoWeb.done = 0
  BY TokensNat DEF NoWeb, WebNumbers, WebFields

LEMMA NoWebOk == WebOk(NoWeb) BY NoWebFields DEF WebOk, TurnFits

LEMMA TurnEnds ==
  ASSUME WebInv, NEW o, EndTurn(o), o \in {"answered", "refused", "failed"} \/ (o = "budget" /\ web.used = 0)
  PROVE  WebInv'
<1>1. web.used \in 0..ToolCalls BY DEF WebInv, WebOk, WebNumbers
<1>2. WebNumbers(web') /\ web'.pc = o /\ web'.used = web.used
  BY <1>1, NoWebFields DEF EndTurn, WebNumbers, WebFields
<1>3. TurnFits(web') BY <1>2 DEF TurnFits
<1> QED BY <1>2, <1>3 DEF WebInv, WebOk

(* The tools are withdrawn, or a batch ends: the round that did it counts.  *)
LEMMA Withdrawn ==
  ASSUME WebInv, web' = Withdraw, web.pc \in {"model", "synthesis"}, web.offered # {}
  PROVE  WebInv'
<1>1. /\ WebNumbers(web') /\ web'.pc = "round" /\ web'.round = web.round + 1 /\ web'.withheld = TRUE /\ web'.used = web.used
      /\ web'.sent = web.sent /\ web'.batch = web.batch /\ web'.done = web.done
  BY DEF Withdraw, WebInv, WebOk, WebNumbers, WebFields
<1>2. /\ web.batch = <<>> /\ web.done = 0 /\ web.used < ToolCalls /\ web.round <= web.used /\ web.round \in Nat /\ web.used \in Nat
      /\ (web.used > 0 => web.sent + Reservation <= TotalTokens)
  BY TokensNat DEF WebInv, WebOk, WebNumbers, TurnFits
<1>3. web.round + 1 <= ToolCalls BY <1>2, TokensNat
<1>4. TurnFits(web') BY <1>1, <1>2, <1>3 DEF TurnFits
<1> QED BY <1>1, <1>4 DEF WebInv, WebOk

LEMMA StartTurn ==
  ASSUME WebInv, NEW tools, NEW notes, NEW asked, NEW loop, NEW prompt \in PromptTokens,
         StartWebTurn(tools, notes, asked, loop, prompt)
  PROVE  WebInv'
<1>1. prompt \in Nat BY WebTurnAssumption
<1>2. PICK c : web' = [NoWeb EXCEPT !.pc = "round", !.tools = tools, !.closed = c, !.loop = loop, !.sent = prompt]
  BY DEF StartWebTurn
<1>3. /\ WebNumbers(web') /\ web'.pc = "round" /\ web'.round = 0 /\ web'.used = 0 /\ web'.withheld = FALSE /\ web'.batch = <<>>
      /\ web'.done = 0
  BY <1>1, <1>2, NoWebFields DEF WebNumbers, WebFields
<1>4. TurnFits(web') BY <1>3, TokensNat DEF TurnFits
<1> QED BY <1>3, <1>4 DEF WebInv, WebOk

LEMMA RoundStep == ASSUME WebInv, BeginRound PROVE WebInv'
<1> DEFINE tools == NarrowTools(web.tools, web.closed)
           fits == RoundFits(tools)
<1>1. web.pc = "round" /\ WebNumbers(web) /\ TurnFits(web) BY DEF BeginRound, WebIs, WebInv, WebOk
<1>2. /\ web.batch = <<>> /\ web.done = 0 /\ web.round <= ToolCalls /\ (~web.withheld => web.round <= web.used)
      /\ (web.used > 0 => web.sent + Reservation <= TotalTokens)
  BY <1>1 DEF TurnFits
<1>3. web.used \in Nat /\ web.used <= ToolCalls /\ web.round \in Nat /\ web.sent \in Nat /\ web.withheld \in BOOLEAN
  BY <1>1, TokensNat DEF WebNumbers
<1>4. fits => web.used < ToolCalls /\ ~web.withheld /\ web.sent + Reservation <= TotalTokens
              /\ (tools # {} => web.sent + ToolTokens + Reservation <= TotalTokens)
  BY <1>3, TokensNat DEF RoundFits, Left
<1> HIDE DEF fits, tools
<1>5. CASE EndTurn("refused") BY <1>5, TurnEnds
<1>6. CASE web.sent + (IF fits /\ tools # {} THEN ToolTokens ELSE 0) + Reservation > TotalTokens /\ EndTurn("budget")
  <2>1. web.used = 0
    <3>1. CASE fits /\ tools # {} BY <1>3, <1>4, <1>6, <3>1, TokensNat
    <3>2. CASE ~(fits /\ tools # {})
      <4>1. web.sent + Reservation > TotalTokens BY <1>3, <1>6, <3>2, TokensNat
      <4> QED BY <1>2, <1>3, <4>1, TokensNat
    <3> QED BY <3>1, <3>2
  <2> QED BY <1>6, <2>1, TurnEnds
<1>7. CASE web' = [web EXCEPT !.pc = "model", !.offered = IF fits THEN tools ELSE {},
                             !.withheld = @ \/ (~fits /\ Left > 0)]
  <2>1. PICK x : x = (web.withheld \/ (~fits /\ Left > 0)) OBVIOUS
  <2>2. x \in BOOLEAN /\ (~x => ~web.withheld) BY <1>3, <2>1
  <2>3. PICK off : off = IF fits THEN tools ELSE {} OBVIOUS
  <2>4. web' = [web EXCEPT !.pc = "model", !.offered = off, !.withheld = x] BY <1>7, <2>1, <2>3
  <2>5. /\ WebNumbers(web') /\ web'.pc = "model" /\ web'.round = web.round /\ web'.used = web.used /\ web'.withheld = x
        /\ web'.sent = web.sent /\ web'.batch = web.batch /\ web'.done = web.done /\ web'.offered = off
    BY <1>1, <2>2, <2>4 DEF WebNumbers, WebFields
  <2>6. off # {} => web.used < ToolCalls /\ web.round <= web.used BY <1>2, <1>4, <2>3
  <2>7. TurnFits(web') BY <1>2, <2>2, <2>5, <2>6 DEF TurnFits
  <2> QED BY <2>5, <2>7 DEF WebInv, WebOk
<1> QED BY <1>5, <1>6, <1>7 DEF BeginRound, fits, tools

LEMMA ModelSteps ==
  ASSUME WebInv, RoundsExhausted \/ ModelFails \/ ModelAnswers \/ ModelTruncates \/ SynthesisAnswers
  PROVE  WebInv'
<1>1. WebNumbers(web) /\ TurnFits(web) BY DEF WebInv, WebOk
<1>2. CASE RoundsExhausted
  <2>1. web.pc = "round" /\ web.round > ToolCalls BY <1>2 DEF RoundsExhausted, WebIs
  <2>2. web.round <= ToolCalls /\ web.round \in Nat BY <1>1, <2>1 DEF TurnFits, WebNumbers
  <2> QED BY <2>1, <2>2, TokensNat
<1>3. CASE ModelFails \/ ModelAnswers \/ SynthesisAnswers
  BY <1>3, TurnEnds DEF ModelFails, ModelAnswers, SynthesisAnswers
<1>4. CASE ModelTruncates
  <2>1. CASE EndTurn("refused") BY <2>1, TurnEnds
  <2>2. CASE web' = [web EXCEPT !.pc = "synthesis"]
    <3>1. web.pc = "model" BY <1>4 DEF ModelTruncates, WebIs
    <3>2. /\ WebNumbers(web') /\ web'.pc = "synthesis" /\ web'.round = web.round /\ web'.used = web.used
          /\ web'.withheld = web.withheld /\ web'.sent = web.sent /\ web'.batch = web.batch /\ web'.done = web.done
          /\ web'.offered = web.offered
      BY <1>1, <2>2 DEF WebNumbers, WebFields
    <3>3. TurnFits(web') BY <1>1, <3>1, <3>2 DEF TurnFits
    <3> QED BY <3>2, <3>3 DEF WebInv, WebOk
  <2> QED BY <1>4, <2>1, <2>2 DEF ModelTruncates
<1> QED BY <1>2, <1>3, <1>4

LEMMA BatchLength == ASSUME NEW cs \in CallBatches PROVE CallOk(cs) /\ Len(cs) > 0
<1>1. PICK n \in 1..(ToolCalls + 1) : cs \in [1..n -> CallSet] BY DEF CallBatches
<1>2. n \in Nat /\ n > 0 BY <1>1, TokensNat
<1>3. Len(cs) = n BY <1>1, <1>2
<1>4. \A c \in CallSet : c.minimal \in Nat BY WebTurnAssumption DEF CallSet, Call
<1> QED BY <1>1, <1>2, <1>3, <1>4 DEF CallOk

LEMMA CallsStep == ASSUME WebInv, NEW cs \in CallBatches, ModelCalls(cs) PROVE WebInv'
<1>1. WebNumbers(web) /\ TurnFits(web) /\ web.pc \in {"model", "synthesis"} BY DEF WebInv, WebOk, ModelCalls
<1>2. CASE EndTurn("refused") \/ EndTurn("failed") BY <1>2, TurnEnds
<1>3. CASE web.offered # {} /\ web' = Withdraw BY <1>1, <1>3, Withdrawn
<1>4. CASE /\ web.offered # {} /\ Len(cs) <= Left /\ BatchRoom(cs)
           /\ web' = [web EXCEPT !.pc = "read", !.batch = cs, !.done = 0, !.ok = 0, !.used = @ + Len(cs),
                               !.sent = @ + CallTokens * Len(cs)]
  <2>1. CallOk(cs) /\ Len(cs) \in Nat /\ Len(cs) > 0 BY BatchLength DEF CallOk
  <2>2. PICK n \in Nat : n = Len(cs) /\ n > 0 BY <2>1
  <2>3. CallTokens * n \in Nat BY TokensNat
  <2>4. PICK k \in Nat : k = CallTokens * n BY <2>3
  <2>5. web.used \in Nat /\ web.used + n \in 0..ToolCalls /\ web.sent \in Nat /\ web.round \in Nat /\ web.round <= web.used
    BY <1>1, <1>4, <2>2, TokensNat DEF Left, WebNumbers, TurnFits
  <2>6. PICK u \in 0..ToolCalls, s \in Nat : u = web.used + n /\ s = web.sent + k BY <2>5
  <2>7. web' = [web EXCEPT !.pc = "read", !.batch = cs, !.done = 0, !.ok = 0, !.used = u, !.sent = s]
    BY <1>4, <2>2, <2>4, <2>6
  <2>8. /\ WebNumbers(web') /\ web'.pc = "read" /\ web'.round = web.round /\ web'.used = u /\ web'.sent = s
        /\ web'.batch = cs /\ web'.done = 0
    BY <1>1, <2>7 DEF WebNumbers, WebFields
  <2>9. s + Later(cs, 0) + Reservation <= TotalTokens BY <1>4, <2>2, <2>4, <2>6 DEF BatchRoom
  <2>10. web.round < u /\ 0 \in 0..Len(cs) BY <2>2, <2>5, <2>6
  <2>11. TurnFits(web') BY <2>1, <2>8, <2>9, <2>10 DEF TurnFits
  <2> QED BY <2>8, <2>11 DEF WebInv, WebOk
<1>5. Len(cs) \in Nat /\ Left \in Int BY <1>1, BatchLength, TokensNat DEF CallOk, Left, WebNumbers
<1> QED BY <1>2, <1>3, <1>4, <1>5 DEF ModelCalls, RefuseOversize

LEMMA ReadResult == ASSUME WebInv, NEW size \in PageTokens \cup {0}, Read(size) PROVE WebInv'
<1>1. WebNumbers(web) /\ TurnFits(web) /\ web.pc = "read" /\ web.done < Len(web.batch) BY DEF WebInv, WebOk, Read, WebIs
<1>2. CallOk(web.batch) /\ web.done \in 0..(Len(web.batch) - 1) /\ web.round < web.used
      /\ web.sent + Later(web.batch, web.done) + Reservation <= TotalTokens
  BY <1>1 DEF TurnFits, CallOk
<1>3. PICK call : call = web.batch[web.done + 1] OBVIOUS
<1>4. call.minimal \in Nat /\ web.done \in Nat /\ web.done + 1 \in 0..Len(web.batch)
  BY <1>2, <1>3 DEF CallOk
<1>5. PICK later \in Nat : later = Later(web.batch, web.done + 1) BY <1>2, <1>4, LaterSums
<1>6. Later(web.batch, web.done) = Reserve(call) + later BY <1>2, <1>3, <1>5, LaterSums
<1>7. Reserve(call) \in Nat /\ Reserve(call) >= MinResult BY <1>4, ReserveNat
<1>8. web.sent \in Nat /\ size \in Nat BY <1>1, WebTurnAssumption DEF WebNumbers
<1>9. CASE EndTurn("refused") BY <1>9, TurnEnds
<1>10. CASE ~EndTurn("refused")
  <2>1. PICK fit : fit = IF call.tool = "web_fetch" /\ call.target \notin permitted THEN -1 ELSE FitResult(call, size, later)
    OBVIOUS
  <2>2. fit >= 0 => fit \in Nat /\ web.sent + fit + later + Reservation <= TotalTokens
    BY <1>4, <1>8, <2>1, TokensNat DEF FitResult
  <2>3. PICK add : add = IF size > 0 /\ fit >= 0 THEN fit ELSE FailureTokens OBVIOUS
  <2>4. add \in Nat /\ web.sent + add + later + Reservation <= TotalTokens
    BY <1>2, <1>6, <1>7, <1>8, <2>2, <2>3, TokensNat
  <2> DEFINE ok == size > 0 /\ fit >= 0
             pages == IF ok /\ call.tool = "web_fetch" THEN {call.target} ELSE {}
  <2>0. web' = [web EXCEPT !.done = @ + 1, !.ok = IF ok THEN @ + 1 ELSE @,
                   !.sent = @ + (IF ok THEN fit ELSE FailureTokens), !.sources = @ \cup pages,
                   !.searched = IF ok /\ call.tool = "web_search" THEN @ \cup {call.target} ELSE @,
                   !.events = Append(@, [tool |-> call.tool, target |-> call.target, ok |-> ok])]
    BY <1>3, <1>5, <1>10, <2>1 DEF Read
  <2>5. PICK n, src, sea, ev : web' = [web EXCEPT !.done = @ + 1, !.ok = n, !.sent = @ + add, !.sources = src, !.searched = sea,
                                                  !.events = ev]
    BY <2>0, <2>3
  <2>6. PICK d \in 0..Len(web.batch), s \in Nat : d = web.done + 1 /\ s = web.sent + add BY <1>4, <1>8, <2>4
  <2>7. web' = [web EXCEPT !.done = d, !.ok = n, !.sent = s, !.sources = src, !.searched = sea, !.events = ev]
    BY <2>5, <2>6
  <2>8. /\ WebNumbers(web') /\ web'.pc = "read" /\ web'.round = web.round /\ web'.used = web.used /\ web'.sent = s
        /\ web'.batch = web.batch /\ web'.done = d
    BY <1>1, <2>6, <2>7 DEF WebNumbers, WebFields
  <2>9. s + Later(web.batch, d) + Reservation <= TotalTokens BY <1>5, <2>4, <2>6
  <2>10. TurnFits(web') BY <1>2, <2>6, <2>8, <2>9 DEF TurnFits
  <2> QED BY <2>8, <2>10 DEF WebInv, WebOk
<1> QED BY <1>9, <1>10

LEMMA BatchEnds == ASSUME WebInv, EndBatch PROVE WebInv'
<1>1. WebNumbers(web) /\ TurnFits(web) /\ web.pc = "read" /\ web.done = Len(web.batch) BY DEF WebInv, WebOk, EndBatch, WebIs
<1>2. CallOk(web.batch) /\ web.round < web.used /\ web.sent + Later(web.batch, web.done) + Reservation <= TotalTokens
  BY <1>1 DEF TurnFits
<1>3. Later(web.batch, web.done) = 0 BY <1>1, <1>2, LaterSums
<1>4. CASE EndTurn("answered") BY <1>4, TurnEnds
<1>5. CASE web' = [web EXCEPT !.pc = "round", !.round = @ + 1, !.withheld = @ \/ web.ok = 0, !.batch = <<>>, !.done = 0]
  <2>1. web.round \in Nat /\ web.round + 1 <= web.used /\ web.used <= ToolCalls /\ web.sent \in Nat /\ web.withheld \in BOOLEAN
        /\ web.used \in Nat
    BY <1>1, <1>2, TokensNat DEF WebNumbers
  <2>0. (web.withheld \/ web.ok = 0) \in BOOLEAN /\ web.round + 1 \in Nat BY <2>1
  <2>2. PICK x \in BOOLEAN, m \in Nat : x = (web.withheld \/ web.ok = 0) /\ m = web.round + 1 BY <2>0, Zenon
  <2>3. web' = [web EXCEPT !.pc = "round", !.round = m, !.withheld = x, !.batch = <<>>, !.done = 0] BY <1>5, <2>2
  <2>4. /\ WebNumbers(web') /\ web'.pc = "round" /\ web'.round = m /\ web'.used = web.used /\ web'.sent = web.sent
        /\ web'.batch = <<>> /\ web'.done = 0
    BY <1>1, <2>2, <2>3 DEF WebNumbers, WebFields
  <2>5. m <= ToolCalls /\ m <= web.used BY <2>1, <2>2, TokensNat
  <2>6. web.sent + Reservation <= TotalTokens BY <1>2, <1>3, <2>1, TokensNat
  <2>7. TurnFits(web') BY <2>4, <2>5, <2>6 DEF TurnFits
  <2> QED BY <2>4, <2>7 DEF WebInv, WebOk
<1> QED BY <1>4, <1>5 DEF EndBatch

LEMMA WebStarts == ASSUME WebTurnInit PROVE WebInv
  BY NoWebOk DEF WebTurnInit, WebInv

LEMMA WebMoves == ASSUME WebInv, [WebTurnNext]_webVars PROVE WebInv'
<1>1. CASE UNCHANGED web BY <1>1 DEF WebInv
<1>2. CASE RecordTurn BY <1>2, NoWebOk DEF RecordTurn, WebInv
<1>3. CASE WebTurnNext /\ ~RecordTurn /\ ~ChangePolicy
  BY <1>3, StartTurn, RoundStep, ModelSteps, CallsStep, ReadResult, BatchEnds DEF WebTurnNext
<1> QED BY <1>1, <1>2, <1>3 DEF webVars, ChangePolicy

LEMMA WebPromise == ASSUME WebInv PROVE RoundsSuffice /\ FollowUpFits
<1>1. WebNumbers(web) /\ TurnFits(web) BY DEF WebInv, WebOk
<1>2. CallOk(<<>>) /\ Len(<<>>) = 0 BY DEF CallOk
<1>3. Later(<<>>, 0) = 0 BY <1>2, LaterSums
<1>4. ASSUME web.used > 0, web.pc \in {"round", "model"} PROVE web.sent + Later(web.batch, web.done) + Reservation <= TotalTokens
  <2>1. web.batch = <<>> /\ web.done = 0 /\ web.sent + Reservation <= TotalTokens /\ web.sent \in Nat
    BY <1>1, <1>4 DEF TurnFits, WebNumbers
  <2> QED BY <1>3, <2>1, TokensNat
<1> QED BY <1>1, <1>4 DEF TurnFits, RoundsSuffice, FollowUpFits


-----------------------------------------------------------------------------
(* A search over the providers: the time its later hops keep.               *)

SearchFields == {"pc", "hops", "from", "deadline", "hopEnd", "key", "rule"}
HopList(hs) == hs \in Seq(Hops) /\ Len(hs) \in 1..3
EndsPublic(hs) == hs[Len(hs)] = "public"
Tight == RequestTime > PublicReserve

(* While a hop is chosen more than the public reserve is left to a list     *)
(* that has other hops before public Google; while one runs, its end leaves *)
(* the next choice as much.                                                 *)
TimeFits(s, now) ==
  /\ s.pc \in {"hop", "wait", "sent"} =>
       /\ HopList(s.hops) /\ s.deadline \in Nat /\ s.from \in Nat /\ s.hopEnd \in Nat /\ now <= s.deadline
  /\ s.pc = "hop" /\ EndsPublic(s.hops) /\ Tight =>
       /\ Len(s.hops) > 1 => s.deadline - now > PublicReserve
       /\ Len(s.hops) = 1 /\ s.from > 0 => s.deadline - now >= PublicReserve
  /\ s.pc \in {"wait", "sent"} =>
       /\ now <= s.hopEnd /\ s.hopEnd <= s.deadline
       /\ EndsPublic(s.hops) /\ Tight =>
            /\ Len(s.hops) = 2 => s.deadline - s.hopEnd >= PublicReserve
            /\ Len(s.hops) = 3 => s.deadline - s.hopEnd > PublicReserve
  /\ s.pc = "wait" /\ Head(s.hops) = "public" => pauses["public"] <= now
SearchOk(s, now) ==
  DOMAIN s = SearchFields /\ s.pc \in {"idle", "hop", "wait", "sent"} /\ TimeFits(s, now)
SearchInv ==
  /\ time \in Nat /\ provider \in Providers /\ pauses \in [Hops -> Nat] /\ publicSent \in Int
  /\ SearchOk(search, time)

LEMMA TimesNat ==
  /\ RequestTime \in Nat /\ RequestTime > 0 /\ Pace \in Nat /\ PublicReserve \in Nat /\ PublicPause \in Nat /\ QuotaPause \in Nat
  /\ Hour \in Nat /\ Hour > 0
  BY SearchAssumption

LEMMA NoSearchOk == ASSUME NEW now PROVE SearchOk(NoSearch, now)
  BY DEF NoSearch, SearchOk, SearchFields, TimeFits
LEMMA NoSearchIdle == NoSearch.pc = "idle" BY DEF NoSearch

LEMMA HopListTail ==
  ASSUME NEW hs, HopList(hs), Len(hs) > 1
  PROVE  HopList(Tail(hs)) /\ Len(Tail(hs)) = Len(hs) - 1 /\ (EndsPublic(Tail(hs)) <=> EndsPublic(hs))
<1>1. hs # <<>> /\ hs \in Seq(Hops) /\ Len(hs) \in Nat BY DEF HopList
<1>2. Tail(hs) \in Seq(Hops) /\ Len(Tail(hs)) = Len(hs) - 1 BY <1>1
<1>3. Tail(hs)[Len(hs) - 1] = hs[Len(hs)] BY <1>1
<1> QED BY <1>1, <1>2, <1>3 DEF HopList, EndsPublic

(* The hops a configuration plans: one to three, in this order.             *)
LEMMA PlannedHops == ASSUME SearchInv, NEW key PROVE HopList(PlanHops(key))
<1>1. provider.first \in {"auto", "public", "serpapi", "tavily"} BY SearchAssumption DEF SearchInv
<1>2. First(key) \in Hops BY <1>1 DEF First, Hops
<1>3. PICK a : a = <<First(key)>> OBVIOUS
<1>4. a \in Seq(Hops) /\ Len(a) = 1 BY <1>2, <1>3
<1>5. PICK b : b = IF First(key) = "tavily" /\ provider.toSerpapi /\ key # NoKey THEN <<"serpapi">> ELSE <<>> OBVIOUS
<1>0. \A h \in Hops : <<h>> \in Seq(Hops) /\ Len(<<h>>) = 1 OBVIOUS
<1>01. <<>> \in Seq(Hops) /\ Len(<<>>) = 0 OBVIOUS
<1>02. "serpapi" \in Hops /\ "public" \in Hops BY DEF Hops
<1>03. <<"serpapi">> \in Seq(Hops) /\ Len(<<"serpapi">>) = 1 BY <1>0, <1>02
<1>04. <<"public">> \in Seq(Hops) /\ Len(<<"public">>) = 1 BY <1>0, <1>02
<1>6. b \in Seq(Hops) /\ Len(b) \in 0..1
  <2>1. CASE b = <<"serpapi">> BY <1>03, <2>1
  <2>2. CASE b = <<>> BY <1>01, <2>2
  <2> QED BY <1>5, <2>1, <2>2
<1>7. PICK c : c = IF provider.toPublic THEN <<"public">> ELSE <<>> OBVIOUS
<1>8. c \in Seq(Hops) /\ Len(c) \in 0..1
  <2>1. CASE c = <<"public">> BY <1>04, <2>1
  <2>2. CASE c = <<>> BY <1>01, <2>2
  <2> QED BY <1>7, <2>1, <2>2
<1>9. a \o b \in Seq(Hops) /\ Len(a \o b) = Len(a) + Len(b) BY <1>4, <1>6, ConcatProperties
<1>10. (a \o b) \o c \in Seq(Hops) /\ Len((a \o b) \o c) = Len(a) + Len(b) + Len(c) BY <1>4, <1>6, <1>8, <1>9, ConcatProperties
<1>11. HopList((a \o b) \o c) BY <1>4, <1>6, <1>8, <1>10 DEF HopList
<1>12. HopList(<<"public">>)
  <2>1. <<"public">> \in Seq(Hops) /\ Len(<<"public">>) = 1 BY <1>0, <1>02
  <2> QED BY <2>1 DEF HopList
<1> QED BY <1>3, <1>5, <1>7, <1>11, <1>12 DEF PlanHops

LEMMA StartSearchStep == ASSUME SearchInv, StartSearch PROVE SearchInv'
<1>1. UNCHANGED <<provider, time, pauses, publicSent>> /\ time \in Nat BY DEF StartSearch, SearchInv
<1>2. PICK key : search' = [NoSearch EXCEPT !.pc = "hop", !.hops = PlanHops(key), !.key = key, !.deadline = time + RequestTime]
  BY DEF StartSearch
<1>3. PICK hs : hs = PlanHops(key) OBVIOUS
<1>4. HopList(hs) BY <1>3, PlannedHops
<1>5. PICK dl \in Nat : dl = time + RequestTime BY <1>1, TimesNat
<1>6. DOMAIN search' = SearchFields /\ search'.pc = "hop" /\ search'.hops = hs /\ search'.deadline = dl /\ search'.from = 0
      /\ search'.hopEnd = 0
  BY <1>2, <1>3, <1>5 DEF NoSearch, SearchFields
<1>7. time <= dl /\ dl - time = RequestTime BY <1>1, <1>5, TimesNat
<1>8. TimeFits(search', time) BY <1>4, <1>6, <1>7, TimesNat DEF TimeFits, Tight
<1>9. SearchOk(search', time) BY <1>6, <1>8 DEF SearchOk
<1> QED BY <1>1, <1>9 DEF SearchInv, SearchOk, TimeFits

(* A failed hop hands the next one what is left.                            *)
LEMMA NextHop ==
  ASSUME SearchInv, NEW hop, NEW code, search.pc \in {"hop", "wait", "sent"}
  PROVE  SearchOk(AfterFailure(hop, code), time) /\ AfterFailure(hop, code).pc # "wait"
<1>1. SearchOk(search, time) /\ time \in Nat /\ TimeFits(search, time) /\ DOMAIN search = SearchFields BY DEF SearchInv, SearchOk
<1>2. CASE AfterFailure(hop, code) = NoSearch BY <1>2, NoSearchOk, NoSearchIdle
<1>3. CASE Len(search.hops) > 1 /\ AfterFailure(hop, code) = [search EXCEPT !.pc = "hop", !.hops = Tail(@), !.from = @ + 1]
  <2>1. HopList(search.hops) /\ search.deadline \in Nat /\ search.from \in Nat /\ search.hopEnd \in Nat /\ time <= search.deadline
    BY <1>1 DEF TimeFits
  <2>0. PICK hs : hs = Tail(search.hops) OBVIOUS
  <2>2. PICK f \in Nat : f = search.from + 1 BY <2>1
  <2>3. HopList(hs) /\ Len(hs) = Len(search.hops) - 1 /\ (EndsPublic(hs) <=> EndsPublic(search.hops))
    BY <1>3, <2>0, <2>1, HopListTail
  <2>4. PICK s : s = [search EXCEPT !.pc = "hop", !.hops = hs, !.from = f] OBVIOUS
  <2>5. DOMAIN s = SearchFields /\ s.pc = "hop" /\ s.hops = hs /\ s.from = f /\ s.deadline = search.deadline /\ s.hopEnd = search.hopEnd
    BY <1>1, <2>4 DEF SearchFields
  <2>6. Len(search.hops) \in {2, 3}
    <3>1. Len(search.hops) \in 1..3 BY <2>1 DEF HopList
    <3>2. Len(search.hops) > 1 BY <1>3
    <3>3. \A n \in 1..3 : n > 1 => n \in {2, 3} OBVIOUS
    <3> QED BY ONLY <3>1, <3>2, <3>3
  <2>7. EndsPublic(hs) /\ Tight => /\ Len(hs) > 1 => search.deadline - time > PublicReserve
                                   /\ Len(hs) = 1 => search.deadline - time >= PublicReserve
    <3>1. SUFFICES ASSUME EndsPublic(search.hops), Tight
                   PROVE  /\ Len(search.hops) = 3 => search.deadline - time > PublicReserve
                          /\ Len(search.hops) = 2 => search.deadline - time >= PublicReserve
      <4>0. Len(hs) = Len(search.hops) - 1 BY <2>3
      <4>1. Len(hs) > 1 <=> Len(search.hops) = 3
        <5>1. CASE Len(search.hops) = 2 BY ONLY <4>0, <5>1
        <5>2. CASE Len(search.hops) = 3 BY ONLY <4>0, <5>2
        <5> QED BY ONLY <2>6, <5>1, <5>2
      <4>2. Len(hs) = 1 <=> Len(search.hops) = 2 BY ONLY <4>0, <2>6
      <4> QED BY <2>3, <4>1, <4>2
    <3>2. CASE search.pc = "hop"
      <4>1. search.deadline - time > PublicReserve BY <1>1, <1>3, <3>1, <3>2 DEF TimeFits
      <4> QED BY <1>1, <2>1, <4>1, TimesNat
    <3>3. CASE search.pc \in {"wait", "sent"} BY <1>1, <2>1, <3>1, <3>3, TimesNat DEF TimeFits
    <3> QED BY <3>2, <3>3
  <2>8. TimeFits(s, time) BY <2>1, <2>3, <2>5, <2>7 DEF TimeFits
  <2>9. AfterFailure(hop, code) = s BY <1>3, <2>0, <2>2, <2>4
  <2> QED BY <2>5, <2>8, <2>9 DEF SearchOk
<1> QED BY <1>2, <1>3 DEF AfterFailure, SearchEnded

(* hop_budget keeps the reserve of the hops behind it.                      *)
LEMMA BudgetKept ==
  ASSUME NEW hs, HopList(hs), NEW left \in Nat
  PROVE  /\ HopBudget(left, hs) \in Nat /\ HopBudget(left, hs) <= left
         /\ EndsPublic(hs) /\ left > PublicReserve =>
              /\ Len(hs) = 2 => left - HopBudget(left, hs) >= PublicReserve
              /\ Len(hs) = 3 => left - HopBudget(left, hs) > PublicReserve
<1>1. CASE Len(hs) = 1 BY <1>1 DEF HopBudget
<1>2. CASE Len(hs) = 2
  <2>1. CASE EndsPublic(hs) /\ left > PublicReserve
    <3>1. HopBudget(left, hs) = (left - PublicReserve) \div 1 BY <1>2, <2>1 DEF HopBudget, EndsPublic
    <3>2. (left - PublicReserve) \div 1 = left - PublicReserve BY TimesNat
    <3> QED BY <1>2, <2>1, <3>1, <3>2, TimesNat
  <2>2. CASE ~(EndsPublic(hs) /\ left > PublicReserve)
    <3>1. HopBudget(left, hs) = left \div 2 BY <1>2, <2>2 DEF HopBudget, EndsPublic
    <3>2. left \div 2 \in Nat /\ left \div 2 <= left OBVIOUS
    <3> QED BY <2>2, <3>1, <3>2
  <2> QED BY <2>1, <2>2
<1>3. CASE Len(hs) = 3
  <2>1. CASE EndsPublic(hs) /\ left > PublicReserve
    <3>1. HopBudget(left, hs) = (left - PublicReserve) \div 2 BY <1>3, <2>1 DEF HopBudget, EndsPublic
    <3>2. PICK d \in Nat : d = left - PublicReserve /\ d > 0 BY <2>1, TimesNat
    <3>3. d \div 2 \in Nat /\ d \div 2 < d BY <3>2
    <3>4. HopBudget(left, hs) \in Nat /\ HopBudget(left, hs) < d BY <3>1, <3>2, <3>3
    <3> QED BY <1>3, <2>1, <3>2, <3>4, TimesNat
  <2>2. CASE ~(EndsPublic(hs) /\ left > PublicReserve)
    <3>1. HopBudget(left, hs) = left \div 3 BY <1>3, <2>2 DEF HopBudget, EndsPublic
    <3>2. left \div 3 \in Nat /\ left \div 3 <= left OBVIOUS
    <3> QED BY <2>2, <3>1, <3>2
  <2> QED BY <2>1, <2>2
<1> QED BY <1>1, <1>2, <1>3 DEF HopList

LEMMA HopStep == ASSUME SearchInv, BeginHop PROVE SearchInv'
<1>1. UNCHANGED <<provider, time, pauses, publicSent>> /\ time \in Nat /\ search.pc = "hop" /\ pauses \in [Hops -> Nat]
  BY DEF BeginHop, SearchInv
<1>2. TimeFits(search, time) /\ DOMAIN search = SearchFields BY DEF SearchInv, SearchOk
<1>3. HopList(search.hops) /\ search.deadline \in Nat /\ search.from \in Nat /\ search.hopEnd \in Nat /\ time <= search.deadline
  BY <1>1, <1>2 DEF TimeFits
<1>4. PICK left \in Nat : left = search.deadline - time BY <1>1, <1>3
<1>5. PICK b : b = HopBudget(left, search.hops) OBVIOUS
<1>6. /\ b \in Nat /\ b <= left
      /\ EndsPublic(search.hops) /\ left > PublicReserve =>
              /\ Len(search.hops) = 2 => left - b >= PublicReserve
              /\ Len(search.hops) = 3 => left - b > PublicReserve
  BY <1>3, <1>5, BudgetKept
<1>7. CASE search' = NoSearch BY <1>1, <1>7, NoSearchOk, NoSearchIdle DEF SearchInv, SearchOk, TimeFits
<1>8. CASE \E code : search' = AfterFailure(Head(search.hops), code)
  <2>1. SearchOk(search', time) /\ search'.pc # "wait" BY <1>1, <1>8, NextHop
  <2> QED BY <1>1, <2>1 DEF SearchInv, SearchOk, TimeFits
<1>9. CASE ~Holding(Head(search.hops)) /\ search' = [search EXCEPT !.pc = "wait", !.hopEnd = time + b, !.rule = googleRule]
  <2>1. PICK e \in Nat : e = time + b BY <1>1, <1>6
  <2>2. search' = [search EXCEPT !.pc = "wait", !.hopEnd = e, !.rule = googleRule] BY <1>9, <2>1
  <2>3. DOMAIN search' = SearchFields /\ search'.pc = "wait" /\ search'.hops = search.hops /\ search'.from = search.from
        /\ search'.deadline = search.deadline /\ search'.hopEnd = e
    BY <1>2, <2>2 DEF SearchFields
  <2>4. time <= e /\ e <= search.deadline /\ search.deadline - e = left - b BY <1>1, <1>3, <1>4, <1>6, <2>1
  <2>5. EndsPublic(search.hops) /\ Tight /\ Len(search.hops) > 1 => left > PublicReserve BY <1>1, <1>2, <1>4 DEF TimeFits
  <2>6. Head(search.hops) = "public" => pauses["public"] <= time BY <1>1, <1>9 DEF Holding, Hops
  <2>8. EndsPublic(search.hops) /\ Tight => /\ Len(search.hops) = 2 => search.deadline - e >= PublicReserve
                                            /\ Len(search.hops) = 3 => search.deadline - e > PublicReserve
    <3>1. Len(search.hops) \in {2, 3} => Len(search.hops) > 1 OBVIOUS
    <3> QED BY <1>6, <2>4, <2>5, <3>1
  <2>7. TimeFits(search', time) BY <1>3, <2>3, <2>4, <2>6, <2>8 DEF TimeFits
  <2> QED BY <1>1, <2>3, <2>7 DEF SearchInv, SearchOk, TimeFits
<1> QED BY <1>4, <1>5, <1>7, <1>8, <1>9 DEF BeginHop, SearchEnded

LEMMA SentStep ==
  ASSUME SearchInv, search.pc = "wait", search' = [search EXCEPT !.pc = "sent"], UNCHANGED <<provider, time, pauses>>, publicSent' \in Int
  PROVE  SearchInv'
<1>1. TimeFits(search, time) /\ DOMAIN search = SearchFields BY DEF SearchInv, SearchOk
<1>2. DOMAIN search' = SearchFields /\ search'.pc = "sent" /\ search'.hops = search.hops /\ search'.from = search.from
      /\ search'.deadline = search.deadline /\ search'.hopEnd = search.hopEnd
  BY <1>1 DEF SearchFields
<1>3. TimeFits(search', time') BY <1>1, <1>2 DEF TimeFits
<1> QED BY <1>2, <1>3 DEF SearchInv, SearchOk, TimeFits

LEMMA HopEnds ==
  ASSUME SearchInv, search.pc \in {"wait", "sent"}, UNCHANGED <<provider, time, publicSent>>, pauses' \in [Hops -> Nat],
         search' = NoSearch \/ \E hop, code : search' = AfterFailure(hop, code)
  PROVE  SearchInv'
<1>1. SearchOk(search', time) /\ search'.pc # "wait"
  <2>1. CASE search' = NoSearch BY <2>1, NoSearchOk, NoSearchIdle
  <2>2. CASE \E hop, code : search' = AfterFailure(hop, code) BY <2>2, NextHop
  <2> QED BY <2>1, <2>2
<1> QED BY <1>1 DEF SearchInv, SearchOk, TimeFits

LEMMA PauseNat == ASSUME SearchInv, NEW hop, NEW code PROVE CooldownSeconds(hop, code) \in Nat
<1>1. time \in Nat BY DEF SearchInv
<1>2. time % Hour \in 0..(Hour - 1) BY <1>1, TimesNat
<1>3. Hour - (time % Hour) \in Nat BY <1>2, TimesNat
<1> QED BY <1>3, TimesNat DEF CooldownSeconds

LEMMA FailStep == ASSUME SearchInv, NEW code, HopFails(code) PROVE SearchInv'
<1>1. search.pc = "sent" /\ UNCHANGED <<provider, time, publicSent>> /\ search' = AfterFailure(Head(search.hops), code)
  BY DEF HopFails
<1>2. PICK n \in Nat : n = CooldownSeconds(Head(search.hops), code) BY PauseNat
<1>3. pauses' = pauses \/ pauses' = [pauses EXCEPT ![Head(search.hops)] = time + n] BY <1>2 DEF HopFails
<1>4. pauses \in [Hops -> Nat] /\ time + n \in Nat BY <1>2 DEF SearchInv
<1>5. pauses' \in [Hops -> Nat] BY <1>3, <1>4
<1> QED BY <1>1, <1>5, HopEnds

LEMMA TimeStep == ASSUME SearchInv, Tick PROVE SearchInv'
<1>1. UNCHANGED <<provider, pauses, publicSent, search>> /\ time' = time + 1 /\ search.pc # "hop"
      /\ (search.pc \in {"wait", "sent"} => time < search.hopEnd) /\ time \in Nat
  BY DEF Tick, SearchInv
<1>2. TimeFits(search, time) /\ pauses["public"] \in Nat BY DEF SearchInv, SearchOk, Hops
<1>3. TimeFits(search, time + 1) BY <1>1, <1>2 DEF TimeFits
<1>4. TimeFits(search, time)' BY <1>1, <1>3 DEF TimeFits
<1> QED BY <1>1, <1>4 DEF SearchInv, SearchOk

(* Nothing but a paced send moves publicSent.                               *)
PacedStep == publicSent' # publicSent => publicSent' - publicSent >= Pace /\ ~Holding("public")

LEMMA SearchStarts == ASSUME SearchInit PROVE SearchInv
<1>1. SearchOk(NoSearch, 0) BY NoSearchOk
<1>2. Never \in Int BY TimesNat DEF Never
<1> QED BY <1>1, <1>2 DEF SearchInit, SearchInv

LEMMA SearchMoves ==
  ASSUME SearchInv, [SearchNext]_searchVars
  PROVE  SearchInv' /\ PacedStep
<1>1. CASE UNCHANGED searchVars BY <1>1 DEF searchVars, SearchInv, SearchOk, TimeFits, PacedStep
<1>2. CASE StartSearch BY <1>2, StartSearchStep DEF PacedStep, StartSearch
<1>3. CASE BeginHop BY <1>3, HopStep DEF PacedStep, BeginHop
<1>4. CASE SendKeyed
  <2>1. publicSent \in Int BY DEF SearchInv
  <2> QED BY <1>4, <2>1, SentStep DEF SendKeyed, Local, PacedStep
<1>5. CASE SendPublic
  <2>1. publicSent \in Int /\ time \in Nat /\ publicSent' = time /\ time >= publicSent + Pace
    BY <1>5 DEF SendPublic, PaceReady, SearchInv
  <2>2. pauses["public"] <= time /\ pauses["public"] \in Nat BY <1>5 DEF SendPublic, SearchInv, SearchOk, TimeFits, Hops
  <2>3. PacedStep BY <2>1, <2>2, TimesNat DEF PacedStep, Holding
  <2> QED BY <1>5, <2>1, <2>3, SentStep DEF SendPublic
<1>6. CASE PublicRefused \/ HopAnswers \/ HopTimeout \/ CancelSearch
  <2>1. /\ search.pc \in {"wait", "sent"} /\ UNCHANGED <<provider, time, pauses, publicSent>>
        /\ search' = NoSearch \/ \E hop, code : search' = AfterFailure(hop, code)
    BY <1>6 DEF PublicRefused, HopAnswers, HopTimeout, CancelSearch, Local, SearchEnded
  <2>2. pauses' \in [Hops -> Nat] BY <2>1 DEF SearchInv
  <2> QED BY <2>1, <2>2, HopEnds DEF PacedStep
<1>7. CASE \E code \in Codes : HopFails(code) BY <1>7, FailStep DEF HopFails, PacedStep
<1>8. CASE Tick BY <1>8, TimeStep DEF Tick, PacedStep
<1>9. CASE ChangeKey
  <2>1. UNCHANGED <<provider, time, pauses, publicSent, search>> BY <1>9 DEF ChangeKey
  <2> QED BY <2>1 DEF SearchInv, SearchOk, TimeFits, PacedStep
<1> QED BY <1>1, <1>2, <1>3, <1>4, <1>5, <1>6, <1>7, <1>8, <1>9 DEF SearchNext

LEMMA SearchPromise == ASSUME SearchInv PROVE ReserveKept
<1>1. TimeFits(search, time) BY DEF SearchInv, SearchOk
<1>2. search.hops = <<"public">> => Len(search.hops) = 1 /\ EndsPublic(search.hops) BY DEF EndsPublic
<1> QED BY <1>1, <1>2 DEF TimeFits, ReserveKept, Tight


-----------------------------------------------------------------------------
(* Calls to models: one row of spend for each answer the provider bills.    *)

CallFields == {"kind", "at", "tokens", "try", "result"}
CallPlaces == {"idle", "count", "send", "read", "wait", "again", "done"}
(* The bill of a call: none before the answer, armed while the body is      *)
(* read, and written by whatever ends it.                                   *)
Billed(c) ==
  /\ calls[c].at \in {"idle", "count", "send", "wait", "again"} => c \notin charged /\ c \notin armed /\ ledgerRows[c] = 0
  /\ calls[c].at = "read" => c \in charged /\ c \in armed /\ ledgerRows[c] = 0
  /\ calls[c].at = "done" => c \notin armed /\ ledgerRows[c] = (IF c \in charged THEN 1 ELSE 0)
CallsOk ==
  /\ DOMAIN calls = Calls /\ \A c \in Calls : DOMAIN calls[c] = CallFields /\ calls[c].at \in CallPlaces
  /\ registered \subseteq Calls /\ aborted \subseteq Calls /\ armed \subseteq Calls /\ charged \subseteq Calls
  /\ ledgerRows \in [Calls -> Nat] /\ rateHits \in 0 .. Rpm
BillInv == CallsOk /\ \A c \in Calls : Billed(c)

(* One holder of the gate; its token is in the slot while it pulls.         *)
PullPlaces == {"idle", "gated", "pulling", "leaving", "cleared"}
PullInv ==
  /\ pulls \in [Pullers -> PullPlaces] /\ pullGate \in Pullers \cup {NoPuller}
  /\ \A p \in Pullers : pulls[p] = "idle" <=> pullGate # p
  /\ pullSlot \in Pullers \cup {NoPuller} /\ (pullSlot # NoPuller => pulls[pullSlot] \in {"pulling", "leaving"})
  /\ \A p \in Pullers : p \in pullCancelled => /\ pulls[p] # "idle"
                                               /\ pulls[p] \in {"gated", "pulling"} => p \in pullAsked

LEMMA CallsStart == ASSUME CallsInit PROVE BillInv /\ PullInv
<1>1. DOMAIN calls = Calls /\ \A c \in Calls : DOMAIN calls[c] = CallFields /\ calls[c].at = "idle"
  BY DEF CallsInit, CallFields
<1>3. CallsOk BY <1>1, CallsAssumption DEF CallsInit, CallsOk, CallPlaces
<1>4. \A c \in Calls : Billed(c) BY <1>1 DEF CallsInit, Billed
<1>2. PullInv BY CallsAssumption DEF CallsInit, PullInv, PullPlaces, NoPuller
<1> QED BY <1>2, <1>3, <1>4 DEF BillInv

(* A step of one call leaves the bills of the others alone.                 *)
LEMMA OthersBilled ==
  ASSUME BillInv, NEW c \in Calls, NEW d \in Calls, d # c, calls'[d] = calls[d], ledgerRows'[d] = ledgerRows[d],
         d \in charged' <=> d \in charged, d \in armed' <=> d \in armed
  PROVE  Billed(d)'
  BY DEF BillInv, Billed

LEMMA CallEnds ==
  ASSUME BillInv, NEW c \in Calls, NEW result, NEW rows \in Nat, EndModelCall(c, result, rows), UNCHANGED <<aborted, charged>>,
         rateHits' \in 0 .. Rpm, ledgerRows[c] + rows = IF c \in charged THEN 1 ELSE 0
  PROVE  BillInv'
<1>1. /\ calls' = [calls EXCEPT ![c].at = "done", ![c].result = result]
      /\ ledgerRows' = [ledgerRows EXCEPT ![c] = ledgerRows[c] + rows]
      /\ armed' = armed \ {c} /\ registered' = registered \ {c}
  BY DEF EndModelCall
<1>2. CallsOk BY DEF BillInv
<1>3. /\ DOMAIN calls' = Calls /\ calls'[c].at = "done" /\ DOMAIN calls'[c] = CallFields
      /\ \A d \in Calls : d # c => calls'[d] = calls[d]
  BY <1>1, <1>2 DEF CallsOk, CallFields
<1>4. ledgerRows[c] \in Nat BY <1>2 DEF CallsOk
<1>5. ledgerRows' \in [Calls -> Nat] /\ ledgerRows'[c] = ledgerRows[c] + rows
      /\ \A d \in Calls : d # c => ledgerRows'[d] = ledgerRows[d]
  BY <1>1, <1>2, <1>4 DEF CallsOk
<1>6. CallsOk' BY <1>1, <1>2, <1>3, <1>5 DEF CallsOk, CallPlaces
<1>7. Billed(c)' BY <1>1, <1>3, <1>5 DEF Billed
<1>8. \A d \in Calls : d # c => Billed(d)' BY <1>1, <1>3, <1>5, OthersBilled
<1> QED BY <1>6, <1>7, <1>8 DEF BillInv

(* A call moves on without an end.                                          *)
LEMMA CallMoves ==
  ASSUME BillInv, NEW c \in Calls, UNCHANGED <<charged, armed, ledgerRows>>,
         DOMAIN calls' = Calls, DOMAIN calls'[c] = CallFields, \A d \in Calls : d # c => calls'[d] = calls[d],
         calls[c].at \in {"idle", "count", "send", "wait", "again"}, calls'[c].at \in {"count", "send", "wait", "again"},
         registered' \subseteq Calls, aborted' \subseteq Calls, rateHits' \in 0 .. Rpm
  PROVE  BillInv'
<1>1. CallsOk /\ Billed(c) BY DEF BillInv
<1>2. CallsOk' BY <1>1 DEF CallsOk, CallPlaces
<1>3. Billed(c)' BY <1>1 DEF Billed
<1>4. \A d \in Calls : d # c => Billed(d)' BY OthersBilled
<1> QED BY <1>2, <1>3, <1>4 DEF BillInv

LEMMA MovedCall ==
  ASSUME BillInv, NEW c \in Calls, NEW a, MoveTo(c, a)
  PROVE  DOMAIN calls' = Calls /\ DOMAIN calls'[c] = CallFields /\ calls'[c].at = a /\ \A d \in Calls : d # c => calls'[d] = calls[d]
<1>1. CallsOk BY DEF BillInv
<1> QED BY <1>1 DEF MoveTo, CallsOk, CallFields

LEMMA BillRowNat == ASSUME NEW c PROVE BillRow(c) \in Nat BY DEF BillRow

LEMMA AbortedCalls == ASSUME BillInv, NEW c \in Calls, CancelledCall(c) \/ DroppedCall(c) PROVE BillInv'
<1>1. calls[c].at \in {"count", "send", "read", "wait", "again"} /\ UNCHANGED <<aborted, charged, rateHits>>
  BY DEF CancelledCall, DroppedCall, CallAt, BillInv, CallsOk, CallPlaces
<1>2. PICK r : EndModelCall(c, r, BillRow(c)) BY DEF CancelledCall, DroppedCall
<1>3. Billed(c) /\ rateHits \in 0 .. Rpm BY DEF BillInv, CallsOk
<1>4. ledgerRows[c] + BillRow(c) = IF c \in charged THEN 1 ELSE 0 BY <1>1, <1>3 DEF Billed, BillRow
<1> QED BY <1>1, <1>2, <1>3, <1>4, BillRowNat, CallEnds

LEMMA CloudStarts == ASSUME BillInv, NEW c \in Calls, NEW kind, NEW tokens, StartCloud(c, kind, tokens) PROVE BillInv'
<1>1. calls[c].at = "idle" /\ Billed(c) /\ CallsOk /\ UNCHANGED <<aborted, charged>> BY DEF StartCloud, CallAt, BillInv
<1>2. CASE EndModelCall(c, "rate_limited", 0) /\ UNCHANGED rateHits
  <2>1. ledgerRows[c] + 0 = IF c \in charged THEN 1 ELSE 0 BY <1>1 DEF Billed
  <2>2. rateHits' \in 0 .. Rpm BY <1>1, <1>2 DEF CallsOk
  <2> QED BY <1>1, <1>2, <2>1, <2>2, CallEnds
<1>3. CASE /\ rateHits < Rpm
           /\ calls' = [calls EXCEPT ![c].at = "count", ![c].kind = kind, ![c].tokens = tokens]
           /\ rateHits' = rateHits + 1 /\ registered' = registered \cup {c} /\ UNCHANGED <<ledgerRows, armed>>
  <2>1. /\ DOMAIN calls' = Calls /\ calls'[c].at = "count" /\ DOMAIN calls'[c] = CallFields
        /\ \A d \in Calls : d # c => calls'[d] = calls[d]
    BY <1>1, <1>3 DEF CallsOk, CallFields
  <2>2. rateHits' \in 0 .. Rpm /\ registered' \subseteq Calls /\ aborted' \subseteq Calls BY <1>1, <1>3, CallsAssumption DEF CallsOk
  <2> QED BY <1>1, <1>3, <2>1, <2>2, CallMoves
<1>4. rateHits \in Int /\ Rpm \in Int BY <1>1, CallsAssumption DEF CallsOk
<1> QED BY <1>2, <1>3, <1>4 DEF StartCloud

LEMMA CloudSteps == ASSUME BillInv, NEW c \in Calls, CountEnds(c) \/ CloudAnswers(c) \/ BodyUnread(c) \/ BodyRead(c) PROVE BillInv'
<1>1. /\ Billed(c) /\ CallsOk /\ UNCHANGED <<aborted, rateHits>> /\ rateHits' \in 0 .. Rpm /\ aborted' \subseteq Calls
      /\ registered \subseteq Calls
  BY DEF BillInv, CallsOk, CountEnds, CloudAnswers, BodyUnread, BodyRead
<1>2. CASE CountEnds(c)
  <2>1. calls[c].at = "count" /\ UNCHANGED charged BY <1>2 DEF CountEnds, CallAt
  <2>2. ledgerRows[c] + 0 = IF c \in charged THEN 1 ELSE 0 BY <1>1, <2>1 DEF Billed
  <2>3. (\E r : EndModelCall(c, r, 0)) \/ (MoveTo(c, "send") /\ UNCHANGED <<ledgerRows, armed, registered>>)
    BY <1>2 DEF CountEnds
  <2>4. CASE \E r : EndModelCall(c, r, 0) BY <1>1, <2>1, <2>2, <2>4, CallEnds
  <2>5. CASE MoveTo(c, "send") /\ UNCHANGED <<ledgerRows, armed, registered>> BY <1>1, <2>1, <2>5, MovedCall, CallMoves
  <2> QED BY <2>3, <2>4, <2>5
<1>3. CASE CloudAnswers(c)
  <2>1. calls[c].at = "send" BY <1>3 DEF CloudAnswers, CallAt
  <2>2. CASE (\E r : EndModelCall(c, r, 0)) /\ UNCHANGED charged
    <3>1. ledgerRows[c] + 0 = IF c \in charged THEN 1 ELSE 0 BY <1>1, <2>1 DEF Billed
    <3> QED BY <1>1, <2>2, <3>1, CallEnds
  <2>3. CASE MoveTo(c, "read") /\ armed' = armed \cup {c} /\ charged' = charged \cup {c} /\ UNCHANGED <<ledgerRows, registered>>
    <3>1. /\ DOMAIN calls' = Calls /\ DOMAIN calls'[c] = CallFields /\ calls'[c].at = "read"
          /\ \A d \in Calls : d # c => calls'[d] = calls[d]
      BY <2>3, MovedCall
    <3>2. CallsOk' BY <1>1, <2>3, <3>1 DEF CallsOk, CallPlaces
    <3>3. Billed(c)' BY <1>1, <2>1, <2>3, <3>1 DEF Billed
    <3>4. \A d \in Calls : d # c => Billed(d)' BY <2>3, <3>1, OthersBilled
    <3> QED BY <3>2, <3>3, <3>4 DEF BillInv
  <2> QED BY <1>3, <2>2, <2>3 DEF CloudAnswers
<1>4. CASE BodyUnread(c) \/ BodyRead(c)
  <2>1. calls[c].at = "read" /\ UNCHANGED charged BY <1>4 DEF BodyUnread, BodyRead, CallAt
  <2>2. BillRow(c) = 1 /\ ledgerRows[c] + 1 = IF c \in charged THEN 1 ELSE 0 BY <1>1, <2>1 DEF Billed, BillRow
  <2>3. PICK r : EndModelCall(c, r, 1) BY <1>4, <2>2 DEF BodyUnread, BodyRead
  <2> QED BY <1>1, <2>1, <2>2, <2>3, CallEnds
<1> QED BY <1>2, <1>3, <1>4

LEMMA LocalSteps == ASSUME BillInv, NEW c \in Calls, StartLocal(c) \/ LocalReply(c) \/ SendAgain(c) PROVE BillInv'
<1>1. Billed(c) /\ CallsOk /\ UNCHANGED <<charged, rateHits>> /\ rateHits' \in 0 .. Rpm
      /\ registered \subseteq Calls /\ aborted \subseteq Calls
  BY DEF BillInv, CallsOk, StartLocal, LocalReply, SendAgain
<1>2. CASE StartLocal(c)
  <2>1. calls[c].at = "idle" /\ calls' = [calls EXCEPT ![c].at = "wait", ![c].kind = "local", ![c].try = 1] BY <1>2 DEF StartLocal, CallAt
  <2>2. /\ DOMAIN calls' = Calls /\ calls'[c].at = "wait" /\ DOMAIN calls'[c] = CallFields
        /\ \A d \in Calls : d # c => calls'[d] = calls[d]
    BY <1>1, <2>1 DEF CallsOk, CallFields
  <2>3. registered' \subseteq Calls /\ aborted' \subseteq Calls /\ UNCHANGED <<armed, ledgerRows>> BY <1>1, <1>2 DEF StartLocal
  <2> QED BY <1>1, <2>1, <2>2, <2>3, CallMoves
<1>3. CASE SendAgain(c)
  <2>1. calls[c].at = "again" /\ calls' = [calls EXCEPT ![c].at = "wait", ![c].try = 2] BY <1>3 DEF SendAgain, CallAt
  <2>2. /\ DOMAIN calls' = Calls /\ calls'[c].at = "wait" /\ DOMAIN calls'[c] = CallFields
        /\ \A d \in Calls : d # c => calls'[d] = calls[d]
    BY <1>1, <2>1 DEF CallsOk, CallFields
  <2>3. registered' \subseteq Calls /\ aborted' \subseteq Calls /\ UNCHANGED <<armed, ledgerRows>> BY <1>1, <1>3 DEF SendAgain
  <2> QED BY <1>1, <2>1, <2>2, <2>3, CallMoves
<1>4. CASE LocalReply(c)
  <2>1. calls[c].at = "wait" /\ UNCHANGED aborted BY <1>4 DEF LocalReply, CallAt
  <2>2. ledgerRows[c] + 0 = IF c \in charged THEN 1 ELSE 0 BY <1>1, <2>1 DEF Billed
  <2>3. \/ \E r : EndModelCall(c, r, 0)
        \/ MoveTo(c, "again") /\ registered' = registered \ {c} /\ UNCHANGED <<ledgerRows, armed>>
    BY <1>4 DEF LocalReply
  <2>4. CASE \E r : EndModelCall(c, r, 0) BY <1>1, <2>1, <2>2, <2>4, CallEnds
  <2>5. CASE MoveTo(c, "again") /\ registered' = registered \ {c} /\ UNCHANGED <<ledgerRows, armed>>
    <3>1. registered' \subseteq Calls /\ aborted' \subseteq Calls BY <1>1, <2>1, <2>5
    <3>2. /\ DOMAIN calls' = Calls /\ DOMAIN calls'[c] = CallFields /\ calls'[c].at = "again"
          /\ \A d \in Calls : d # c => calls'[d] = calls[d]
      BY <2>5, MovedCall
    <3> QED BY <1>1, <2>1, <2>5, <3>1, <3>2, CallMoves
  <2> QED BY <2>3, <2>4, <2>5
<1> QED BY <1>2, <1>3, <1>4

LEMMA ServerSteps == ASSUME BillInv, AbortChat \/ HitExpires PROVE BillInv'
<1>1. CallsOk BY DEF BillInv
<1>2. UNCHANGED <<calls, armed, charged, ledgerRows>> BY DEF AbortChat, HitExpires
<1>3. CallsOk' BY <1>1, <1>2, CallsAssumption DEF CallsOk, AbortChat, HitExpires
<1>4. \A c \in Calls : Billed(c)' BY <1>2 DEF BillInv, Billed
<1> QED BY <1>3, <1>4 DEF BillInv

LEMMA PullSteps == ASSUME PullInv, (\E p \in Pullers : PullStep(p)) \/ CancelPull PROVE PullInv'
<1>0. NoPuller \notin Pullers BY CallsAssumption DEF NoPuller
<1>1. ASSUME NEW p \in Pullers, PullStart(p) PROVE PullInv' BY <1>0, <1>1 DEF PullInv, PullPlaces, PullStart
<1>2. ASSUME NEW p \in Pullers, RegisterPull(p) PROVE PullInv' BY <1>0, <1>2 DEF PullInv, PullPlaces, RegisterPull
<1>3. ASSUME NEW p \in Pullers, PullEnds(p) PROVE PullInv' BY <1>0, <1>3 DEF PullInv, PullPlaces, PullEnds
<1>4. ASSUME NEW p \in Pullers, LeavePull(p) PROVE PullInv' BY <1>0, <1>4 DEF PullInv, PullPlaces, LeavePull, TakeSlot
<1>5. CASE CancelPull BY <1>0, <1>5 DEF PullInv, PullPlaces, CancelPull, TakeSlot
<1> QED BY <1>1, <1>2, <1>3, <1>4, <1>5 DEF PullStep

LEMMA CallsMove == ASSUME BillInv, PullInv, [CallsNext]_callVars PROVE BillInv' /\ PullInv'
<1>1. UNCHANGED cloudVars => BillInv' BY DEF cloudVars, BillInv, CallsOk, Billed
<1>2. UNCHANGED pullVars => PullInv' BY DEF pullVars, PullInv
<1>3. CASE UNCHANGED callVars BY <1>1, <1>2, <1>3 DEF callVars, cloudVars, pullVars
<1>4. ((\E c \in Calls : ModelCallStep(c)) \/ AbortChat \/ HitExpires) => BillInv'
  BY AbortedCalls, CloudStarts, CloudSteps, LocalSteps, ServerSteps DEF ModelCallStep
<1> QED BY <1>1, <1>2, <1>3, <1>4, PullSteps DEF CallsNext

LEMMA BillPromise == ASSUME BillInv PROVE BilledOnce
<1>1. CallsOk BY DEF BillInv
<1>2. ASSUME NEW c \in Calls
      PROVE  /\ ledgerRows[c] <= 1 /\ (ledgerRows[c] = 1 => c \in charged)
             /\ CallAt(c, "done") => (ledgerRows[c] = 1 <=> c \in charged)
  BY <1>1 DEF BillInv, CallsOk, Billed, CallPlaces, CallAt
<1> QED BY <1>2 DEF BilledOnce

LEMMA PullPromise == ASSUME PullInv PROVE PullAbortIsOwn
  BY DEF PullInv, PullAbortIsOwn


-----------------------------------------------------------------------------
(* Staged excerpts: one number each, carried once.                          *)

TurnKeys == {"pc", "owner", "session", "surface", "ids", "pins", "auditor"}
ExcerptInv ==
  /\ stagings \in Nat
  /\ DOMAIN staged = Readers /\ \A o \in Readers : staged[o].n \in 0 .. stagings
  /\ \A o, p \in Readers : staged[o].n # 0 /\ staged[p].n = staged[o].n => o = p
  /\ \A c \in carried : c.n \in 1 .. stagings /\ c.surface = "local"
  /\ \A a, b \in carried : a.n = b.n => a = b
  /\ \A o \in Readers : staged[o].n # 0 => \A c \in carried : c.n # staged[o].n
  /\ DOMAIN chatTurn = TurnKeys /\ (chatTurn.pc = "sized" => chatTurn.owner \in Readers /\ chatTurn.surface \in Surfaces)

LEMMA NothingFields == NothingStaged.n = 0 BY DEF NothingStaged
LEMMA NoTurnFields == DOMAIN NoChatTurn = TurnKeys /\ NoChatTurn.pc = "idle" BY DEF NoChatTurn, TurnKeys

LEMMA ExcerptsStart == ASSUME ExcerptInit PROVE ExcerptInv
  BY NothingFields, NoTurnFields DEF ExcerptInit, ExcerptInv

LEMMA TurnIsKept == ASSUME ExcerptInv, UNCHANGED chatTurn
                    PROVE  DOMAIN chatTurn' = TurnKeys /\ (chatTurn'.pc = "sized" => chatTurn'.owner \in Readers /\ chatTurn'.surface \in Surfaces)
  BY DEF ExcerptInv

(* Staged numbers may go, and nothing new is carried.                       *)
LEMMA StagedGoes ==
  ASSUME ExcerptInv, UNCHANGED <<stagings, carried>>, DOMAIN staged' = Readers,
         \A o \in Readers : staged'[o] = staged[o] \/ staged'[o] = NothingStaged,
         DOMAIN chatTurn' = TurnKeys, chatTurn'.pc = "sized" => chatTurn'.owner \in Readers /\ chatTurn'.surface \in Surfaces
  PROVE  ExcerptInv'
<1>1. \A o \in Readers : staged'[o].n = staged[o].n \/ staged'[o].n = 0 BY NothingFields
<1>2. \A o \in Readers : staged'[o].n \in 0 .. stagings' BY <1>1 DEF ExcerptInv
<1>3. \A o \in Readers : staged'[o].n # 0 => staged'[o].n = staged[o].n BY <1>1
<1> QED BY <1>2, <1>3 DEF ExcerptInv

LEMMA StagedStays == ASSUME ExcerptInv, UNCHANGED <<stagings, carried, staged>>,
                            DOMAIN chatTurn' = TurnKeys, chatTurn'.pc = "sized" => chatTurn'.owner \in Readers /\ chatTurn'.surface \in Surfaces
                     PROVE  ExcerptInv'
  BY StagedGoes DEF ExcerptInv

LEMMA DiagSteps ==
  ASSUME ExcerptInv, NEW o \in Readers, DiagRead(o) \/ DiagReadEnds(o) \/ DiagForget(o) \/ Logout(o) \/ SetRoleForgets(o) \/ ClearChatFiles(o)
  PROVE  ExcerptInv'
<1>1. CASE DiagRead(o) \/ DiagReadEnds(o) BY <1>1, TurnIsKept, StagedStays DEF DiagRead, DiagReadEnds, TurnKept
<1>2. CASE DiagForget(o) \/ Logout(o) \/ SetRoleForgets(o) \/ ClearChatFiles(o)
  <2>1. staged' = [staged EXCEPT ![o] = NothingStaged] /\ UNCHANGED <<stagings, carried>>
    BY <1>2 DEF DiagForget, Logout, SetRoleForgets, ClearChatFiles, ForgetOwner, TurnKept
  <2>2. DOMAIN staged' = Readers /\ \A p \in Readers : staged'[p] = staged[p] \/ staged'[p] = NothingStaged
    BY <2>1 DEF ExcerptInv
  <2>3. chatTurn' = chatTurn \/ chatTurn' = NoChatTurn
    BY <1>2 DEF DiagForget, Logout, SetRoleForgets, ClearChatFiles, TurnKept
  <2>4. DOMAIN chatTurn' = TurnKeys /\ (chatTurn'.pc = "sized" => chatTurn'.owner \in Readers /\ chatTurn'.surface \in Surfaces)
    BY <2>3, NoTurnFields, TurnIsKept
  <2> QED BY <2>1, <2>2, <2>4, StagedGoes
<1> QED BY <1>1, <1>2

LEMMA InjectStep == ASSUME ExcerptInv, NEW o \in Readers, DiagInject(o) PROVE ExcerptInv'
<1>1. PICK s : staged' = [staged EXCEPT ![o] = [n |-> stagings + 1, session |-> s]] BY DEF DiagInject, StageExcerpt
<1>2. stagings' = stagings + 1 /\ UNCHANGED <<chatTurn, carried>> /\ stagings \in Nat BY DEF DiagInject, TurnKept, ExcerptInv
<1>3. PICK k \in Nat : k = stagings + 1 BY <1>2
<1>4. DOMAIN staged' = Readers /\ staged'[o].n = k /\ \A p \in Readers : p # o => staged'[p] = staged[p]
  BY <1>1, <1>3 DEF ExcerptInv
<1>5. \A p \in Readers : p # o => staged'[p].n \in 0 .. stagings BY <1>4 DEF ExcerptInv
<1>6. \A p \in Readers : staged'[p].n \in 0 .. stagings' BY <1>2, <1>3, <1>4, <1>5
<1>7. \A p, q \in Readers : staged'[p].n # 0 /\ staged'[q].n = staged'[p].n => p = q
  <2>1. k > stagings /\ k \notin 0 .. stagings BY <1>2, <1>3
  <2>2. SUFFICES ASSUME NEW p \in Readers, NEW q \in Readers, staged'[p].n # 0, staged'[q].n = staged'[p].n PROVE p = q OBVIOUS
  <2>3. CASE p = o BY <1>4, <1>5, <2>1, <2>2, <2>3
  <2>4. CASE q = o BY <1>4, <1>5, <2>1, <2>2, <2>4
  <2>5. CASE p # o /\ q # o BY <1>4, <2>2, <2>5 DEF ExcerptInv
  <2> QED BY <2>3, <2>4, <2>5
<1>8. \A c \in carried' : c.n \in 1 .. stagings /\ c.surface = "local" BY <1>2 DEF ExcerptInv
<1>9. \A p \in Readers : staged'[p].n # 0 => \A c \in carried' : c.n # staged'[p].n
  <2>1. \A n \in 1 .. stagings : n # k BY <1>2, <1>3
  <2> QED BY <1>2, <1>4, <1>8, <2>1 DEF ExcerptInv
<1>10. \A c \in carried' : c.n \in 1 .. stagings' /\ c.surface = "local" BY <1>2, <1>8
<1>11. \A a, b \in carried' : a.n = b.n => a = b BY <1>2 DEF ExcerptInv
<1>12. stagings' \in Nat BY <1>2
<1> QED BY <1>2, <1>4, <1>6, <1>7, <1>9, <1>10, <1>11, <1>12, TurnIsKept DEF ExcerptInv

(* The one step that carries: what it carries is staged no longer.          *)
LEMMA ComposeStep == ASSUME ExcerptInv, ChatComposes PROVE ExcerptInv'
<1> DEFINE t == chatTurn
           got == ForTurn(t.owner, t.session, t.surface)
<1>1. chatTurn.pc = "sized" /\ UNCHANGED stagings /\ chatTurn.owner \in Readers /\ chatTurn.surface \in Surfaces /\ DOMAIN chatTurn = TurnKeys
  BY DEF ChatComposes, ExcerptInv
<1>2. PICK o, x : o \in Readers /\ o = chatTurn.owner /\ x = staged[o] BY <1>1
<1>3. chatTurn' = NoChatTurn \/ chatTurn' = [chatTurn EXCEPT !.pc = "running"] BY DEF ChatComposes
<1>4. DOMAIN chatTurn' = TurnKeys /\ chatTurn'.pc # "sized" BY <1>1, <1>3, NoTurnFields DEF TurnKeys
<1>5. CASE UNCHANGED <<staged, carried>> BY <1>1, <1>4, <1>5, StagedStays
<1>6. CASE staged' = [staged EXCEPT ![o] = got[2]] /\ UNCHANGED carried
  <2>1. got[2] = x \/ got[2] = NothingStaged BY <1>2 DEF ForTurn
  <2>2. DOMAIN staged' = Readers /\ \A p \in Readers : staged'[p] = staged[p] \/ staged'[p] = NothingStaged
    BY <1>2, <1>6, <2>1 DEF ExcerptInv
  <2> QED BY <1>1, <1>4, <1>6, <2>2, StagedGoes
<1>7. CASE /\ staged' = [staged EXCEPT ![o] = got[2]] /\ got[1] # 0
           /\ carried' = carried \cup {[n |-> got[1], surface |-> t.surface, session |-> t.session, turn |-> turnNo + 1]}
  <2>1. chatTurn.surface = "local" BY <1>1, <1>7 DEF ForTurn, Surfaces
  <2>2. got[1] = x.n /\ got[2] = NothingStaged BY <1>2, <1>7, <2>1 DEF ForTurn
  <2>3. PICK c : c = [n |-> x.n, surface |-> "local", session |-> t.session, turn |-> turnNo + 1] OBVIOUS
  <2>4. carried' = carried \cup {c} /\ c.n = x.n /\ c.surface = "local" BY <1>7, <2>1, <2>2, <2>3
  <2>5. x.n \in 0 .. stagings /\ x.n # 0 BY <1>2, <1>7, <2>2 DEF ExcerptInv
  <2>6. x.n \in 1 .. stagings BY <2>5
  <2>7. DOMAIN staged' = Readers /\ staged'[o].n = 0 /\ \A p \in Readers : p # o => staged'[p] = staged[p]
    BY <1>2, <1>7, <2>2, NothingFields DEF ExcerptInv
  <2>8. \A d \in carried : d.n # x.n BY <1>2, <2>5 DEF ExcerptInv
  <2>9. \A p \in Readers : p # o => staged[p].n # x.n BY <1>2, <2>5 DEF ExcerptInv
  <2>10. \A d \in carried' : d.n \in 1 .. stagings' /\ d.surface = "local" BY <1>1, <2>4, <2>6 DEF ExcerptInv
  <2>11. \A a, b \in carried' : a.n = b.n => a = b BY <2>4, <2>8 DEF ExcerptInv
  <2>12. \A p \in Readers : staged'[p].n # 0 => \A d \in carried' : d.n # staged'[p].n BY <2>4, <2>7, <2>9 DEF ExcerptInv
  <2>13. \A p \in Readers : staged'[p].n \in 0 .. stagings' BY <1>1, <2>7 DEF ExcerptInv
  <2>14. \A p, q \in Readers : staged'[p].n # 0 /\ staged'[q].n = staged'[p].n => p = q BY <2>7 DEF ExcerptInv
  <2>15. stagings' \in Nat BY <1>1 DEF ExcerptInv
  <2> QED BY <1>4, <2>7, <2>10, <2>11, <2>12, <2>13, <2>14, <2>15 DEF ExcerptInv
<1> QED BY <1>2, <1>5, <1>6, <1>7 DEF ChatComposes

LEMMA TurnSteps ==
  ASSUME ExcerptInv, SetRole \/ AttachFile \/ ChatEnds \/ \E s \in ChatSessions : Unpin(s) \/ ChatBegins(s)
  PROVE  ExcerptInv'
<1>1. UNCHANGED <<stagings, carried, staged>>
  BY DEF SetRole, AttachFile, ChatEnds, Unpin, ChatBegins, TurnKept, DiagKept
<1>2. CASE SetRole \/ AttachFile \/ \E s \in ChatSessions : Unpin(s)
  <2>1. UNCHANGED chatTurn BY <1>2 DEF SetRole, AttachFile, Unpin, TurnKept
  <2> QED BY <1>1, <2>1, TurnIsKept, StagedStays
<1>3. CASE ChatEnds BY <1>1, <1>3, NoTurnFields, StagedStays DEF ChatEnds
<1>4. ASSUME NEW s \in ChatSessions, ChatBegins(s) PROVE ExcerptInv'
  <2>1. SessionOwner[s] \in Readers BY ExcerptAssumption
  <2>2. PICK surface \in Surfaces, ids \in {<<>>} \cup {<<f>> : f \in liveFiles} :
          chatTurn' = [pc |-> "sized", owner |-> SessionOwner[s], session |-> s, surface |-> surface, ids |-> ids,
                       pins |-> pinned[s], auditor |-> roleOf[SessionOwner[s]] = "portal_auditor"]
    BY <1>4 DEF ChatBegins
  <2>3. DOMAIN chatTurn' = TurnKeys /\ chatTurn'.owner \in Readers /\ chatTurn'.surface \in Surfaces BY <2>1, <2>2 DEF TurnKeys
  <2> QED BY <1>1, <2>3, StagedStays
<1> QED BY <1>2, <1>3, <1>4

LEMMA ExcerptsMove == ASSUME ExcerptInv, [ExcerptNext]_excerptVars PROVE ExcerptInv'
<1>1. CASE UNCHANGED excerptVars BY <1>1 DEF excerptVars, ExcerptInv
<1>2. CASE ExcerptNext BY <1>2, DiagSteps, InjectStep, ComposeStep, TurnSteps DEF ExcerptNext
<1> QED BY <1>1, <1>2

LEMMA ExcerptPromise == ASSUME ExcerptInv PROVE ExcerptOnce
  BY DEF ExcerptInv, ExcerptOnce


-----------------------------------------------------------------------------
(* A chat turn: its spend, and the session it answers to.                   *)

ChatFields == {"pc", "sid", "owner", "kind", "snap", "plan", "fits", "pending"}
Unbilled == {"idle", "verify", "gate", "load", "compose", "summarize", "recheck", "reply", "read"}
(* What a turn wrote and what its pending usage will write make one row for *)
(* a response, and none is written before the answer was read.              *)
SpendOf(t) ==
  /\ DOMAIN chatTurns[t] = ChatFields /\ chatTurns[t].pending \in BOOLEAN /\ chatTurns[t].sid \in SessionIds
  /\ ledger[t] \in Nat /\ ledger[t] + PendingRows(t) = (IF t \in responded THEN 1 ELSE 0)
  /\ chatTurns[t].pc \in Unbilled => ledger[t] = 0
  /\ chatTurns[t].pc \in {"idle", "verify", "done"} => ~chatTurns[t].pending
  /\ chatTurns[t].pc = "read" => chatTurns[t].pending
SpendInv == DOMAIN chatTurns = Turns /\ DOMAIN ledger = Turns /\ \A t \in Turns : SpendOf(t)

SessionKeys == {"owner", "msgs", "edits"}
(* A session that exists has an owner and every accepted edit; one that was *)
(* cleared does not exist, and one that never did has no edits.             *)
Kept(s) ==
  /\ DOMAIN sessions[s] = SessionKeys
  /\ sessions[s].owner \in ChatOwners => sessions[s].edits = edits[s] /\ s \notin chatCleared
  /\ sessions[s].owner \notin ChatOwners => sessions[s] = NoSession /\ (s \notin chatCleared => edits[s] = 0)
StoreInv ==
  /\ DOMAIN sessions = SessionIds /\ DOMAIN edits = SessionIds
  /\ \A s \in SessionIds : Kept(s)

LEMMA NoSessionFields == DOMAIN NoSession = SessionKeys /\ NoSession.owner \notin ChatOwners /\ NoSession.edits = 0
  BY ChatAssumption DEF NoSession, NoHolder, SessionKeys
LEMMA ExistsOwned == ASSUME NEW s, Kept(s) PROVE Exists(s) <=> sessions[s].owner \in ChatOwners
  BY NoSessionFields DEF Kept, Exists
LEMMA IdleFields == DOMAIN IdleTurn = ChatFields /\ IdleTurn.pending = FALSE /\ IdleTurn.sid \in SessionIds /\ IdleTurn.pc = "idle"
  BY ChatAssumption DEF IdleTurn, ChatFields

LEMMA ChatStarts == ASSUME ChatInit PROVE SpendInv /\ StoreInv
<1>1. SpendInv
  <2>1. DOMAIN chatTurns = Turns /\ DOMAIN ledger = Turns BY DEF ChatInit
  <2>2. ASSUME NEW t \in Turns PROVE SpendOf(t)
    <3>1. chatTurns[t] = IdleTurn /\ ledger[t] = 0 /\ t \notin responded BY DEF ChatInit
    <3>2. chatTurns[t].pending = FALSE /\ chatTurns[t].pc = "idle" /\ DOMAIN chatTurns[t] = ChatFields /\ chatTurns[t].sid \in SessionIds
      BY <3>1, IdleFields
    <3>3. PendingRows(t) = 0 BY <3>2 DEF PendingRows
    <3>4. ledger[t] \in Nat /\ ledger[t] + PendingRows(t) = IF t \in responded THEN 1 ELSE 0 BY ONLY <3>1, <3>3
    <3> QED BY <3>1, <3>2, <3>4 DEF SpendOf
  <2> QED BY <2>1, <2>2 DEF SpendInv
<1>2. StoreInv
  <2>1. DOMAIN sessions = SessionIds /\ DOMAIN edits = SessionIds /\ chatCleared = {} BY DEF ChatInit
  <2>2. ASSUME NEW s \in SessionIds PROVE Kept(s)
    <3>1. edits[s] = 0 BY DEF ChatInit
    <3>2. CASE s = FirstSession
      <4>1. PICK m : sessions[s] = [owner |-> FirstOwner, msgs |-> m, edits |-> 0] BY <3>2 DEF ChatInit
      <4> QED BY <2>1, <3>1, <4>1, ChatAssumption DEF Kept, SessionKeys
    <3>3. CASE s # FirstSession
      <4>1. sessions[s] = NoSession BY <3>3 DEF ChatInit
      <4> QED BY <3>1, <4>1, NoSessionFields DEF Kept
    <3> QED BY <3>2, <3>3
  <2> QED BY <2>1, <2>2 DEF StoreInv
<1> QED BY <1>1, <1>2

(* A step of one turn leaves the spend of the others alone.                 *)
LEMMA SpendKept ==
  ASSUME SpendInv, NEW t \in Turns, DOMAIN chatTurns' = Turns, DOMAIN ledger' = Turns,
         \A u \in Turns : u # t => chatTurns'[u] = chatTurns[u] /\ ledger'[u] = ledger[u] /\ (u \in responded' <=> u \in responded),
         SpendOf(t)'
  PROVE  SpendInv'
<1>1. \A u \in Turns : u # t => SpendOf(u)' BY DEF SpendInv, SpendOf, PendingRows
<1> QED BY <1>1 DEF SpendInv

(* The turn moves to another place and keeps its usage.                     *)
LEMMA TurnGoes ==
  ASSUME SpendInv, NEW t \in Turns, UNCHANGED <<ledger, responded>>,
         DOMAIN chatTurns' = Turns, \A u \in Turns : u # t => chatTurns'[u] = chatTurns[u],
         DOMAIN chatTurns'[t] = ChatFields, chatTurns'[t].pending = chatTurns[t].pending, chatTurns'[t].sid = chatTurns[t].sid,
         chatTurns'[t].pc \in Unbilled => chatTurns[t].pc \in Unbilled,
         chatTurns'[t].pc \notin {"idle", "verify", "done", "read"}
  PROVE  SpendInv'
<1>1. SpendOf(t) BY DEF SpendInv
<1>2. SpendOf(t)' BY <1>1 DEF SpendOf, PendingRows
<1>3. DOMAIN ledger' = Turns BY DEF SpendInv
<1> QED BY <1>2, <1>3, SpendKept

LEMMA GoneTo ==
  ASSUME SpendInv, NEW t \in Turns, NEW at, Goto(t, at), UNCHANGED <<ledger, responded>>,
         at \in Unbilled => chatTurns[t].pc \in Unbilled, at \notin {"idle", "verify", "done", "read"}
  PROVE  SpendInv'
<1>1. DOMAIN chatTurns[t] = ChatFields /\ DOMAIN chatTurns = Turns BY DEF SpendInv, SpendOf
<1>2. /\ DOMAIN chatTurns' = Turns /\ \A u \in Turns : u # t => chatTurns'[u] = chatTurns[u]
      /\ DOMAIN chatTurns'[t] = ChatFields /\ chatTurns'[t].pending = chatTurns[t].pending /\ chatTurns'[t].sid = chatTurns[t].sid
      /\ chatTurns'[t].pc = at
  BY <1>1 DEF Goto, ChatFields
<1> QED BY <1>2, TurnGoes

(* Every exit: the rows it writes are the ones the response still lacked.   *)
LEMMA TurnLeaves ==
  ASSUME SpendInv, NEW t \in Turns, NEW rows \in Nat, LeaveChat(t, rows),
         \A u \in Turns : u # t => (u \in responded' <=> u \in responded),
         ledger[t] + rows = IF t \in responded' THEN 1 ELSE 0
  PROVE  SpendInv'
<1>1. SpendOf(t) /\ DOMAIN chatTurns = Turns /\ DOMAIN ledger = Turns BY DEF SpendInv
<1>2. PICK x : x = [IdleTurn EXCEPT !.pc = "done"] OBVIOUS
<1>3. DOMAIN x = ChatFields /\ x.pc = "done" /\ x.pending = FALSE /\ x.sid \in SessionIds BY <1>2, IdleFields DEF ChatFields
<1>4. chatTurns' = [chatTurns EXCEPT ![t] = x] /\ ledger' = [ledger EXCEPT ![t] = ledger[t] + rows] BY <1>2 DEF LeaveChat
<1>5. /\ DOMAIN chatTurns' = Turns /\ DOMAIN ledger' = Turns /\ chatTurns'[t] = x /\ ledger'[t] = ledger[t] + rows
      /\ \A u \in Turns : u # t => chatTurns'[u] = chatTurns[u] /\ ledger'[u] = ledger[u]
  BY <1>1, <1>4
<1>6. ledger[t] \in Nat BY <1>1 DEF SpendOf
<1>7. PendingRows(t)' = 0 BY <1>3, <1>5 DEF PendingRows
<1>8. ledger'[t] \in Nat /\ ledger'[t] + PendingRows(t)' = IF t \in responded' THEN 1 ELSE 0 BY <1>5, <1>6, <1>7
<1>9. SpendOf(t)' BY <1>3, <1>5, <1>8 DEF SpendOf, Unbilled
<1> QED BY <1>5, <1>9, SpendKept

LEMMA TurnDrops == ASSUME SpendInv, NEW t \in Turns, DropTurn(t) PROVE SpendInv' /\ UNCHANGED storeVars
<1>1. LeaveChat(t, PendingRows(t)) /\ UNCHANGED responded /\ UNCHANGED storeVars BY DEF DropTurn
<1>2. PendingRows(t) \in Nat BY DEF PendingRows
<1>3. ledger[t] + PendingRows(t) = IF t \in responded' THEN 1 ELSE 0 BY <1>1 DEF SpendInv, SpendOf
<1> QED BY <1>1, <1>2, <1>3, TurnLeaves

(* Everything but the session files.                                        *)
LEMMA StoreUnmoved == ASSUME StoreInv, UNCHANGED <<sessions, edits, chatCleared>> PROVE StoreInv'
  BY DEF StoreInv, Kept

LEMMA BeginStep == ASSUME SpendInv, StoreInv, NEW t \in Turns, BeginChatTurn(t) PROVE SpendInv' /\ StoreInv'
<1>1. PICK o \in ChatOwners, s \in SessionIds :
        (\E kind \in {"local", "loop", "cloud"} : SnapshotSession(t, o, s, kind)) \/ CreateSession(t, o, s)
  BY DEF BeginChatTurn
<1>2. chatTurns[t].pc = "idle" /\ UNCHANGED <<ledger, responded>> BY <1>1 DEF SnapshotSession, CreateSession, At
<1>3. PICK kind, m : Begin(t, o, s, kind, m) BY <1>1 DEF SnapshotSession, CreateSession
<1>4. PICK x : x = [IdleTurn EXCEPT !.pc = "verify", !.sid = s, !.owner = o, !.kind = kind, !.snap = m] OBVIOUS
<1>5. DOMAIN x = ChatFields /\ x.pc = "verify" /\ x.pending = FALSE /\ x.sid \in SessionIds BY <1>4, IdleFields DEF ChatFields
<1>6. chatTurns' = [chatTurns EXCEPT ![t] = x] BY <1>3, <1>4 DEF Begin
<1>7. SpendOf(t) /\ DOMAIN chatTurns = Turns /\ DOMAIN ledger = Turns BY DEF SpendInv
<1>8. DOMAIN chatTurns' = Turns /\ chatTurns'[t] = x /\ (\A u \in Turns : u # t => chatTurns'[u] = chatTurns[u]) BY <1>6, <1>7
<1>9. SpendOf(t)' BY <1>2, <1>5, <1>7, <1>8 DEF SpendOf, PendingRows, Unbilled
<1>10. SpendInv' BY <1>2, <1>7, <1>8, <1>9, SpendKept
<1>11. CASE UNCHANGED <<sessions, edits, chatCleared>> BY <1>10, <1>11, StoreUnmoved
<1>12. CASE CreateSession(t, o, s)
  <2>1. /\ ~Exists(s) /\ s \notin chatCleared /\ UNCHANGED <<edits, chatCleared>>
        /\ sessions' = [sessions EXCEPT ![s] = [NoSession EXCEPT !.owner = o]]
    BY <1>12 DEF CreateSession
  <2>2. PICK new : new = [NoSession EXCEPT !.owner = o] OBVIOUS
  <2>3. DOMAIN new = SessionKeys /\ new.owner = o /\ new.edits = 0 BY <2>2, NoSessionFields DEF SessionKeys
  <2>4. DOMAIN sessions = SessionIds /\ Kept(s) BY DEF StoreInv
  <2>5. edits[s] = 0 BY <2>1, <2>4, ExistsOwned DEF Kept
  <2>6. DOMAIN sessions' = SessionIds /\ sessions'[s] = new /\ \A r \in SessionIds : r # s => sessions'[r] = sessions[r]
    BY <2>1, <2>2, <2>4
  <2>7. Kept(s)' BY <1>1, <2>1, <2>3, <2>5, <2>6 DEF Kept
  <2>8. \A r \in SessionIds : r # s => Kept(r)' BY <2>1, <2>6 DEF StoreInv, Kept
  <2> QED BY <1>10, <2>1, <2>6, <2>7, <2>8 DEF StoreInv
<1> QED BY <1>1, <1>11, <1>12 DEF SnapshotSession, storeVars

LEMMA QuietTurnSteps ==
  ASSUME SpendInv, NEW t \in Turns,
         \/ EnterTurn(t) \/ TakeGate(t) \/ LoadModel(t) \/ Summarize(t) \/ Recheck(t) \/ PinAttachments(t)
         \/ \E n \in PasteSizes : Compose(t, n)
  PROVE  SpendInv' /\ UNCHANGED storeVars
<1>1. UNCHANGED <<ledger, responded>> /\ UNCHANGED storeVars
  BY DEF EnterTurn, TakeGate, LoadModel, Summarize, Recheck, PinAttachments, Compose
<1>2. chatTurns[t].pc \in {"verify", "gate", "load", "compose", "summarize", "recheck", "pin"}
  BY DEF EnterTurn, TakeGate, LoadModel, Summarize, Recheck, PinAttachments, Compose, Polled, At
<1>3. SpendOf(t) /\ DOMAIN chatTurns = Turns BY DEF SpendInv
<1>4. CASE \E at \in {"gate", "load", "compose", "reply", "recheck"} : Goto(t, at) /\ chatTurns[t].pc # "pin"
  BY <1>1, <1>2, <1>4, GoneTo DEF Unbilled
<1>5. CASE Goto(t, "episode") BY <1>1, <1>5, GoneTo DEF Unbilled
<1>6. CASE /\ chatTurns[t].pc # "pin"
           /\ \E p, f : \/ chatTurns' = [chatTurns EXCEPT ![t].pc = "recheck", ![t].plan = p]
                        \/ chatTurns' = [chatTurns EXCEPT ![t].pc = "summarize", ![t].fits = f]
  <2>1. /\ DOMAIN chatTurns' = Turns /\ \A u \in Turns : u # t => chatTurns'[u] = chatTurns[u]
        /\ DOMAIN chatTurns'[t] = ChatFields /\ chatTurns'[t].pending = chatTurns[t].pending /\ chatTurns'[t].sid = chatTurns[t].sid
        /\ chatTurns'[t].pc \in {"recheck", "summarize"}
    BY <1>3, <1>6 DEF SpendOf, ChatFields
  <2> QED BY <1>1, <1>2, <1>6, <2>1, TurnGoes DEF Unbilled
<1>7. CASE \E n \in PasteSizes : Compose(t, n)
  <2>1. chatTurns[t].pc = "compose" BY <1>7 DEF Compose, Polled, At
  <2>2. \/ Goto(t, "reply") \/ Goto(t, "recheck")
        \/ chatTurns' = [chatTurns EXCEPT ![t].pc = "recheck", ![t].plan = Plan(t)]
        \/ \E f : chatTurns' = [chatTurns EXCEPT ![t].pc = "summarize", ![t].fits = f]
    BY <1>7 DEF Compose
  <2> QED BY <1>4, <1>6, <2>1, <2>2
<1>8. CASE EnterTurn(t) \/ TakeGate(t) \/ LoadModel(t) \/ Recheck(t)
  BY <1>4, <1>8 DEF EnterTurn, TakeGate, LoadModel, Recheck, Polled, At
<1>9. CASE Summarize(t)
  <2>1. chatTurns[t].pc = "summarize" BY <1>9 DEF Summarize, Polled, At
  <2>2. Goto(t, "recheck") \/ chatTurns' = [chatTurns EXCEPT ![t].pc = "recheck", ![t].plan = Plan(t)] BY <1>9 DEF Summarize
  <2> QED BY <1>4, <1>6, <2>1, <2>2
<1>10. CASE PinAttachments(t) BY <1>5, <1>10 DEF PinAttachments
<1> QED BY <1>7, <1>8, <1>9, <1>10

LEMMA RefusedTurns == ASSUME SpendInv, NEW t \in Turns, RefuseBusy(t) \/ RefuseLoop(t) PROVE SpendInv' /\ UNCHANGED storeVars
<1>1. UNCHANGED <<ledger, responded>> /\ UNCHANGED storeVars /\ chatTurns[t].pc = "verify"
      /\ chatTurns' = [chatTurns EXCEPT ![t] = [IdleTurn EXCEPT !.pc = "done"]]
  BY DEF RefuseBusy, RefuseLoop, At
<1>2. PICK x : x = [IdleTurn EXCEPT !.pc = "done"] OBVIOUS
<1>3. DOMAIN x = ChatFields /\ x.pc = "done" /\ x.pending = FALSE /\ x.sid \in SessionIds BY <1>2, IdleFields DEF ChatFields
<1>4. SpendOf(t) /\ DOMAIN chatTurns = Turns /\ DOMAIN ledger = Turns BY DEF SpendInv
<1>5. DOMAIN chatTurns' = Turns /\ chatTurns'[t] = x /\ (\A u \in Turns : u # t => chatTurns'[u] = chatTurns[u]) BY <1>1, <1>2, <1>4
<1>6. SpendOf(t)' BY <1>1, <1>3, <1>4, <1>5 DEF SpendOf, PendingRows, Unbilled
<1> QED BY <1>1, <1>4, <1>5, <1>6, SpendKept

LEMMA LostTurns ==
  ASSUME SpendInv, NEW t \in Turns,
         \/ FailUnbilled(t) \/ LateReply(t) \/ FinishTurn(t) \/ CancelTurn(t) \/ DropHandler(t)
         \/ \E n \in PasteSizes : TooLarge(t, n)
  PROVE  SpendInv' /\ UNCHANGED storeVars
  BY TurnDrops DEF FailUnbilled, LateReply, FinishTurn, CancelTurn, DropHandler, TooLarge

LEMMA BillingSteps == ASSUME SpendInv, NEW t \in Turns, ToolRound(t) \/ Answer(t) \/ FailBilled(t) \/ BillUsage(t) PROVE SpendInv' /\ UNCHANGED storeVars
<1>1. SpendOf(t) /\ DOMAIN chatTurns = Turns /\ DOMAIN ledger = Turns /\ UNCHANGED storeVars
  BY DEF SpendInv, ToolRound, Answer, FailBilled, BillUsage
<1>2. CASE ToolRound(t) \/ (Answer(t) /\ chatTurns[t].kind # "cloud")
  <2>1. chatTurns[t].pc = "reply" /\ responded' = responded \cup {t} /\ UNCHANGED ledger
    BY <1>2 DEF ToolRound, Answer, Polled, At
  <2>2. \/ chatTurns' = [chatTurns EXCEPT ![t].pending = TRUE]
        \/ chatTurns' = [chatTurns EXCEPT ![t].pc = "read", ![t].pending = TRUE]
    BY <1>2 DEF ToolRound, Answer
  <2>3. /\ DOMAIN chatTurns' = Turns /\ \A u \in Turns : u # t => chatTurns'[u] = chatTurns[u]
        /\ DOMAIN chatTurns'[t] = ChatFields /\ chatTurns'[t].pending = TRUE /\ chatTurns'[t].sid = chatTurns[t].sid
        /\ chatTurns'[t].pc \in {"reply", "read"}
    BY <1>1, <2>1, <2>2 DEF SpendOf, ChatFields
  <2>4. ledger[t] = 0 BY <1>1, <2>1 DEF SpendOf, Unbilled
  <2>5. PendingRows(t)' = 1 BY <2>3 DEF PendingRows
  <2>6. ledger'[t] = 0 /\ t \in responded' BY <2>1, <2>4
  <2>7. ledger'[t] \in Nat /\ ledger'[t] + PendingRows(t)' = IF t \in responded' THEN 1 ELSE 0 BY ONLY <2>5, <2>6
  <2>8. chatTurns[t].sid \in SessionIds BY <1>1 DEF SpendOf
  <2>9. SpendOf(t)' BY <2>3, <2>6, <2>7, <2>8 DEF SpendOf
  <2> QED BY <1>1, <2>1, <2>3, <2>9, SpendKept
<1>3. CASE Answer(t) /\ chatTurns[t].kind = "cloud"
  <2>1. Goto(t, "store") /\ UNCHANGED <<ledger, responded>> BY <1>3 DEF Answer
  <2> QED BY <1>1, <2>1, GoneTo DEF Unbilled
<1>4. CASE FailBilled(t)
  <2>1. LeaveChat(t, 1) /\ responded' = responded \cup {t} /\ chatTurns[t].pc = "reply" BY <1>4 DEF FailBilled, Polled, At
  <2>2. ledger[t] = 0 BY <1>1, <2>1 DEF SpendOf, Unbilled
  <2>3. ledger[t] + 1 = IF t \in responded' THEN 1 ELSE 0 BY <2>1, <2>2
  <2> QED BY <1>1, <2>1, <2>3, TurnLeaves
<1>5. CASE BillUsage(t)
  <2>1. /\ chatTurns[t].pc = "read" /\ chatTurns' = [chatTurns EXCEPT ![t].pc = "store", ![t].pending = FALSE]
        /\ ledger' = [ledger EXCEPT ![t] = ledger[t] + 1] /\ UNCHANGED responded
    BY <1>5 DEF BillUsage, Polled, At
  <2>2. /\ DOMAIN chatTurns' = Turns /\ \A u \in Turns : u # t => chatTurns'[u] = chatTurns[u]
        /\ DOMAIN chatTurns'[t] = ChatFields /\ chatTurns'[t].pending = FALSE /\ chatTurns'[t].sid = chatTurns[t].sid
        /\ chatTurns'[t].pc = "store"
    BY <1>1, <2>1 DEF SpendOf, ChatFields
  <2>3. ledger[t] = 0 /\ chatTurns[t].pending BY <1>1, <2>1 DEF SpendOf, Unbilled
  <2>4. t \in responded BY <1>1, <2>3 DEF SpendOf, PendingRows
  <2>5. DOMAIN ledger' = Turns /\ ledger'[t] = 1 /\ \A u \in Turns : u # t => ledger'[u] = ledger[u] BY <1>1, <2>1, <2>3
  <2>6. SpendOf(t)' BY <1>1, <2>1, <2>2, <2>4, <2>5 DEF SpendOf, PendingRows, Unbilled
  <2> QED BY <1>1, <2>1, <2>2, <2>5, <2>6, SpendKept
<1> QED BY <1>2, <1>3, <1>4, <1>5

(* One session is written under the lock: it keeps its owner.               *)
LEMMA SessionWritten ==
  ASSUME StoreInv, NEW s \in SessionIds, Exists(s), UNCHANGED chatCleared, DOMAIN sessions' = SessionIds, DOMAIN edits' = SessionIds,
         \A r \in SessionIds : r # s => sessions'[r] = sessions[r] /\ edits'[r] = edits[r],
         DOMAIN sessions'[s] = SessionKeys, sessions'[s].owner = sessions[s].owner,
         sessions[s].edits = edits[s] => sessions'[s].edits = edits'[s]
  PROVE  StoreInv'
<1>1. Kept(s) /\ sessions[s].owner \in ChatOwners BY ExistsOwned DEF StoreInv
<1>2. Kept(s)' BY <1>1 DEF Kept
<1>3. \A r \in SessionIds : r # s => Kept(r)' BY DEF StoreInv, Kept
<1> QED BY <1>2, <1>3 DEF StoreInv

LEMMA RecordStep == ASSUME SpendInv, StoreInv, NEW t \in Turns, RecordExchange(t) PROVE SpendInv' /\ StoreInv'
<1>1. PICK s \in SessionIds : s = chatTurns[t].sid BY DEF SpendInv, SpendOf
<1>2. PICK m : sessions' = [sessions EXCEPT ![s].msgs = m] BY <1>1 DEF RecordExchange
<1>3. Exists(s) /\ UNCHANGED <<edits, chatCleared, ledger, responded>> /\ chatTurns[t].pc = "store" BY <1>1 DEF RecordExchange, At
<1>4. DOMAIN sessions = SessionIds /\ DOMAIN edits = SessionIds /\ DOMAIN sessions[s] = SessionKeys BY DEF StoreInv, Kept
<1>5. /\ DOMAIN sessions' = SessionIds /\ \A r \in SessionIds : r # s => sessions'[r] = sessions[r]
      /\ DOMAIN sessions'[s] = SessionKeys /\ sessions'[s].owner = sessions[s].owner /\ sessions'[s].edits = sessions[s].edits
  BY <1>2, <1>4 DEF SessionKeys
<1>6. StoreInv' BY <1>3, <1>4, <1>5, SessionWritten
<1>7. Goto(t, "episode") \/ Goto(t, "pin") BY DEF RecordExchange
<1>8. SpendInv' BY <1>3, <1>7, GoneTo DEF Unbilled
<1> QED BY <1>6, <1>8

LEMMA OtherRequests ==
  ASSUME SpendInv, StoreInv,
         \/ \E o \in ChatOwners : CancelChat(o) \/ ClearBegin(o) \/ ClearStore(o)
         \/ \E s \in SessionIds : EditSession(s)
  PROVE  SpendInv' /\ StoreInv'
<1>1. SpendInv'
  <2>1. UNCHANGED <<chatTurns, ledger, responded>> BY DEF CancelChat, ClearBegin, ClearStore, EditSession
  <2> QED BY <2>1 DEF SpendInv, SpendOf, PendingRows
<1>2. CASE \E o \in ChatOwners : CancelChat(o) \/ ClearBegin(o)
  BY <1>1, <1>2, StoreUnmoved DEF CancelChat, ClearBegin, storeVars
<1>3. ASSUME NEW o \in ChatOwners, ClearStore(o) PROVE StoreInv'
  <2>1. PICK mine : mine = {s \in SessionIds : sessions[s].owner = o} OBVIOUS
  <2>2. /\ sessions' = [s \in SessionIds |-> IF s \in mine THEN NoSession ELSE sessions[s]]
        /\ chatCleared' = chatCleared \cup mine /\ UNCHANGED edits
    BY <1>3, <2>1 DEF ClearStore
  <2>3. ASSUME NEW s \in SessionIds PROVE Kept(s)'
    <3>1. Kept(s) BY DEF StoreInv
    <3>2. CASE s \in mine
      <4>1. sessions'[s] = NoSession /\ s \in chatCleared' BY <2>2, <3>2
      <4> QED BY <4>1, NoSessionFields DEF Kept
    <3>3. CASE s \notin mine
      <4>1. sessions'[s] = sessions[s] /\ (s \in chatCleared' <=> s \in chatCleared) /\ edits'[s] = edits[s] BY <2>2, <3>3
      <4> QED BY <3>1, <4>1 DEF Kept
    <3> QED BY <3>2, <3>3
  <2>4. DOMAIN sessions' = SessionIds /\ DOMAIN edits' = SessionIds BY <2>2 DEF StoreInv
  <2> QED BY <2>3, <2>4 DEF StoreInv
<1>4. ASSUME NEW s \in SessionIds, EditSession(s) PROVE StoreInv'
  <2>1. /\ Exists(s) /\ sessions' = [sessions EXCEPT ![s].edits = sessions[s].edits + 1]
        /\ edits' = [edits EXCEPT ![s] = edits[s] + 1] /\ UNCHANGED chatCleared
    BY <1>4 DEF EditSession
  <2>2. DOMAIN sessions = SessionIds /\ DOMAIN edits = SessionIds /\ DOMAIN sessions[s] = SessionKeys BY DEF StoreInv, Kept
  <2>3. /\ DOMAIN sessions' = SessionIds /\ DOMAIN edits' = SessionIds /\ edits'[s] = edits[s] + 1
        /\ \A r \in SessionIds : r # s => sessions'[r] = sessions[r] /\ edits'[r] = edits[r]
        /\ DOMAIN sessions'[s] = SessionKeys /\ sessions'[s].owner = sessions[s].owner /\ sessions'[s].edits = sessions[s].edits + 1
    BY <2>1, <2>2 DEF SessionKeys
  <2> QED BY <2>1, <2>3, SessionWritten
<1> QED BY <1>1, <1>2, <1>3, <1>4

LEMMA ChatMoves == ASSUME SpendInv, StoreInv, [ChatNext]_chatVars PROVE SpendInv' /\ StoreInv'
<1>1. UNCHANGED storeVars => StoreInv' BY StoreUnmoved DEF storeVars
<1>2. CASE UNCHANGED chatVars BY <1>1, <1>2 DEF chatVars, storeVars, SpendInv, SpendOf, PendingRows
<1>3. ASSUME NEW t \in Turns, ChatTurnStep(t) PROVE SpendInv' /\ StoreInv'
  <2>1. \/ RecordExchange(t)
        \/ EnterTurn(t) \/ TakeGate(t) \/ LoadModel(t) \/ Summarize(t) \/ Recheck(t) \/ PinAttachments(t)
        \/ \E n \in PasteSizes : Compose(t, n)
        \/ RefuseBusy(t) \/ RefuseLoop(t)
        \/ FailUnbilled(t) \/ LateReply(t) \/ FinishTurn(t) \/ CancelTurn(t) \/ DropHandler(t)
        \/ \E n \in PasteSizes : TooLarge(t, n)
        \/ ToolRound(t) \/ Answer(t) \/ FailBilled(t) \/ BillUsage(t)
    BY <1>3 DEF ChatTurnStep
  <2>2. CASE RecordExchange(t) BY <2>2, RecordStep
  <2>3. CASE ~RecordExchange(t)
    <3>1. SpendInv' /\ UNCHANGED storeVars BY <2>1, <2>3, QuietTurnSteps, RefusedTurns, LostTurns, BillingSteps
    <3> QED BY <1>1, <3>1
  <2> QED BY <2>2, <2>3
<1>4. CASE \E t \in Turns : BeginChatTurn(t) BY <1>4, BeginStep
<1>5. CASE ChatNext BY <1>3, <1>4, <1>5, OtherRequests DEF ChatNext
<1> QED BY <1>2, <1>5

LEMMA ChatPromise == ASSUME SpendInv, StoreInv PROVE SpendOnce /\ LateReplyIsAdded
<1>1. ASSUME NEW t \in Turns
      PROVE  /\ ledger[t] <= IF t \in responded THEN 1 ELSE 0
             /\ At(t, "done") /\ t \in responded => ledger[t] = 1
  <2>1. SpendOf(t) BY DEF SpendInv
  <2>2. PendingRows(t) \in 0..1 /\ (~chatTurns[t].pending => PendingRows(t) = 0) BY DEF PendingRows
  <2> QED BY <2>1, <2>2 DEF SpendOf, At
<1>2. ASSUME NEW s \in SessionIds PROVE (s \in chatCleared => ~Exists(s)) /\ (Exists(s) => sessions[s].edits = edits[s])
  <2>1. Kept(s) BY DEF StoreInv
  <2> QED BY <2>1, ExistsOwned DEF Kept
<1> QED BY <1>1, <1>2 DEF SpendOnce, LateReplyIsAdded

-----------------------------------------------------------------------------
(* A stored history: exchanges in order, the summary in the place of a      *)
(* reply.                                                                   *)

Speakers == Turns \cup Range(PastTurns)
Messages == [role : {"user", "assistant"}, of : SUBSET Speakers, summary : BOOLEAN]
Role(i) == IF i % 2 = 1 THEN "user" ELSE "assistant"
Alternates(m) == m \in Seq(Messages) /\ Len(m) % 2 = 0 /\ \A i \in DOMAIN m : m[i].role = Role(i)

(* The numbers that end a search through a history.                         *)
LEMMA LeastOf == ASSUME NEW T, T \subseteq Nat, T # {} PROVE Least(T) \in T /\ \A y \in T : Least(T) <= y
  BY SmallestIn DEF Least
LEMMA GreatestOf == ASSUME NEW n \in Nat, NEW T, T \subseteq 1..n, T # {} PROVE Greatest(T) \in T
<1>1. PICK U : U = {n - i : i \in T} OBVIOUS
<1>2. U \subseteq Nat /\ U # {}
  <2>1. \A i \in T : n - i \in Nat OBVIOUS
  <2> QED BY <1>1, <2>1
<1>3. PICK x \in U : \A y \in U : x <= y BY <1>2, SmallestIn
<1>4. PICK i \in T : x = n - i BY <1>1, <1>3
<1>5. \A j \in T : n - j \in U BY <1>1
<1>6. \A j \in T : j <= i BY <1>3, <1>4, <1>5
<1> QED BY <1>6 DEF Greatest

LEMMA FirstIs == ASSUME NEW m \in Seq(Messages) PROVE FirstUser(m) \in 0..Len(m) /\ UserAt(m) \subseteq 1..Len(m)
<1>1. UserAt(m) \subseteq 1..Len(m) BY DEF UserAt
<1>2. UserAt(m) # {} => Least(UserAt(m)) \in UserAt(m) BY <1>1, LeastOf
<1> QED BY <1>1, <1>2 DEF FirstUser

LEMMA TailIn ==
  ASSUME NEW m \in Seq(Messages), NEW keep \in Int
  PROVE  TailStart(m, keep) = 0 \/ (TailStart(m, keep) \in UserAt(m) /\ TailStart(m, keep) > FirstUser(m))
<1>1. FirstUser(m) \in 0..Len(m) /\ UserAt(m) \subseteq 1..Len(m) /\ Len(m) \in Nat BY FirstIs
<1>2. PICK k \in Int : k = IF keep = 0 THEN 1 ELSE keep OBVIOUS
<1>3. PICK after \in Nat : after = FirstUser(m) + 1 BY <1>1
<1>4. PICK from \in Int : from = (IF Len(m) - k + 1 > after THEN Len(m) - k + 1 ELSE after) /\ from >= after
  <2>1. PICK len \in Nat : len = Len(m) BY <1>1
  <2>2. CASE len - k + 1 > after BY <2>1, <2>2
  <2>3. CASE ~(len - k + 1 > after) BY <2>1, <2>3
  <2> QED BY <2>2, <2>3
<1>5. PICK near : near = {i \in UserAt(m) : i >= from} OBVIOUS
<1>6. PICK later : later = {i \in UserAt(m) : i >= after} OBVIOUS
<1>11. near \subseteq Nat /\ later \subseteq 1..Len(m) BY <1>1, <1>5, <1>6
<1>7. near # {} => Least(near) \in near BY <1>11, LeastOf
<1>8. later # {} => Greatest(later) \in later BY <1>1, <1>11, GreatestOf
<1>9. TailStart(m, keep) = IF Len(m) <= k + 1 THEN 0
                           ELSE IF near # {} THEN Least(near)
                           ELSE IF later # {} THEN Greatest(later) ELSE 0
  BY <1>2, <1>3, <1>4, <1>5, <1>6 DEF TailStart
<1>10. \A i \in near \cup later : i \in UserAt(m) /\ i > FirstUser(m) BY <1>1, <1>3, <1>4, <1>5, <1>6
<1> QED BY <1>7, <1>8, <1>9, <1>10

LEMMA KeepIs == ASSUME NEW m \in Seq(Messages) PROVE TailKeep(m) \in Int
<1>1. FirstUser(m) \in 0..Len(m) /\ UserAt(m) \subseteq 1..Len(m) /\ Len(m) \in Nat BY FirstIs
<1>2. PICK starts : starts = {i \in UserAt(m) : i > FirstUser(m)} OBVIOUS
<1>3. PICK fits : fits = {i \in starts : Len(m) - i + 1 <= KeepMessages /\ Len(m) - i + 1 <= TailTokens} OBVIOUS
<1>4. starts \subseteq 1..Len(m) /\ fits \subseteq starts BY <1>1, <1>2, <1>3
<1>5. starts # {} => Greatest(starts) \in starts BY <1>1, <1>4, GreatestOf
<1>8. fits \subseteq Nat BY <1>4
<1>6. fits # {} => Least(fits) \in fits BY <1>8, LeastOf
<1>7. TailKeep(m) = IF starts = {} THEN KeepMessages ELSE Len(m) + 1 - (IF fits = {} THEN Greatest(starts) ELSE Least(fits))
  BY <1>2, <1>3 DEF TailKeep
<1>9. starts # {} => \E x \in Nat : x = IF fits = {} THEN Greatest(starts) ELSE Least(fits)
  <2>1. starts # {} => Greatest(starts) \in Nat
    <3>1. starts \subseteq Nat BY <1>1, <1>4
    <3> QED BY <1>5, <3>1
  <2>2. fits # {} => Least(fits) \in Nat BY <1>6, <1>8
  <2> QED BY <2>1, <2>2
<1>10. CASE starts = {} BY <1>7, <1>10, ChatAssumption
<1>11. CASE starts # {}
  <2>1. PICK x \in Nat : x = IF fits = {} THEN Greatest(starts) ELSE Least(fits) BY <1>9, <1>11
  <2>2. TailKeep(m) = Len(m) + 1 - x BY <1>7, <1>11, <2>1
  <2> QED BY <1>1, <2>2
<1> QED BY <1>10, <1>11

LEMMA Summarized == ASSUME NEW ms \in Seq(Messages) PROVE SummaryOf(ms) \in Messages /\ SummaryOf(ms).role = "assistant"
<1>1. Range(ms) \subseteq Messages BY DEF Range
<1>2. \A x \in Range(ms) : x.of \subseteq Speakers BY <1>1 DEF Messages
<1>3. UNION {x.of : x \in Range(ms)} \subseteq Speakers BY <1>2
<1> QED BY <1>3 DEF SummaryOf, Messages

LEMMA PlannedFrom ==
  ASSUME NEW m \in Seq(Messages), NEW keep \in Int
  PROVE  MiddleTurns(m, keep) \in Seq(Messages)
<1>1. FirstUser(m) \in 0..Len(m) /\ UserAt(m) \subseteq 1..Len(m) /\ Len(m) \in Nat BY FirstIs
<1>2. PICK tail \in 0..Len(m) : tail = TailStart(m, keep) BY <1>1, TailIn
<1>3. PICK from \in 1..(Len(m) + 1) : from = IF FirstUser(m) # 0 /\ FirstUser(m) < tail THEN FirstUser(m) + 1 ELSE 1 BY <1>1
<1>4. tail # 0 => MiddleTurns(m, keep) = SubSeq(m, from, tail - 1) BY <1>2, <1>3 DEF MiddleTurns
<1>5. tail # 0 => SubSeq(m, from, tail - 1) \in Seq(Messages) BY <1>1, <1>2, <1>3
<1>6. tail = 0 => MiddleTurns(m, keep) = <<>> BY <1>2 DEF MiddleTurns
<1>7. CASE tail = 0
  <2>1. <<>> \in Seq(Messages) OBVIOUS
  <2> QED BY <1>6, <1>7, <2>1
<1> QED BY <1>4, <1>5, <1>7

(* In a history that alternates the first user message is the first one,    *)
(* and what compaction keeps verbatim begins at a later user message.       *)
LEMMA FirstIsOne == ASSUME NEW m, Alternates(m), m # <<>> PROVE FirstUser(m) = 1 /\ Len(m) \in Nat /\ Len(m) >= 2
<1>1. m \in Seq(Messages) /\ Len(m) \in Nat /\ Len(m) # 0 BY DEF Alternates
<1>2. Len(m) % 2 = 0 BY DEF Alternates
<1>3. Len(m) >= 2 BY <1>1, <1>2
<1>4. m[1].role = "user"
  <2>1. 1 \in DOMAIN m BY <1>1, <1>3
  <2>2. m[1].role = Role(1) BY <2>1 DEF Alternates
  <2> QED BY <2>2 DEF Role
<1>5. 1 \in UserAt(m) /\ UserAt(m) \subseteq Nat BY <1>1, <1>3, <1>4 DEF UserAt
<1>6. \A i \in UserAt(m) : i >= 1 BY <1>1 DEF UserAt
<1>7. Least(UserAt(m)) \in UserAt(m) /\ Least(UserAt(m)) <= 1 BY <1>5, LeastOf
<1>8. Least(UserAt(m)) = 1 BY <1>5, <1>6, <1>7
<1> QED BY <1>1, <1>3, <1>5, <1>8 DEF FirstUser

LEMMA TailIsUser ==
  ASSUME NEW m, Alternates(m), NEW keep \in Int, TailStart(m, keep) # 0
  PROVE  TailStart(m, keep) \in 3..Len(m) /\ TailStart(m, keep) % 2 = 1 /\ m # <<>>
<1>1. m \in Seq(Messages) /\ Len(m) \in Nat BY DEF Alternates
<1>2. PICK x : x = TailStart(m, keep) OBVIOUS
<1>3. x \in UserAt(m) /\ x > FirstUser(m) BY <1>1, <1>2, TailIn
<1>4. x \in DOMAIN m /\ m[x].role = "user" /\ x \in 1..Len(m) BY <1>1, <1>3 DEF UserAt
<1>5. m # <<>> BY <1>1, <1>4
<1>6. x > 1 BY <1>3, <1>5, FirstIsOne
<1>7. Role(x) = "user" BY <1>4 DEF Alternates
<1>8. x % 2 = 1 BY <1>7 DEF Role
<1>9. x >= 3 BY <1>4, <1>6, <1>8
<1> QED BY <1>2, <1>4, <1>5, <1>8, <1>9

(* A new end on an alternating history: what is put in front of its odd     *)
(* place is an exchange.                                                    *)
LEMMA Rejoined ==
  ASSUME NEW m, Alternates(m), NEW h \in Seq(Messages), Len(h) = 2, h[1].role = "user", h[2].role = "assistant",
         NEW from \in 1..(Len(m) + 1), from % 2 = 1
  PROVE  /\ Alternates(h \o SubSeq(m, from, Len(m)))
         /\ (h \o SubSeq(m, from, Len(m)))[1] = h[1] /\ h \o SubSeq(m, from, Len(m)) # <<>>
<1>1. m \in Seq(Messages) /\ Len(m) \in Nat /\ Len(m) % 2 = 0 BY DEF Alternates
<1>2. PICK n \in Nat : n = Len(m) BY <1>1
<1>3. PICK q : q = SubSeq(m, from, n) OBVIOUS
<1>4. q \in Seq(Messages) /\ Len(q) = n - from + 1 /\ \A i \in 1..Len(q) : q[i] = m[i + from - 1] BY <1>1, <1>2, <1>3
<1>5. PICK r : r = h \o q OBVIOUS
<1>6. /\ r \in Seq(Messages) /\ Len(r) = n - from + 3 /\ r[1] = h[1] /\ r[2] = h[2]
      /\ \A i \in 1..Len(r) : i > 2 => r[i] = q[i - 2]
  <2>0. q \in Seq(Messages) /\ Len(q) = n - from + 1 BY <1>4
  <2>1. PICK k \in Nat : k = Len(q) /\ k = n - from + 1
    <3>1. Len(q) \in Nat BY ONLY <2>0
    <3> QED BY ONLY <2>0, <3>1
  <2>2. /\ r \in Seq(Messages) /\ Len(r) = Len(h) + Len(q)
        /\ \A i \in 1..(Len(h) + Len(q)) : r[i] = IF i <= Len(h) THEN h[i] ELSE q[i - Len(h)]
    BY <1>4, <1>5, ConcatProperties
  <2>3. Len(r) = 2 + k BY <2>1, <2>2
  <2>4. \A i \in 1..(2 + k) : r[i] = IF i <= 2 THEN h[i] ELSE q[i - 2] BY <2>1, <2>2
  <2>5. 2 + k = n - from + 3 BY <2>1
  <2>6. r[1] = h[1] /\ r[2] = h[2] BY <2>1, <2>4
  <2>7. \A i \in 1..Len(r) : i > 2 => r[i] = q[i - 2] BY <2>1, <2>3, <2>4
  <2>8. Len(r) = n - from + 3 BY <2>3, <2>5
  <2> QED BY <2>2, <2>6, <2>7, <2>8
<1>7. Len(r) % 2 = 0
  <2>1. n % 2 = 0 /\ from \in Int BY <1>1, <1>2
  <2>2. (n - from + 3) % 2 = 0 BY ONLY <2>1, from % 2 = 1, n \in Nat
  <2> QED BY <1>6, <2>2
<1>8. ASSUME NEW i \in 1..Len(r) PROVE r[i].role = Role(i)
  <2>1. CASE i = 1 BY <1>6, <2>1 DEF Role
  <2>2. CASE i = 2 BY <1>6, <2>2 DEF Role
  <2>3. CASE i > 2
    <3>1. i - 2 \in 1..Len(q) BY <1>2, <1>4, <1>6, <2>3
    <3>2. r[i] = m[i - 2 + from - 1] /\ i - 2 + from - 1 \in 1..n
      <4>1. r[i] = q[i - 2] BY <1>6, <2>3
      <4>2. q[i - 2] = m[(i - 2) + from - 1] BY <1>4, <3>1
      <4>3. from \in Nat /\ i \in Nat /\ i - 2 >= 1 /\ i - 2 <= n - from + 1 BY <1>2, <1>4, <3>1
      <4> QED BY <4>1, <4>2, <4>3
    <3>3. r[i].role = Role(i - 2 + from - 1) BY <1>1, <1>2, <3>2 DEF Alternates
    <3>4. Role(i - 2 + from - 1) = Role(i) BY <2>3 DEF Role
    <3> QED BY <3>3, <3>4
  <2> QED BY <1>2, <1>6, <2>1, <2>2, <2>3
<1>9. Alternates(r) BY <1>6, <1>7, <1>8 DEF Alternates
<1> QED BY <1>2, <1>3, <1>5, <1>6, <1>9

LEMMA CompactAlternates ==
  ASSUME NEW m, Alternates(m), NEW keep \in Int, NEW sum \in Messages, sum.role = "assistant"
  PROVE  /\ Alternates(CompactMessages(m, keep, sum)) /\ (CompactMessages(m, keep, sum) = <<>> <=> m = <<>>)
         /\ m # <<>> => CompactMessages(m, keep, sum)[1] = m[1]
<1>1. CASE TailStart(m, keep) = 0
  <2>1. CompactMessages(m, keep, sum) = m BY <1>1 DEF CompactMessages
  <2> QED BY <2>1
<1>2. CASE TailStart(m, keep) # 0
  <2>1. PICK tail : tail = TailStart(m, keep) OBVIOUS
  <2>2. tail \in 3..Len(m) /\ tail % 2 = 1 /\ m # <<>> /\ tail # 0 BY <1>2, <2>1, TailIsUser
  <2>3. FirstUser(m) = 1 /\ Len(m) \in Nat /\ m \in Seq(Messages) BY <2>2, FirstIsOne DEF Alternates
  <2>4. MiddleTurns(m, keep) = SubSeq(m, 2, tail - 1) BY <2>1, <2>2, <2>3 DEF MiddleTurns
  <2>5. MiddleTurns(m, keep) # <<>>
    <3>1. Len(SubSeq(m, 2, tail - 1)) = tail - 2 /\ tail - 2 > 0 BY <2>2, <2>3
    <3> QED BY <2>2, <2>4, <3>1
  <2>6. CompactMessages(m, keep, sum) = (<<m[1]>> \o <<sum>>) \o SubSeq(m, tail, Len(m))
    <3>1. 1 # 0 /\ 1 < tail BY <2>2, <2>3
    <3> QED BY <2>1, <2>2, <2>3, <2>5, <3>1 DEF CompactMessages
  <2>7. m[1] \in Messages /\ m[1].role = "user"
    <3>1. 1 \in DOMAIN m BY <2>2, <2>3
    <3>2. m[1] \in Messages /\ m[1].role = Role(1) BY <2>3, <3>1 DEF Alternates
    <3> QED BY <3>2 DEF Role
  <2>8. PICK h \in Seq(Messages) : h = <<m[1]>> \o <<sum>> /\ Len(h) = 2 /\ h[1] = m[1] /\ h[2] = sum
    <3>1. PICK a \in Messages, b \in Messages : a = m[1] /\ b = sum BY <2>7
    <3>2. <<a>> \in Seq(Messages) /\ <<b>> \in Seq(Messages) /\ Len(<<a>>) = 1 /\ Len(<<b>>) = 1 OBVIOUS
    <3>3. <<a>> \o <<b>> \in Seq(Messages) /\ Len(<<a>> \o <<b>>) = 2 BY <3>2
    <3>4. (<<a>> \o <<b>>)[1] = a /\ (<<a>> \o <<b>>)[2] = b BY <3>2
    <3> QED BY <3>1, <3>3, <3>4
  <2>9. tail \in 1..(Len(m) + 1) BY <2>2, <2>3
  <2> QED BY <2>2, <2>6, <2>7, <2>8, <2>9, Rejoined
<1> QED BY <1>1, <1>2

LEMMA AddedAlternates ==
  ASSUME NEW m, Alternates(m), NEW t \in Turns
  PROVE  /\ Alternates(m \o Exchange(t)) /\ m \o Exchange(t) # <<>>
         /\ m = <<>> => (m \o Exchange(t))[1] = Said("user", t)
         /\ m # <<>> => (m \o Exchange(t))[1] = m[1]
<1>1. m \in Seq(Messages) /\ Len(m) \in Nat /\ Len(m) % 2 = 0 BY DEF Alternates
<1>2. Said("user", t) \in Messages /\ Said("assistant", t) \in Messages BY DEF Said, Messages, Speakers
<1>3. PICK n \in Nat : n = Len(m) BY <1>1
<1>4. PICK a \in Messages, b \in Messages : a = Said("user", t) /\ b = Said("assistant", t) BY <1>2
<1>5. a.role = "user" /\ b.role = "assistant" BY <1>4 DEF Said
<1>6. PICK r : r = m \o <<a, b>> OBVIOUS
<1>7. r \in Seq(Messages) /\ Len(r) = n + 2 /\ r[n + 1] = a /\ r[n + 2] = b /\ \A i \in 1..n : r[i] = m[i] BY <1>1, <1>3, <1>6
<1>8. n % 2 = 0 BY <1>1, <1>3
<1>9. (n + 2) % 2 = 0 /\ Role(n + 1) = "user" /\ Role(n + 2) = "assistant" BY ONLY <1>8, n \in Nat DEF Role
<1>10. ASSUME NEW i \in 1..(n + 2) PROVE r[i].role = Role(i)
  <2>1. CASE i <= n BY <1>1, <1>3, <1>7, <2>1 DEF Alternates
  <2>2. CASE i = n + 1 BY <1>5, <1>7, <1>9, <2>2
  <2>3. CASE i = n + 2 BY <1>5, <1>7, <1>9, <2>3
  <2> QED BY <2>1, <2>2, <2>3
<1>11. Alternates(r) BY <1>7, <1>9, <1>10 DEF Alternates
<1>12. r # <<>> BY <1>7
<1>13. r = m \o Exchange(t) BY <1>4, <1>6 DEF Exchange
<1>14. m = <<>> => n = 0 BY <1>3
<1>15. m # <<>> => 1 \in 1..n BY <1>1, <1>3
<1> QED BY <1>4, <1>7, <1>11, <1>12, <1>13, <1>14, <1>15

(* The cut at MAX_MESSAGES takes whole exchanges behind the first one.      *)
LEMMA CapAlternates ==
  ASSUME NEW m, Alternates(m), m # <<>>
  PROVE  Alternates(Capped(m)) /\ Capped(m) # <<>> /\ Capped(m)[1] = m[1]
<1>1. FirstUser(m) = 1 /\ m \in Seq(Messages) BY FirstIsOne DEF Alternates
<1>2. PICK n \in Nat : n = Len(m) /\ n >= 2 BY FirstIsOne
<1>3. n % 2 = 0 BY <1>2 DEF Alternates
<1>4. CapHead(m) = 2 BY <1>1, <1>2 DEF CapHead
<1>5. PICK x \in Int : x = n - MaxMessages /\ x % 2 = 0
  <2>1. MaxMessages \in Nat /\ MaxMessages % 2 = 0 BY ChatAssumption
  <2>2. (n - MaxMessages) % 2 = 0 BY ONLY <1>3, <2>1, n \in Nat
  <2> QED BY <2>1, <2>2
<1>6. PICK room \in Int : room = (IF n > 4 THEN n - 4 ELSE 0) /\ room % 2 = 0 /\ room >= 0 /\ room <= n - 2
  <2>1. (n - 4) % 2 = 0 BY <1>3
  <2> QED BY <1>2, <2>1
<1>7. CapDrop(m) = IF x <= 0 THEN 0 ELSE IF x + (x % 2) < room THEN x + (x % 2) ELSE room
  BY <1>2, <1>4, <1>5, <1>6 DEF CapDrop
<1>8. PICK d \in Int : d = CapDrop(m) /\ d % 2 = 0 /\ d >= 0 /\ d <= n - 2
  <2>1. CapDrop(m) \in {0, x, room} /\ (x <= 0 => CapDrop(m) = 0) /\ (CapDrop(m) > room => CapDrop(m) = 0)
    BY <1>5, <1>6, <1>7
  <2>2. CASE CapDrop(m) = 0
    <3>1. 0 % 2 = 0 OBVIOUS
    <3> QED BY <1>2, <2>2, <3>1
  <2>3. CASE CapDrop(m) = room BY <1>6, <2>3
  <2>4. CASE CapDrop(m) = x /\ CapDrop(m) # 0
    <3>1. x > 0 /\ x <= room BY <1>5, <1>6, <2>1, <2>4
    <3> QED BY <1>2, <1>5, <1>6, <2>4, <3>1
  <2> QED BY <2>1, <2>2, <2>3, <2>4
<1>9. Capped(m) = SubSeq(m, 1, 2) \o SubSeq(m, 2 + d + 1, n) BY <1>2, <1>4, <1>8 DEF Capped
<1>10. m[1] \in Messages /\ m[2] \in Messages /\ m[1].role = "user" /\ m[2].role = "assistant"
  <2>1. 1 \in DOMAIN m /\ 2 \in DOMAIN m BY <1>1, <1>2
  <2>2. m[1].role = Role(1) /\ m[2].role = Role(2) BY <2>1 DEF Alternates
  <2> QED BY <1>1, <2>1, <2>2 DEF Role
<1>11. PICK h \in Seq(Messages) : h = SubSeq(m, 1, 2) /\ Len(h) = 2 /\ h[1] = m[1] /\ h[2] = m[2]
  <2>1. 1 \in 1..(Len(m) + 1) /\ 2 \in 0..Len(m) BY <1>2
  <2>2. SubSeq(m, 1, 2) \in Seq(Messages) /\ Len(SubSeq(m, 1, 2)) = 2 BY <1>1, <1>2, <2>1
  <2>3. SubSeq(m, 1, 2)[1] = m[1] /\ SubSeq(m, 1, 2)[2] = m[2] BY <1>1, <1>2, <2>1, 1 \in 1..2, 2 \in 1..2
  <2> QED BY <2>2, <2>3
<1>12. PICK from \in 1..(Len(m) + 1) : from = 2 + d + 1 /\ from % 2 = 1
  <2>1. (2 + d + 1) % 2 = 1 BY <1>8
  <2> QED BY <1>2, <1>8, <2>1
<1>13. Capped(m) = h \o SubSeq(m, from, Len(m)) BY <1>2, <1>9, <1>11, <1>12
<1> QED BY <1>10, <1>11, <1>12, <1>13, Rejoined

(* The roles a model receives: the summary becomes a bridge, a note and its *)
(* acknowledgement, two places more, so the rest keeps its parity.          *)
LEMMA SentAlternate ==
  ASSUME NEW m, Alternates(m), m # <<>>, NEW i \in DOMAIN PromptRoles(m)
  PROVE  PromptRoles(m)[i] = Role(i)
<1>1. FirstUser(m) = 1 /\ m \in Seq(Messages) BY FirstIsOne DEF Alternates
<1>2. PICK n \in Nat : n = Len(m) /\ n >= 2 /\ DOMAIN m = 1..n BY <1>1, FirstIsOne
<1>3. PICK roles : roles = [k \in DOMAIN m |-> m[k].role] OBVIOUS
<1> DEFINE S == {"user", "assistant"}
<1>4. \A k \in 1..n : m[k].role = Role(k) /\ m[k].role \in S BY <1>2 DEF Alternates, Role
<1>5. roles \in Seq(S) /\ Len(roles) = n /\ \A k \in 1..n : roles[k] = Role(k) BY <1>2, <1>3, <1>4
<1>6. SummarySlot(m) \in {0, 2} BY <1>1 DEF SummarySlot
<1>7. CASE SummarySlot(m) = 0
  <2>1. PromptRoles(m) = roles BY <1>3, <1>7 DEF PromptRoles
  <2> QED BY <1>5, <2>1
<1>8. CASE SummarySlot(m) = 2
  <2>1. ~(2 < Len(m) /\ roles[2 + 1] = "assistant")
    <3>1. 2 < n => roles[3] = Role(3) BY <1>5
    <3> QED BY <1>2, <3>1 DEF Role
  <2>2. PICK note : note = <<"assistant", "user">> \o <<"assistant">> OBVIOUS
  <2>3. note \in Seq(S) /\ Len(note) = 3 /\ note[1] = "assistant" /\ note[2] = "user" /\ note[3] = "assistant"
    <3>1. PICK a, b : a = <<"assistant", "user">> /\ b = <<"assistant">> OBVIOUS
    <3>5. "assistant" \in S /\ "user" \in S OBVIOUS
    <3>2. a \in Seq(S) /\ b \in Seq(S) /\ Len(a) = 2 /\ Len(b) = 1 /\ a[1] = "assistant" /\ a[2] = "user" /\ b[1] = "assistant"
      <4> HIDE DEF S
      <4> QED BY <3>1, <3>5
    <3>3. /\ note \in Seq(S) /\ Len(note) = Len(a) + Len(b)
          /\ \A k \in 1..(Len(a) + Len(b)) : note[k] = IF k <= Len(a) THEN a[k] ELSE b[k - Len(a)]
      BY <2>2, <3>1, <3>2, ConcatProperties
    <3>4. Len(note) = 3 /\ \A k \in 1..3 : note[k] = IF k <= 2 THEN a[k] ELSE b[k - 2] BY <3>2, <3>3
    <3> QED BY <3>2, <3>3, <3>4
  <2>4. PICK front : front = SubSeq(roles, 1, 1) OBVIOUS
  <2>5. PICK rest : rest = SubSeq(roles, 3, n) OBVIOUS
  <2>6. front \in Seq(S) /\ Len(front) = 1 /\ front[1] = roles[1] BY <1>2, <1>5, <2>4
  <2>7. rest \in Seq(S) /\ Len(rest) = n - 2 /\ \A k \in 1..(n - 2) : rest[k] = roles[k + 2] BY <1>2, <1>5, <2>5
  <2>8. PromptRoles(m) = (front \o note) \o rest
    <3>1. PromptRoles(m) = (SubSeq(roles, 1, 2 - 1) \o note) \o SubSeq(roles, 2 + 1, Len(m))
      <4>1. 2 # 0 OBVIOUS
      <4> QED BY <1>3, <1>8, <2>1, <2>2, <4>1, Zenon DEF PromptRoles
    <3>2. 2 - 1 = 1 /\ 2 + 1 = 3 OBVIOUS
    <3> QED BY <1>2, <2>4, <2>5, <3>1, <3>2
  <2>9. PICK begun : begun = front \o note OBVIOUS
  <2>10. begun \in Seq(S) /\ Len(begun) = 4 /\ \A k \in 1..4 : begun[k] = Role(k)
    <3>1. /\ begun \in Seq(S) /\ Len(begun) = Len(front) + Len(note)
          /\ \A k \in 1..(Len(front) + Len(note)) : begun[k] = IF k <= Len(front) THEN front[k] ELSE note[k - Len(front)]
      BY <2>3, <2>6, <2>9, ConcatProperties
    <3>2. Len(begun) = 4 /\ \A k \in 1..4 : begun[k] = IF k <= 1 THEN front[k] ELSE note[k - 1] BY <2>3, <2>6, <3>1
    <3>3. begun[1] = roles[1] /\ begun[2] = "assistant" /\ begun[3] = "user" /\ begun[4] = "assistant" BY <2>3, <2>6, <3>2
    <3>4. roles[1] = Role(1) BY <1>2, <1>5
    <3>5. Role(2) = "assistant" /\ Role(3) = "user" /\ Role(4) = "assistant" BY DEF Role
    <3>6. \A k \in 1..4 : k = 1 \/ k = 2 \/ k = 3 \/ k = 4 OBVIOUS
    <3>7. begun[1] = Role(1) /\ begun[2] = Role(2) /\ begun[3] = Role(3) /\ begun[4] = Role(4) BY <3>3, <3>4, <3>5
    <3>8. \A k \in 1..4 : begun[k] = Role(k) BY ONLY <3>6, <3>7
    <3> QED BY <3>1, <3>2, <3>8
  <2>11. PICK sent : sent = begun \o rest OBVIOUS
  <2>12. /\ sent \in Seq(S) /\ Len(sent) = Len(begun) + Len(rest)
         /\ \A k \in 1..(Len(begun) + Len(rest)) : sent[k] = IF k <= Len(begun) THEN begun[k] ELSE rest[k - Len(begun)]
    BY <2>7, <2>10, <2>11, ConcatProperties
  <2>13. Len(sent) = n + 2 /\ \A k \in 1..(n + 2) : sent[k] = IF k <= 4 THEN begun[k] ELSE rest[k - 4]
    BY <1>2, <2>7, <2>10, <2>12
  <2>14. ASSUME NEW k \in 1..(n + 2) PROVE sent[k] = Role(k)
    <3>1. CASE k <= 4 BY <2>10, <2>13, <3>1
    <3>2. CASE k > 4
      <4>1. k - 4 \in 1..(n - 2) /\ k - 2 \in 1..n BY <1>2, <3>2
      <4>6. sent[k] = rest[k - 4] BY <2>13, <3>2
      <4>7. PICK j \in 1..(n - 2) : j = k - 4 BY <4>1
      <4>8. rest[j] = roles[j + 2] BY <2>7
      <4>2. sent[k] = roles[k - 4 + 2] BY <4>6, <4>7, <4>8
      <4>3. k - 4 + 2 = k - 2 OBVIOUS
      <4>4. roles[k - 2] = Role(k - 2) BY <1>5, <4>1
      <4>5. Role(k - 2) = Role(k) BY DEF Role
      <4> QED BY <4>2, <4>3, <4>4, <4>5
    <3> QED BY <3>1, <3>2
  <2>15. PromptRoles(m) = sent /\ DOMAIN sent = 1..(n + 2) BY <2>8, <2>9, <2>11, <2>12, <2>13
  <2> QED BY <2>14, <2>15
<1> QED BY <1>6, <1>7, <1>8

(* Every session's history alternates from the first turn it accepted; a    *)
(* turn's plan was made from messages it read.                              *)
PlanOk(p) == p.keep \in Int /\ p.summary \in Messages /\ p.summary.role = "assistant"
HistoryOf(s) ==
  /\ Alternates(sessions[s].msgs)
  /\ sessions[s].msgs = <<>> => stored[s].first = NoHolder
  /\ sessions[s].msgs # <<>> => stored[s].first # NoHolder /\ sessions[s].msgs[1] = Said("user", stored[s].first)
PlansOf(t) == chatTurns[t].snap \in Seq(Messages) /\ PlanOk(chatTurns[t].plan)
HistoryInv ==
  DOMAIN stored = SessionIds /\ (\A s \in SessionIds : HistoryOf(s)) /\ \A t \in Turns : PlansOf(t)

LEMMA EmptyAlternates == Alternates(<<>>) /\ NoSession.msgs = <<>> /\ NothingStored.first = NoHolder
<1>1. <<>> \in Seq(Messages) /\ Len(<<>>) = 0 /\ 0 % 2 = 0 /\ DOMAIN <<>> = {} OBVIOUS
<1> QED BY <1>1 DEF Alternates, NoSession, NothingStored

LEMMA IdlePlans == IdleTurn.snap = <<>> /\ <<>> \in Seq(Messages) /\ PlanOk(IdleTurn.plan)
<1>1. <<>> \in Seq(Messages) OBVIOUS
<1>2. SummaryOf(<<>>) \in Messages /\ SummaryOf(<<>>).role = "assistant" BY <1>1, Summarized
<1> QED BY <1>1, <1>2 DEF IdleTurn, NoPlan, PlanOk

LEMMA ExchangesAlternate ==
  /\ Alternates(Exchanges(PastTurns)) /\ (Exchanges(PastTurns) = <<>> <=> PastTurns = <<>>)
  /\ PastTurns # <<>> => Exchanges(PastTurns)[1] = Said("user", Head(PastTurns)) /\ Head(PastTurns) \in Range(PastTurns)
<1>1. PICK n \in Nat : n = Len(PastTurns) /\ DOMAIN PastTurns = 1..n BY ChatAssumption
<1>2. PICK r : r = Exchanges(PastTurns) OBVIOUS
<1>3. r = [i \in 1..2 * n |-> Said(Role(i), PastTurns[(i + 1) \div 2])] BY <1>1, <1>2 DEF Exchanges, Role
<1>4. ASSUME NEW i \in 1..2 * n PROVE r[i] \in Messages /\ r[i].role = Role(i)
  <2>1. (i + 1) \div 2 \in 1..n OBVIOUS
  <2>2. PICK t \in Speakers : t = PastTurns[(i + 1) \div 2] BY <1>1, <2>1, ChatAssumption DEF Speakers, Range
  <2>3. r[i] = Said(Role(i), t) BY <1>3, <2>2
  <2>4. Role(i) \in {"user", "assistant"} BY DEF Role
  <2> QED BY <2>3, <2>4 DEF Said, Messages
<1>5. 2 * n \in Nat /\ (2 * n) % 2 = 0 OBVIOUS
<1>6. r \in Seq(Messages) /\ Len(r) = 2 * n /\ DOMAIN r = 1..2 * n BY <1>3, <1>4, <1>5
<1>7. Alternates(r) BY <1>4, <1>5, <1>6 DEF Alternates
<1>8. r = <<>> <=> n = 0 BY <1>6
<1>9. PastTurns = <<>> <=> n = 0 BY <1>1, ChatAssumption
<1>10. ASSUME n # 0 PROVE r[1] = Said("user", Head(PastTurns)) /\ Head(PastTurns) \in Range(PastTurns)
  <2>1. 1 \in 1..2 * n /\ (1 + 1) \div 2 = 1 /\ Role(1) = "user" BY <1>10 DEF Role
  <2>2. r[1] = Said("user", PastTurns[1]) BY <1>3, <2>1
  <2>3. Head(PastTurns) = PastTurns[1] BY <1>9, <1>10, ChatAssumption
  <2>4. PastTurns[1] \in Range(PastTurns) BY <1>1, <1>10 DEF Range
  <2> QED BY <2>2, <2>3, <2>4
<1> QED BY <1>2, <1>7, <1>8, <1>9, <1>10

LEMMA HistoryStarts == ASSUME ChatInit PROVE HistoryInv
<1>1. DOMAIN stored = SessionIds BY DEF ChatInit
<1>2. ASSUME NEW s \in SessionIds PROVE HistoryOf(s)
  <2>1. CASE s # FirstSession
    <3>1. sessions[s] = NoSession /\ stored[s] = NothingStored BY <2>1 DEF ChatInit
    <3> QED BY <3>1, EmptyAlternates DEF HistoryOf
  <2>2. CASE s = FirstSession
    <3>1. sessions[s].msgs = Exchanges(PastTurns) BY <2>2 DEF ChatInit
    <3>2. CASE PastTurns = <<>>
      <4>1. stored[s] = NothingStored BY <2>2, <3>2 DEF ChatInit
      <4> QED BY <3>1, <3>2, <4>1, EmptyAlternates, ExchangesAlternate DEF HistoryOf
    <3>3. CASE PastTurns # <<>>
      <4>1. stored[s].first = Head(PastTurns) BY <2>2, <3>3 DEF ChatInit
      <4>2. Head(PastTurns) # NoHolder BY <3>3, ExchangesAlternate, ChatAssumption DEF NoHolder
      <4> QED BY <3>1, <3>3, <4>1, <4>2, ExchangesAlternate DEF HistoryOf
    <3> QED BY <3>2, <3>3
  <2> QED BY <2>1, <2>2
<1>3. ASSUME NEW t \in Turns PROVE PlansOf(t)
  <2>1. chatTurns[t] = IdleTurn BY DEF ChatInit
  <2> QED BY <2>1, IdlePlans DEF PlansOf
<1> QED BY <1>1, <1>2, <1>3 DEF HistoryInv

(* One turn changes; the others keep what they read and planned.            *)
LEMMA PlansKept ==
  ASSUME SpendInv, HistoryInv, NEW t \in Turns, NEW x, chatTurns' = [chatTurns EXCEPT ![t] = x],
         x.snap \in Seq(Messages), PlanOk(x.plan)
  PROVE  \A u \in Turns : PlansOf(u)'
<1>1. DOMAIN chatTurns = Turns BY DEF SpendInv
<1>2. chatTurns'[t] = x /\ \A u \in Turns : u # t => chatTurns'[u] = chatTurns[u] BY <1>1
<1> QED BY <1>2 DEF PlansOf, HistoryInv

LEMMA StoreStands ==
  ASSUME HistoryInv, UNCHANGED storeVars, \A u \in Turns : PlansOf(u)'
  PROVE  HistoryInv'
  BY DEF HistoryInv, HistoryOf, storeVars

LEMMA MadePlan == ASSUME NEW t \in Turns, PlansOf(t) PROVE PlanOk(Plan(t))
<1>1. PICK m \in Seq(Messages) : m = chatTurns[t].snap BY DEF PlansOf
<1>2. PICK keep \in Int : keep = TailKeep(m) BY KeepIs
<1>3. MiddleTurns(m, keep) \in Seq(Messages) BY PlannedFrom
<1>4. SummaryOf(MiddleTurns(m, keep)) \in Messages /\ SummaryOf(MiddleTurns(m, keep)).role = "assistant" BY <1>3, Summarized
<1> QED BY <1>1, <1>2, <1>4 DEF Plan, PlanOk

LEMMA PlansMove ==
  ASSUME SpendInv, HistoryInv, NEW t \in Turns,
         \/ \E at : Goto(t, at)
         \/ chatTurns' = [chatTurns EXCEPT ![t].pc = "recheck", ![t].plan = Plan(t)]
         \/ \E f : chatTurns' = [chatTurns EXCEPT ![t].pc = "summarize", ![t].fits = f]
         \/ chatTurns' = [chatTurns EXCEPT ![t].pending = TRUE]
         \/ \E at, b : chatTurns' = [chatTurns EXCEPT ![t].pc = at, ![t].pending = b]
         \/ chatTurns' = [chatTurns EXCEPT ![t] = [IdleTurn EXCEPT !.pc = "done"]]
  PROVE  \A u \in Turns : PlansOf(u)'
<1>1. DOMAIN chatTurns[t] = ChatFields /\ PlansOf(t) BY DEF SpendInv, SpendOf, HistoryInv
<1>2. PICK c : c = chatTurns[t] OBVIOUS
<1>3. DOMAIN c = ChatFields /\ c.snap \in Seq(Messages) /\ PlanOk(c.plan) BY <1>1, <1>2 DEF PlansOf
<1>4. ASSUME NEW at, Goto(t, at) PROVE \A u \in Turns : PlansOf(u)'
  <2>1. PICK x : x = [c EXCEPT !.pc = at] OBVIOUS
  <2>2. x.snap = c.snap /\ x.plan = c.plan BY <1>3, <2>1 DEF ChatFields
  <2>3. chatTurns' = [chatTurns EXCEPT ![t] = x] BY <1>2, <1>4, <2>1 DEF Goto
  <2> QED BY <1>3, <2>2, <2>3, PlansKept
<1>5. CASE chatTurns' = [chatTurns EXCEPT ![t].pc = "recheck", ![t].plan = Plan(t)]
  <2>1. PICK p : p = Plan(t) /\ PlanOk(p) BY <1>1, MadePlan
  <2>2. PICK x : x = [c EXCEPT !.pc = "recheck", !.plan = p] OBVIOUS
  <2>3. x.snap = c.snap /\ x.plan = p BY <1>3, <2>2 DEF ChatFields
  <2>4. chatTurns' = [chatTurns EXCEPT ![t] = x] BY <1>2, <1>5, <2>1, <2>2
  <2> QED BY <1>3, <2>1, <2>3, <2>4, PlansKept
<1>6. ASSUME NEW f, chatTurns' = [chatTurns EXCEPT ![t].pc = "summarize", ![t].fits = f] PROVE \A u \in Turns : PlansOf(u)'
  <2>1. PICK x : x = [c EXCEPT !.pc = "summarize", !.fits = f] OBVIOUS
  <2>2. x.snap = c.snap /\ x.plan = c.plan BY <1>3, <2>1 DEF ChatFields
  <2>3. chatTurns' = [chatTurns EXCEPT ![t] = x] BY <1>2, <1>6, <2>1
  <2> QED BY <1>3, <2>2, <2>3, PlansKept
<1>7. CASE chatTurns' = [chatTurns EXCEPT ![t].pending = TRUE]
  <2>1. PICK x : x = [c EXCEPT !.pending = TRUE] OBVIOUS
  <2>2. x.snap = c.snap /\ x.plan = c.plan BY <1>3, <2>1 DEF ChatFields
  <2>3. chatTurns' = [chatTurns EXCEPT ![t] = x] BY <1>2, <1>7, <2>1
  <2> QED BY <1>3, <2>2, <2>3, PlansKept
<1>8. ASSUME NEW at, NEW b, chatTurns' = [chatTurns EXCEPT ![t].pc = at, ![t].pending = b] PROVE \A u \in Turns : PlansOf(u)'
  <2>1. PICK x : x = [c EXCEPT !.pc = at, !.pending = b] OBVIOUS
  <2>2. x.snap = c.snap /\ x.plan = c.plan BY <1>3, <2>1 DEF ChatFields
  <2>3. chatTurns' = [chatTurns EXCEPT ![t] = x] BY <1>2, <1>8, <2>1
  <2> QED BY <1>3, <2>2, <2>3, PlansKept
<1>9. CASE chatTurns' = [chatTurns EXCEPT ![t] = [IdleTurn EXCEPT !.pc = "done"]]
  <2>1. PICK x : x = [IdleTurn EXCEPT !.pc = "done"] OBVIOUS
  <2>2. x.snap = IdleTurn.snap /\ x.plan = IdleTurn.plan BY <2>1, IdleFields DEF ChatFields
  <2> QED BY <1>9, <2>1, <2>2, IdlePlans, PlansKept
<1> QED BY <1>4, <1>5, <1>6, <1>7, <1>8, <1>9

LEMMA BegunHistory == ASSUME SpendInv, StoreInv, HistoryInv, NEW t \in Turns, BeginChatTurn(t) PROVE HistoryInv'
<1>1. PICK o \in ChatOwners, s \in SessionIds :
        (\E kind \in {"local", "loop", "cloud"} : SnapshotSession(t, o, s, kind)) \/ CreateSession(t, o, s)
  BY DEF BeginChatTurn
<1>2. HistoryOf(s) /\ sessions[s].msgs \in Seq(Messages) /\ <<>> \in Seq(Messages) BY IdlePlans DEF HistoryInv, HistoryOf, Alternates
<1>3. PICK kind, m : Begin(t, o, s, kind, m) /\ m \in Seq(Messages) BY <1>1, <1>2 DEF SnapshotSession, CreateSession
<1>4. PICK x : x = [IdleTurn EXCEPT !.pc = "verify", !.sid = s, !.owner = o, !.kind = kind, !.snap = m] OBVIOUS
<1>5. x.snap = m /\ x.plan = IdleTurn.plan BY <1>4, IdleFields DEF ChatFields
<1>6. chatTurns' = [chatTurns EXCEPT ![t] = x] BY <1>3, <1>4 DEF Begin
<1>7. \A u \in Turns : PlansOf(u)' BY <1>3, <1>5, <1>6, IdlePlans, PlansKept
<1>8. CASE \E k \in {"local", "loop", "cloud"} : SnapshotSession(t, o, s, k)
  <2>1. UNCHANGED storeVars BY <1>8 DEF SnapshotSession
  <2> QED BY <1>7, <2>1, StoreStands
<1>9. CASE CreateSession(t, o, s)
  <2>1. ~Exists(s) /\ sessions' = [sessions EXCEPT ![s] = [NoSession EXCEPT !.owner = o]] /\ UNCHANGED stored BY <1>9 DEF CreateSession
  <2>2. sessions[s] = NoSession BY <2>1 DEF Exists
  <2>3. PICK new : new = [NoSession EXCEPT !.owner = o] OBVIOUS
  <2>4. new.msgs = <<>> BY <2>3, EmptyAlternates, NoSessionFields DEF SessionKeys
  <2>5. DOMAIN sessions = SessionIds BY DEF StoreInv
  <2>6. sessions'[s] = new /\ \A r \in SessionIds : r # s => sessions'[r] = sessions[r] BY <2>1, <2>3, <2>5
  <2>7. HistoryOf(s)' BY <1>2, <2>1, <2>2, <2>4, <2>6, EmptyAlternates DEF HistoryOf
  <2>8. \A r \in SessionIds : r # s => HistoryOf(r)' BY <2>1, <2>6 DEF HistoryInv, HistoryOf
  <2> QED BY <1>7, <2>1, <2>7, <2>8 DEF HistoryInv
<1> QED BY <1>1, <1>8, <1>9

(* record_exchange_inner: whatever the plan, the session it finds gets the  *)
(* exchange at its end and keeps its beginning.                             *)
LEMMA RecordedHistory == ASSUME SpendInv, StoreInv, HistoryInv, NEW t \in Turns, RecordExchange(t) PROVE HistoryInv'
<1>1. PICK s \in SessionIds : s = chatTurns[t].sid BY DEF SpendInv, SpendOf
<1>2. PICK was : was = sessions[s].msgs /\ Alternates(was) BY DEF HistoryInv, HistoryOf
<1>3. PlanOk(chatTurns[t].plan) BY DEF HistoryInv, PlansOf
<1>4. PICK base : base = (IF chatTurns[t].plan = NoPlan THEN was
                          ELSE CompactMessages(was, chatTurns[t].plan.keep, chatTurns[t].plan.summary)) OBVIOUS
<1>5. Alternates(base) /\ (base = <<>> <=> was = <<>>) /\ (was # <<>> => base[1] = was[1])
  BY <1>2, <1>3, <1>4, CompactAlternates DEF PlanOk
<1>6. PICK msgs : msgs = base \o Exchange(t) OBVIOUS
<1>7. /\ Alternates(msgs) /\ msgs # <<>> /\ (was = <<>> => msgs[1] = Said("user", t)) /\ (was # <<>> => msgs[1] = was[1])
  BY <1>5, <1>6, AddedAlternates
<1>8. PICK kept : kept = Capped(msgs) OBVIOUS
<1>9. Alternates(kept) /\ kept # <<>> /\ kept[1] = msgs[1] BY <1>7, <1>8, CapAlternates
<1>10. Appended(t, sessions[s].msgs) = msgs BY <1>2, <1>4, <1>6 DEF Appended
<1>11. sessions' = [sessions EXCEPT ![s].msgs = kept] BY <1>1, <1>8, <1>10 DEF RecordExchange
<1>12. PICK lost : stored' = [stored EXCEPT ![s] = RecordedIn(stored[s], t, lost)] BY <1>1 DEF RecordExchange
<1>13. DOMAIN sessions = SessionIds /\ DOMAIN stored = SessionIds /\ DOMAIN sessions[s] = SessionKeys
  BY DEF StoreInv, Kept, HistoryInv
<1>14. /\ sessions'[s].msgs = kept /\ stored'[s].first = IF stored[s].first = NoHolder THEN t ELSE stored[s].first
       /\ DOMAIN stored' = SessionIds
       /\ \A r \in SessionIds : r # s => sessions'[r] = sessions[r] /\ stored'[r] = stored[r]
  <2>1. sessions'[s].msgs = kept /\ \A r \in SessionIds : r # s => sessions'[r] = sessions[r] BY <1>11, <1>13 DEF SessionKeys
  <2>2. /\ stored'[s] = RecordedIn(stored[s], t, lost) /\ DOMAIN stored' = SessionIds
        /\ \A r \in SessionIds : r # s => stored'[r] = stored[r]
    BY <1>12, <1>13
  <2> QED BY <2>1, <2>2 DEF RecordedIn
<1>15. HistoryOf(s)
  BY DEF HistoryInv
<1>16. t # NoHolder BY ChatAssumption DEF NoHolder
<1>17. HistoryOf(s)'
  <2>1. CASE was = <<>>
    <3>1. stored'[s].first = t BY <1>2, <1>14, <1>15, <2>1 DEF HistoryOf
    <3> QED BY <1>7, <1>9, <1>14, <1>16, <2>1, <3>1 DEF HistoryOf
  <2>2. CASE was # <<>>
    <3>1. stored[s].first # NoHolder /\ was[1] = Said("user", stored[s].first) BY <1>2, <1>15, <2>2 DEF HistoryOf
    <3>2. stored'[s].first = stored[s].first BY <1>14, <3>1
    <3> QED BY <1>7, <1>9, <1>14, <2>2, <3>1, <3>2 DEF HistoryOf
  <2> QED BY <2>1, <2>2
<1>18. \A r \in SessionIds : r # s => HistoryOf(r)' BY <1>14 DEF HistoryInv, HistoryOf
<1>19. \A u \in Turns : PlansOf(u)'
  <2>1. \E at : Goto(t, at) BY DEF RecordExchange
  <2> QED BY <2>1, PlansMove
<1> QED BY <1>14, <1>17, <1>18, <1>19 DEF HistoryInv

LEMMA OtherHistory ==
  ASSUME SpendInv, StoreInv, HistoryInv,
         \/ \E o \in ChatOwners : CancelChat(o) \/ ClearBegin(o) \/ ClearStore(o)
         \/ \E s \in SessionIds : EditSession(s)
  PROVE  HistoryInv'
<1>1. \A u \in Turns : PlansOf(u)'
  <2>1. UNCHANGED chatTurns BY DEF CancelChat, ClearBegin, ClearStore, EditSession
  <2> QED BY <2>1 DEF HistoryInv, PlansOf
<1>2. CASE \E o \in ChatOwners : CancelChat(o) \/ ClearBegin(o)
  <2>1. UNCHANGED storeVars BY <1>2 DEF CancelChat, ClearBegin
  <2> QED BY <1>1, <2>1, StoreStands
<1>3. ASSUME NEW o \in ChatOwners, ClearStore(o) PROVE HistoryInv'
  <2>1. PICK mine : mine = {s \in SessionIds : sessions[s].owner = o} OBVIOUS
  <2>2. /\ sessions' = [s \in SessionIds |-> IF s \in mine THEN NoSession ELSE sessions[s]]
        /\ stored' = [s \in SessionIds |-> IF s \in mine THEN NothingStored ELSE stored[s]]
    BY <1>3, <2>1 DEF ClearStore
  <2>3. ASSUME NEW s \in SessionIds PROVE HistoryOf(s)'
    <3>1. HistoryOf(s) BY DEF HistoryInv
    <3>2. CASE s \in mine
      <4>1. sessions'[s] = NoSession /\ stored'[s] = NothingStored BY <2>2, <3>2
      <4> QED BY <4>1, EmptyAlternates DEF HistoryOf
    <3>3. CASE s \notin mine
      <4>1. sessions'[s] = sessions[s] /\ stored'[s] = stored[s] BY <2>2, <3>3
      <4> QED BY <3>1, <4>1 DEF HistoryOf
    <3> QED BY <3>2, <3>3
  <2>4. DOMAIN stored' = SessionIds BY <2>2
  <2> QED BY <1>1, <2>3, <2>4 DEF HistoryInv
<1>4. ASSUME NEW s \in SessionIds, EditSession(s) PROVE HistoryInv'
  <2>1. sessions' = [sessions EXCEPT ![s].edits = sessions[s].edits + 1] /\ UNCHANGED stored BY <1>4 DEF EditSession
  <2>2. DOMAIN sessions = SessionIds /\ DOMAIN sessions[s] = SessionKeys BY DEF StoreInv, Kept
  <2>3. \A r \in SessionIds : sessions'[r].msgs = sessions[r].msgs BY <2>1, <2>2 DEF SessionKeys
  <2> QED BY <1>1, <2>1, <2>3 DEF HistoryInv, HistoryOf
<1> QED BY <1>2, <1>3, <1>4

LEMMA HistoryMoves == ASSUME SpendInv, StoreInv, HistoryInv, [ChatNext]_chatVars PROVE HistoryInv'
<1>1. CASE UNCHANGED chatVars BY <1>1 DEF chatVars, HistoryInv, HistoryOf, PlansOf
<1>2. ASSUME NEW t \in Turns, ChatTurnStep(t), ~RecordExchange(t) PROVE HistoryInv'
  <2>1. \/ EnterTurn(t) \/ TakeGate(t) \/ LoadModel(t) \/ Summarize(t) \/ Recheck(t) \/ PinAttachments(t)
        \/ \E n \in PasteSizes : Compose(t, n)
        \/ RefuseBusy(t) \/ RefuseLoop(t)
        \/ FailUnbilled(t) \/ LateReply(t) \/ FinishTurn(t) \/ CancelTurn(t) \/ DropHandler(t)
        \/ \E n \in PasteSizes : TooLarge(t, n)
        \/ ToolRound(t) \/ Answer(t) \/ FailBilled(t) \/ BillUsage(t)
    BY <1>2 DEF ChatTurnStep
  <2>2. UNCHANGED storeVars BY <2>1, QuietTurnSteps, RefusedTurns, LostTurns, BillingSteps
  <2>3. \A u \in Turns : PlansOf(u)'
    <3>1. CASE EnterTurn(t) \/ TakeGate(t) \/ LoadModel(t) \/ Recheck(t) \/ PinAttachments(t)
      <4>1. \E at : Goto(t, at) BY <3>1 DEF EnterTurn, TakeGate, LoadModel, Recheck, PinAttachments
      <4> QED BY <4>1, PlansMove
    <3>2. CASE Summarize(t) \/ \E n \in PasteSizes : Compose(t, n)
      <4>1. \/ Goto(t, "reply") \/ Goto(t, "recheck")
            \/ chatTurns' = [chatTurns EXCEPT ![t].pc = "recheck", ![t].plan = Plan(t)]
            \/ \E f : chatTurns' = [chatTurns EXCEPT ![t].pc = "summarize", ![t].fits = f]
        BY <3>2 DEF Compose, Summarize
      <4> QED BY <4>1, PlansMove
    <3>3. CASE \/ RefuseBusy(t) \/ RefuseLoop(t) \/ FailUnbilled(t) \/ LateReply(t) \/ FinishTurn(t) \/ CancelTurn(t)
               \/ DropHandler(t) \/ (\E n \in PasteSizes : TooLarge(t, n)) \/ FailBilled(t)
      <4>1. chatTurns' = [chatTurns EXCEPT ![t] = [IdleTurn EXCEPT !.pc = "done"]]
        BY <3>3 DEF RefuseBusy, RefuseLoop, FailUnbilled, LateReply, FinishTurn, CancelTurn, DropHandler, TooLarge, FailBilled,
                    DropTurn, LeaveChat
      <4> QED BY <4>1, PlansMove
    <3>4. CASE ToolRound(t) \/ Answer(t) \/ BillUsage(t)
      <4>1. \/ chatTurns' = [chatTurns EXCEPT ![t].pending = TRUE]
            \/ \E at, b : chatTurns' = [chatTurns EXCEPT ![t].pc = at, ![t].pending = b]
            \/ \E at : Goto(t, at)
        BY <3>4 DEF ToolRound, Answer, BillUsage
      <4> QED BY <4>1, PlansMove
    <3> QED BY <2>1, <3>1, <3>2, <3>3, <3>4
  <2> QED BY <2>2, <2>3, StoreStands
<1>3. CASE ChatNext BY <1>2, <1>3, RecordedHistory, BegunHistory, OtherHistory DEF ChatNext
<1> QED BY <1>1, <1>3

LEMMA HistoryPromise == ASSUME HistoryInv PROVE PromptWellFormed
<1>1. ASSUME NEW s \in SessionIds, sessions[s].msgs # <<>>
      PROVE  /\ sessions[s].msgs[1] = Said("user", stored[s].first)
             /\ \A i \in DOMAIN PromptRoles(sessions[s].msgs) :
                   PromptRoles(sessions[s].msgs)[i] = IF i % 2 = 1 THEN "user" ELSE "assistant"
  <2>1. HistoryOf(s) BY DEF HistoryInv
  <2>2. Alternates(sessions[s].msgs) /\ sessions[s].msgs[1] = Said("user", stored[s].first) BY <1>1, <2>1 DEF HistoryOf
  <2>3. \A i \in DOMAIN PromptRoles(sessions[s].msgs) : PromptRoles(sessions[s].msgs)[i] = Role(i) BY <1>1, <2>2, SentAlternate
  <2> QED BY <2>2, <2>3 DEF Role
<1> QED BY <1>1 DEF PromptWellFormed

-----------------------------------------------------------------------------
(* The window a turn was sized for.                                         *)

TuneTasks == [model : Models \cup {"none"}, at : {"free", "measure", "measuring", "probe", "install"}, timed : BOOLEAN, window : Nat]
TuneOk(t) == t \in TuneTasks /\ (t.at # "free" => t.model \in Models)
TuningOk(t) == t.model \in Models \cup {"none"} /\ t.window \in Nat /\ t.compact \in Nat /\ t.reply \in Nat /\ t.web \in Nat
SizesOk ==
  /\ TuningOk(tuned) /\ (psCache.size = Unknown \/ psCache.size \in Nat) /\ webBudget \in Nat
  /\ DOMAIN resident = Models /\ \A m \in Models : resident[m] \in Nat
  /\ DOMAIN tunes = Tasks /\ \A t \in Tasks : TuneOk(tunes[t])

SizedFields == {"at", "model", "limit", "web", "sizedTuned", "read"}
SentFits(t) ==
  t.at = "sent" /\ (t.sizedTuned \/ ~(t.limit <= PromptBase /\ t.web <= WebBase))
    => t.read > 0 /\ t.limit <= WindowCap(PromptBase, t.read) /\ t.web <= WindowCap(WebBase, t.read)
SizedOk(t) ==
  /\ DOMAIN t = SizedFields /\ t.limit \in Int /\ t.web \in Int
  /\ t.at \in {"idle", "gate", "load", "size", "check", "sent", "cancelled"}
  /\ (t.at \notin {"idle", "cancelled"} => t.model \in Models) /\ SentFits(t)
WindowInv == SizesOk /\ selection \in Models \cup {"cloud"} /\ SizedOk(sizedTurn)

LEMMA WindowNumbers ==
  /\ BaseWindow \in Nat /\ BaseWindow > 0 /\ MaxWindow \in Nat /\ PromptBase \in Nat /\ WebBase \in Nat
  /\ ShippedCompact \in Nat /\ ShippedReply \in Nat /\ ShippedWeb \in Nat /\ Headroom \in Nat
  /\ ToolDefTokens \in Nat /\ MinResultTokens \in Nat /\ PrefillReach \in Nat
  /\ WindowSizes \subseteq Nat /\ 0 \notin WindowSizes /\ WebBudgets \subseteq Nat
  BY WindowAssumption

LEMMA DivNat == ASSUME NEW a \in Nat, NEW b \in Nat, b > 0 PROVE a \div b \in Nat
  OBVIOUS

(* A cap grows with the window.                                             *)
LEMMA CapGrows ==
  ASSUME NEW base \in Nat, NEW v \in Nat, NEW w \in Nat, v <= w
  PROVE  WindowCap(base, v) \in Nat /\ WindowCap(base, v) <= WindowCap(base, w)
<1>1. PICK a \in Nat : a = Lower(v, MaxWindow) BY WindowNumbers DEF Lower
<1>2. PICK b \in Nat : b = Lower(w, MaxWindow) BY WindowNumbers DEF Lower
<1>3. a <= b BY <1>1, <1>2, WindowNumbers DEF Lower
<1>4. base * a \in Nat /\ base * b \in Nat /\ base * a <= base * b BY <1>3
<1>5. PICK x \in Nat, y \in Nat : x = base * a /\ y = base * b /\ x <= y BY <1>4
<1>6. PICK d \in Nat : d = BaseWindow /\ d > 0 BY WindowNumbers
<1>7. x \div d \in Nat /\ y \div d \in Nat /\ x \div d <= y \div d BY <1>5, <1>6
<1>8. v # Unknown /\ w # Unknown BY DEF Unknown
<1> QED BY <1>1, <1>2, <1>5, <1>6, <1>7, <1>8 DEF WindowCap

LEMMA CapNat ==
  ASSUME NEW base \in Nat, NEW w, w = Unknown \/ w \in Nat
  PROVE  WindowCap(base, w) \in Nat
<1>1. CASE w = Unknown BY <1>1 DEF WindowCap
<1>2. CASE w \in Nat BY <1>2, CapGrows
<1> QED BY <1>1, <1>2

LEMMA VerifiedNat == ASSUME SizesOk, NEW m PROVE VerifiedWindow(m) = Unknown \/ VerifiedWindow(m) \in Nat
  BY DEF SizesOk, TuningOk, VerifiedWindow, Lower

(* What a turn is sized with are numbers, and a turn reserves no less for   *)
(* the reply than the trigger of compaction counts.                         *)
LEMMA LimitNumbers ==
  ASSUME SizesOk, NEW m
  PROVE  /\ PromptCap(m) \in Nat /\ WebLimits(m) \in Nat /\ MaxWindowTokens(m) \in Nat
         /\ TurnReservation(MaxWindowTokens(m)) \in Nat /\ MaxWindowTokens(m) <= TurnReservation(MaxWindowTokens(m))
<1>1. PromptCap(m) \in Nat BY VerifiedNat, CapNat, WindowNumbers DEF PromptCap
<1>2. PICK c \in Nat : c = WindowCap(WebBase, VerifiedWindow(m)) BY VerifiedNat, CapNat, WindowNumbers
<1>3. webBudget \in Nat /\ TuningOk(tuned) BY DEF SizesOk
<1>4. WebLimits(m) \in Nat BY <1>2, <1>3 DEF WebLimits, Lower, TuningOk
<1>5. PICK r \in Nat : r = MaxWindowTokens(m) BY <1>3, WindowNumbers DEF MaxWindowTokens, Lower, TuningOk
<1>6. TurnReservation(r) \in Nat /\ r <= TurnReservation(r) BY DEF TurnReservation
<1> QED BY <1>1, <1>4, <1>5, <1>6

LEMMA CompactNumber == ASSUME SizesOk, NEW m PROVE CompactTokens(m) \in Int
<1>1. TuningOk(tuned) BY DEF SizesOk
<1>2. PICK cap \in Nat, reply \in Nat : cap = PromptCap(m) /\ reply = MaxWindowTokens(m) BY LimitNumbers
<1>3. PICK w \in Nat : w = IF VerifiedWindow(m) = Unknown THEN BaseWindow ELSE VerifiedWindow(m)
  BY VerifiedNat, WindowNumbers
<1>4. PICK measured \in Nat : measured = Higher(1, Lower(tuned.window, MaxWindow)) /\ measured > 0
  BY <1>1, WindowNumbers DEF TuningOk, Higher, Lower
<1>5. PICK low \in Nat : low = Lower(w, measured) BY <1>3, <1>4 DEF Lower
<1>6. PICK c \in Nat : c = tuned.compact BY <1>1 DEF TuningOk
<1>7. c * low \in Nat OBVIOUS
<1>8. PICK proposed \in Nat : proposed = (c * low) \div measured BY <1>4, <1>7, DivNat
<1>9. PICK tight \in Nat : tight = IF ShippedCompact >= c THEN Lower(Lower(ShippedCompact, c), proposed) ELSE Lower(ShippedCompact, c)
  BY <1>8, WindowNumbers DEF Lower
<1>10. CompactTokens(m) = IF ~TunedFor(m) THEN ShippedCompact
                          ELSE IF ~tuned.timed \/ w <= BaseWindow THEN tight
                          ELSE Higher(tight, Lower(Lower(proposed, cap), PrefillReach + reply))
  BY <1>2, <1>3, <1>4, <1>5, <1>6, <1>8, <1>9 DEF CompactTokens
<1>11. PICK top \in Nat : top = Higher(tight, Lower(Lower(proposed, cap), PrefillReach + reply))
  BY WindowNumbers DEF Higher, Lower
<1> QED BY <1>9, <1>10, <1>11, WindowNumbers

LEMMA LimitsOrdered ==
  ASSUME NEW c \in Int, NEW cap \in Nat, NEW budget \in Nat, NEW offered, NEW r \in Nat, NEW s \in Nat, r <= s
  PROVE  /\ TurnPromptLimit(c, cap, budget, offered, r) <= TurnPromptLimit(cap, cap, budget, offered, s)
         /\ TurnPromptLimit(cap, cap, budget, offered, s) <= cap
         /\ TurnPromptLimit(cap, cap, budget, offered, s) \in Nat
<1>1. PICK tools \in Nat : tools = IF offered THEN ToolDefTokens ELSE 0 BY WindowNumbers
<1>2. PICK top \in Nat : top = IF offered THEN Less(budget, MinResultTokens) ELSE cap
  <2>1. PICK least \in Nat : least = MinResultTokens BY WindowNumbers
  <2>2. Less(budget, least) \in Nat BY DEF Less
  <2> QED BY <2>1, <2>2
<1>3. \A x \in Int, y \in Nat : TurnPromptLimit(x, cap, budget, offered, y) = Higher(Lower(Lower(x, cap), top), Lower(cap, y + Headroom + tools))
  BY <1>1, <1>2 DEF TurnPromptLimit
<1>4. PICK h \in Nat : h = Headroom BY WindowNumbers
<1>5. /\ Higher(Lower(Lower(c, cap), top), Lower(cap, r + h + tools)) <= Higher(Lower(Lower(cap, cap), top), Lower(cap, s + h + tools))
      /\ Higher(Lower(Lower(cap, cap), top), Lower(cap, s + h + tools)) <= cap
      /\ Higher(Lower(Lower(cap, cap), top), Lower(cap, s + h + tools)) \in Nat
  BY DEF Higher, Lower
<1> QED BY <1>3, <1>4, <1>5

LEMMA TriggersFirst == ASSUME SizesOk PROVE TriggerBeforeLimit
<1>1. ASSUME NEW m \in Models PROVE Trigger(m) <= HardLimit(m) /\ HardLimit(m) <= PromptCap(m)
  <2>1. PICK c \in Int : c = CompactTokens(m) BY CompactNumber
  <2>2. PICK cap \in Nat, budget \in Nat, r \in Nat, s \in Nat :
          cap = PromptCap(m) /\ budget = WebLimits(m) /\ r = MaxWindowTokens(m) /\ s = TurnReservation(MaxWindowTokens(m)) /\ r <= s
    BY LimitNumbers
  <2> QED BY <2>1, <2>2, LimitsOrdered DEF Trigger, HardLimit
<1> QED BY <1>1 DEF TriggerBeforeLimit

LEMMA HardNat == ASSUME SizesOk, NEW m PROVE HardLimit(m) \in Nat
<1>1. PICK cap \in Nat, budget \in Nat, r \in Nat, s \in Nat :
        cap = PromptCap(m) /\ budget = WebLimits(m) /\ r = MaxWindowTokens(m) /\ s = TurnReservation(MaxWindowTokens(m)) /\ r <= s
  BY LimitNumbers
<1> QED BY <1>1, LimitsOrdered DEF HardLimit

LEMMA WindowStarts == ASSUME WindowInit PROVE WindowInv
<1>1. TuningOk(NoTuning) BY DEF TuningOk, NoTuning
<1>2. TuneOk(NoTune) BY DEF TuneOk, TuneTasks, NoTune
<1>3. SizedOk(NoTurn) BY DEF SizedOk, SizedFields, SentFits, NoTurn
<1>4. NoWindowRead.size = Unknown BY DEF NoWindowRead
<1> QED BY <1>1, <1>2, <1>3, <1>4, WindowNumbers DEF WindowInit, WindowInv, SizesOk, NotLoaded

(* What stays put keeps its part of the invariant.                          *)
TunesKeep == DOMAIN tunes' = Tasks /\ \A t \in Tasks : TuneOk(tunes'[t])
ResidentKeep == DOMAIN resident' = Models /\ \A m \in Models : resident'[m] \in Nat
LEMMA SizesKeep ==
  ASSUME SizesOk, tuned' = tuned \/ TuningOk(tuned'), psCache' = psCache \/ psCache'.size = Unknown \/ psCache'.size \in Nat,
         webBudget' = webBudget \/ webBudget' \in Nat, resident' = resident \/ ResidentKeep, tunes' = tunes \/ TunesKeep
  PROVE  SizesOk'
  BY DEF SizesOk, ResidentKeep, TunesKeep, TuningOk
LEMMA OneTune ==
  ASSUME SizesOk, NEW t \in Tasks, NEW x, TuneOk(x), tunes' = [tunes EXCEPT ![t] = x]
  PROVE  TunesKeep
  BY DEF SizesOk, TunesKeep
LEMMA TuneMoves ==
  ASSUME SizesOk, NEW t \in Tasks, NEW p \in {"measuring", "probe", "install"}, tunes[t].at # "free"
  PROVE  /\ TuneOk([tunes[t] EXCEPT !.at = p])
         /\ \A b \in BOOLEAN : TuneOk([tunes[t] EXCEPT !.at = p, !.timed = b])
         /\ \A w \in Nat : TuneOk([tunes[t] EXCEPT !.at = p, !.window = w])
<1>1. TuneOk(tunes[t]) BY DEF SizesOk
<1>2. PICK x : x = tunes[t] OBVIOUS
<1> QED BY <1>1, <1>2 DEF TuneOk, TuneTasks
LEMMA CachedOk == ASSUME NEW m, NEW r, r = Unknown \/ r \in Nat PROVE Cached(m, r).size = Unknown \/ Cached(m, r).size \in Nat
  BY DEF Cached
LEMMA LoadedOk ==
  ASSUME SizesOk, NEW m \in Models, NEW next \in LoadOutcomes(m)
  PROVE  DOMAIN next = Models /\ \A k \in Models : next[k] \in Nat
  BY WindowNumbers DEF SizesOk, LoadOutcomes
LEMMA AnswerOk == ASSUME SizesOk, NEW m \in Models, NEW r \in PsAnswers(m) PROVE r = Unknown \/ r \in Nat
  BY DEF SizesOk, PsAnswers
LEMMA VerifyKeeps ==
  ASSUME SizesOk, NEW m \in Models \cup {"cloud"}, VerifyWindow(m)
  PROVE  psCache' = psCache \/ psCache'.size = Unknown \/ psCache'.size \in Nat
<1>1. CASE ~TunedFor(m) BY <1>1 DEF VerifyWindow
<1>2. CASE TunedFor(m)
  <2>1. PICK r \in PsAnswers(m) : psCache' = Cached(m, r) BY <1>2 DEF VerifyWindow
  <2>2. m \in Models BY <1>2 DEF TunedFor, SizesOk, TuningOk
  <2> QED BY <2>1, <2>2, AnswerOk, CachedOk
<1> QED BY <1>1, <1>2

LEMMA ScaledNat == ASSUME NEW shipped \in Nat, NEW w \in Nat, NEW least \in Nat PROVE Scaled(shipped, w, least) \in Nat
<1>1. PICK a \in Nat : a = Lower(w, MaxWindow) BY WindowNumbers DEF Lower
<1>2. shipped * a \in Nat OBVIOUS
<1>3. PICK d \in Nat : d = (shipped * a) \div BaseWindow BY <1>2, DivNat, WindowNumbers
<1> QED BY <1>1, <1>3 DEF Scaled, Higher
LEMMA TuningFromOk == ASSUME NEW m \in Models, NEW w \in Nat, NEW timed PROVE TuningOk(TuningFrom(m, w, timed))
<1>1. PICK r \in Nat, b \in Nat, c \in Nat : r = Scaled(ShippedReply, w, 1) /\ b = Scaled(ShippedWeb, w, 1) /\ c = Scaled(ShippedCompact, w, 1)
  BY ScaledNat, WindowNumbers
<1>2. PICK x \in Nat, y \in Nat : x = WindowCap(WebBase, w) /\ y = WindowCap(PromptBase, w) BY CapNat, WindowNumbers
<1>3. Propose(w).reply = r /\ Propose(w).web \in Nat /\ Propose(w).compact \in Nat
  BY <1>1, <1>2, WindowNumbers DEF Propose, Higher, Lower
<1>4. PICK v : v = Propose(w) OBVIOUS
<1> QED BY <1>3, <1>4 DEF TuningFrom, TuningOk

(* The turn ends, or it is where it was with what it was sized for.         *)
LEMMA EndsOk == SizedOk(NoTurn) BY DEF SizedOk, SizedFields, SentFits, NoTurn
LEMMA TurnMovesOn ==
  ASSUME NEW t, SizedOk(t), NEW p \in {"gate", "load", "size", "check", "cancelled"}, t.at \notin {"idle", "cancelled"}
  PROVE  SizedOk([t EXCEPT !.at = p])
  BY DEF SizedOk, SizedFields, SentFits
LEMMA TurnSent ==
  ASSUME NEW t, SizedOk(t), t.model \in Models, NEW r,
         r > 0, t.limit <= WindowCap(PromptBase, r), t.web <= WindowCap(WebBase, r)
  PROVE  SizedOk([t EXCEPT !.at = "sent", !.read = r])
  BY DEF SizedOk, SizedFields, SentFits
LEMMA SentUnread ==
  ASSUME NEW t, SizedOk(t), t.model \in Models, ~t.sizedTuned, t.limit <= PromptBase, t.web <= WebBase
  PROVE  SizedOk([t EXCEPT !.at = "sent"])
<1>1. PICK u : u = [t EXCEPT !.at = "sent"] OBVIOUS
<1>2. /\ DOMAIN u = SizedFields /\ u.at = "sent" /\ u.limit = t.limit /\ u.web = t.web
      /\ u.model = t.model /\ u.sizedTuned = t.sizedTuned
  BY <1>1 DEF SizedOk, SizedFields
<1> QED BY <1>1, <1>2 DEF SizedOk, SentFits

LEMMA OllamaSteps ==
  ASSUME WindowInv, OllamaChanges \/ ReadAges \/ ReloadWeb
  PROVE  WindowInv'
<1>1. UNCHANGED <<selection, sizedTurn, tuned, tunes>> BY DEF OllamaChanges, ReadAges, ReloadWeb
<1>2. SizesOk BY DEF WindowInv
<1>3. CASE OllamaChanges
  <2>1. UNCHANGED <<psCache, webBudget>> BY <1>3 DEF OllamaChanges
  <2>2. ResidentKeep BY <1>2, <1>3, WindowNumbers DEF OllamaChanges, SizesOk, ResidentKeep, NotLoaded
  <2>3. SizesOk' BY <1>1, <1>2, <2>1, <2>2, SizesKeep
  <2> QED BY <1>1, <2>3 DEF WindowInv
<1>4. CASE ReadAges
  <2>1. UNCHANGED <<resident, webBudget>> /\ psCache' = [psCache EXCEPT !.fresh = FALSE] BY <1>4 DEF ReadAges
  <2>2. psCache'.size = psCache.size BY <2>1
  <2>3. SizesOk' BY <1>1, <1>2, <2>1, <2>2, SizesKeep DEF SizesOk
  <2> QED BY <1>1, <2>3 DEF WindowInv
<1>5. CASE ReloadWeb
  <2>1. UNCHANGED resident /\ webBudget' \in Nat /\ VerifyWindow(selection) BY <1>5, WindowNumbers DEF ReloadWeb
  <2>2. psCache' = psCache \/ psCache'.size = Unknown \/ psCache'.size \in Nat BY <1>2, <2>1, VerifyKeeps DEF WindowInv
  <2>3. SizesOk' BY <1>1, <1>2, <2>1, <2>2, SizesKeep
  <2> QED BY <1>1, <2>3 DEF WindowInv
<1> QED BY <1>3, <1>4, <1>5

LEMMA SelectModelStep == ASSUME WindowInv, ModelSelect PROVE WindowInv'
<1>1. SizesOk /\ SizedOk(sizedTurn) BY DEF WindowInv
<1>2. UNCHANGED <<psCache, resident, webBudget>> /\ tuned' = NoTuning /\ selection' \in Models \cup {"cloud"} BY DEF ModelSelect
<1>3. tunes' = tunes \/ TunesKeep
  <2>1. PICK m \in Models \cup {"cloud"} :
          IF ProviderFor(m) = "ollama"
          THEN \E t \in Tasks : tunes[t].at = "free" /\ tunes' = [tunes EXCEPT ![t] = [NoTune EXCEPT !.model = m, !.at = "measure"]]
          ELSE UNCHANGED tunes
    BY DEF ModelSelect
  <2>2. CASE ProviderFor(m) = "ollama"
    <3>1. m \in Models BY <2>2 DEF ProviderFor
    <3>2. PICK x : x = [NoTune EXCEPT !.model = m, !.at = "measure"] OBVIOUS
    <3>3. TuneOk(x) BY <3>1, <3>2 DEF TuneOk, TuneTasks, NoTune
    <3>4. PICK t \in Tasks : tunes' = [tunes EXCEPT ![t] = x] BY <2>1, <2>2, <3>2
    <3> QED BY <1>1, <3>3, <3>4, OneTune
  <2>3. CASE ProviderFor(m) # "ollama" BY <2>1, <2>3
  <2> QED BY <2>2, <2>3
<1>4. TuningOk(NoTuning) BY DEF TuningOk, NoTuning
<1>5. SizesOk' BY <1>1, <1>2, <1>3, <1>4, SizesKeep
<1>6. SizedOk(sizedTurn')
  <2>1. \/ sizedTurn' = sizedTurn
        \/ sizedTurn.at # "idle" /\ sizedTurn' = [sizedTurn EXCEPT !.at = "cancelled"]
    BY DEF ModelSelect
  <2>2. SizedOk([sizedTurn EXCEPT !.at = "cancelled"])
    BY <1>1 DEF SizedOk, SizedFields, SentFits
  <2> QED BY <1>1, <2>1, <2>2
<1> QED BY <1>2, <1>5, <1>6 DEF WindowInv

LEMMA TuneSteps ==
  ASSUME WindowInv, NEW t \in Tasks,
         TuneMeasures(t) \/ TuneUnmeasured(t) \/ TuneMeasured(t) \/ TuneGivesUp(t) \/ TuneProbes(t) \/ TuneInstalls(t)
  PROVE  WindowInv'
<1>1. SizesOk BY DEF WindowInv
<1>2. UNCHANGED <<selection, sizedTurn, psCache, webBudget>>
  BY DEF TuneMeasures, TuneUnmeasured, TuneMeasured, TuneGivesUp, TuneProbes, TuneInstalls
<1>3. TuneOk(tunes[t]) /\ TuneOk(NoTune) BY <1>1 DEF SizesOk, TuneOk, TuneTasks, NoTune
<1>4. SUFFICES ASSUME TRUE PROVE SizesOk' BY <1>2 DEF WindowInv
<1>5. CASE TuneMeasures(t)
  <2>1. tunes[t].at # "free" /\ UNCHANGED tuned BY <1>5 DEF TuneMeasures
  <2>2. tunes' = [tunes EXCEPT ![t] = [tunes[t] EXCEPT !.at = "measuring"]] BY <1>5 DEF TuneMeasures
  <2>3. TunesKeep BY <1>1, <2>1, <2>2, TuneMoves, OneTune
  <2>4. tunes[t].model \in Models BY <1>3, <2>1 DEF TuneOk
  <2>5. PICK next \in LoadOutcomes(tunes[t].model) : resident' = next BY <1>5 DEF TuneMeasures
  <2>6. ResidentKeep BY <1>1, <2>4, <2>5, LoadedOk DEF ResidentKeep
  <2> QED BY <1>1, <1>2, <2>1, <2>3, <2>6, SizesKeep
<1>6. CASE TuneUnmeasured(t)
  <2>1. tunes[t].at # "free" /\ UNCHANGED <<tuned, resident>> BY <1>6 DEF TuneUnmeasured
  <2>2. tunes' = [tunes EXCEPT ![t] = [tunes[t] EXCEPT !.at = "probe"]] BY <1>6 DEF TuneUnmeasured
  <2>3. TunesKeep BY <1>1, <2>1, <2>2, TuneMoves, OneTune
  <2> QED BY <1>1, <1>2, <2>1, <2>3, SizesKeep
<1>7. CASE TuneMeasured(t)
  <2>1. tunes[t].at # "free" /\ UNCHANGED <<tuned, resident>> BY <1>7 DEF TuneMeasured
  <2>2. PICK b \in BOOLEAN : tunes' = [tunes EXCEPT ![t] = [tunes[t] EXCEPT !.at = "probe", !.timed = b]]
    BY <1>1, <1>7 DEF TuneMeasured, SizesOk
  <2>3. TunesKeep BY <1>1, <2>1, <2>2, TuneMoves, OneTune
  <2> QED BY <1>1, <1>2, <2>1, <2>3, SizesKeep
<1>8. CASE TuneGivesUp(t)
  <2>1. UNCHANGED <<tuned, resident>> /\ tunes' = [tunes EXCEPT ![t] = NoTune] BY <1>8 DEF TuneGivesUp
  <2>2. TunesKeep BY <1>1, <1>3, <2>1, OneTune
  <2> QED BY <1>1, <1>2, <2>1, <2>2, SizesKeep
<1>9. CASE TuneProbes(t)
  <2>1. tunes[t].at # "free" /\ UNCHANGED <<tuned, resident>> BY <1>9 DEF TuneProbes
  <2>2. tunes[t].model \in Models BY <1>3, <2>1 DEF TuneOk
  <2>3. PICK w \in Nat : w = resident[tunes[t].model] BY <1>1, <2>2 DEF SizesOk
  <2>4. tunes' = [tunes EXCEPT ![t] = [tunes[t] EXCEPT !.at = "install", !.window = w]]
    BY <1>1, <1>9, <2>3 DEF TuneProbes, SizesOk
  <2>5. TunesKeep BY <1>1, <2>1, <2>4, TuneMoves, OneTune
  <2> QED BY <1>1, <1>2, <2>1, <2>5, SizesKeep
<1>10. CASE TuneInstalls(t)
  <2>1. tunes[t].at # "free" /\ UNCHANGED resident /\ tunes' = [tunes EXCEPT ![t] = NoTune]
        /\ tuned' = TuningFrom(tunes[t].model, tunes[t].window, tunes[t].timed)
    BY <1>10 DEF TuneInstalls
  <2>2. tunes[t].model \in Models /\ tunes[t].window \in Nat BY <1>3, <2>1 DEF TuneOk, TuneTasks
  <2>3. TuningOk(tuned') BY <2>1, <2>2, TuningFromOk
  <2>4. TunesKeep BY <1>1, <1>3, <2>1, OneTune
  <2> QED BY <1>1, <1>2, <2>1, <2>3, <2>4, SizesKeep
<1> QED BY <1>5, <1>6, <1>7, <1>8, <1>9, <1>10

LEMMA TurnStartSteps ==
  ASSUME WindowInv, SizedTurnStarts \/ TurnTakesGate \/ SizedTurnEnds
  PROVE  WindowInv'
<1>1. SizesOk /\ SizedOk(sizedTurn) BY DEF WindowInv
<1>2. UNCHANGED <<selection, tuned, resident, webBudget, tunes>> BY DEF SizedTurnStarts, TurnTakesGate, SizedTurnEnds
<1>3. CASE SizedTurnStarts
  <2>1. selection \in Models /\ VerifyWindow(selection)
        /\ sizedTurn' = [NoTurn EXCEPT !.at = "gate", !.model = selection, !.sizedTuned = TunedFor(selection)]
    BY <1>3 DEF SizedTurnStarts
  <2>2. SizedOk(sizedTurn') BY <2>1 DEF SizedOk, SizedFields, SentFits, NoTurn
  <2>3. psCache' = psCache \/ psCache'.size = Unknown \/ psCache'.size \in Nat BY <1>1, <2>1, VerifyKeeps
  <2>4. SizesOk' BY <1>1, <1>2, <2>3, SizesKeep
  <2> QED BY <1>2, <2>2, <2>4 DEF WindowInv
<1>4. CASE TurnTakesGate
  <2>1. UNCHANGED psCache /\ sizedTurn.at = "gate" /\ sizedTurn' = [sizedTurn EXCEPT !.at = "load"] BY <1>4 DEF TurnTakesGate
  <2>2. SizedOk(sizedTurn') BY <1>1, <2>1, TurnMovesOn
  <2>3. SizesOk' BY <1>1, <1>2, <2>1, SizesKeep
  <2> QED BY <1>2, <2>2, <2>3 DEF WindowInv
<1>5. CASE SizedTurnEnds
  <2>1. UNCHANGED psCache /\ sizedTurn' = NoTurn BY <1>5 DEF SizedTurnEnds, EndSizedTurn
  <2>2. SizesOk' BY <1>1, <1>2, <2>1, SizesKeep
  <2> QED BY <1>2, <2>1, <2>2, EndsOk DEF WindowInv
<1> QED BY <1>3, <1>4, <1>5

LEMMA TurnLoadsStep == ASSUME WindowInv, TurnLoads PROVE WindowInv'
<1>1. SizesOk /\ SizedOk(sizedTurn) BY DEF WindowInv
<1>2. UNCHANGED <<selection, tuned, webBudget, tunes>> /\ sizedTurn.at = "load" BY DEF TurnLoads
<1>3. PICK m \in Models : m = sizedTurn.model BY <1>1, <1>2 DEF SizedOk
<1>4. SizedOk([sizedTurn EXCEPT !.at = "size"]) /\ SizedOk(NoTurn) BY <1>1, <1>2, TurnMovesOn, EndsOk
<1>5. SUFFICES ASSUME TRUE
      PROVE /\ sizedTurn' = [sizedTurn EXCEPT !.at = "size"] \/ sizedTurn' = NoTurn
            /\ psCache' = psCache \/ psCache'.size = Unknown \/ psCache'.size \in Nat
            /\ resident' = resident \/ ResidentKeep
  <2>1. SizesOk' BY <1>1, <1>2, <1>5, SizesKeep
  <2>2. SizedOk(sizedTurn') BY <1>4, <1>5
  <2> QED BY <1>2, <2>1, <2>2 DEF WindowInv
<1>6. CASE ~TunedFor(m) \/ VerifiedWindow(m) # Unknown BY <1>3, <1>6 DEF TurnLoads
<1>7. CASE ~(~TunedFor(m) \/ VerifiedWindow(m) # Unknown)
  <2>1. PICK r \in PsAnswers(m) :
          IF r # NotLoaded
          THEN psCache' = Cached(m, r) /\ sizedTurn' = [sizedTurn EXCEPT !.at = "size"] /\ UNCHANGED <<resident, genGate>>
          ELSE \E next \in LoadOutcomes(m) :
                 /\ resident' = next
                 /\ IF next[m] # NotLoaded
                    THEN \E again \in {next[m], Unknown} :
                           /\ psCache' = Cached(m, again)
                           /\ IF again = Unknown THEN EndSizedTurn ELSE sizedTurn' = [sizedTurn EXCEPT !.at = "size"] /\ UNCHANGED genGate
                    ELSE psCache' = Cached(m, r) /\ EndSizedTurn
    BY <1>3, <1>7 DEF TurnLoads
  <2>2. r = Unknown \/ r \in Nat BY <1>1, AnswerOk
  <2>3. CASE r # NotLoaded BY <2>1, <2>2, <2>3, CachedOk
  <2>4. CASE r = NotLoaded
    <3>1. PICK next \in LoadOutcomes(m) :
            /\ resident' = next
            /\ IF next[m] # NotLoaded
               THEN \E again \in {next[m], Unknown} :
                      /\ psCache' = Cached(m, again)
                      /\ IF again = Unknown THEN EndSizedTurn ELSE sizedTurn' = [sizedTurn EXCEPT !.at = "size"] /\ UNCHANGED genGate
               ELSE psCache' = Cached(m, r) /\ EndSizedTurn
      BY <2>1, <2>4
    <3>2. ResidentKeep /\ next[m] \in Nat BY <1>1, <3>1, LoadedOk DEF ResidentKeep
    <3>3. CASE next[m] = NotLoaded BY <2>2, <3>1, <3>2, <3>3, CachedOk DEF EndSizedTurn
    <3>4. CASE next[m] # NotLoaded
      <4>1. PICK again \in {next[m], Unknown} :
              /\ psCache' = Cached(m, again)
              /\ IF again = Unknown THEN EndSizedTurn ELSE sizedTurn' = [sizedTurn EXCEPT !.at = "size"] /\ UNCHANGED genGate
        BY <3>1, <3>4
      <4>2. again = Unknown \/ again \in Nat BY <3>2
      <4> QED BY <3>2, <4>1, <4>2, CachedOk DEF EndSizedTurn
    <3> QED BY <3>3, <3>4
  <2> QED BY <2>3, <2>4
<1> QED BY <1>6, <1>7

LEMMA TurnSizesStep == ASSUME WindowInv, TurnSizes PROVE WindowInv'
<1>1. SizesOk /\ SizedOk(sizedTurn) BY DEF WindowInv
<1>2. UNCHANGED <<selection, tuned, psCache, resident, webBudget, tunes>> /\ sizedTurn.at = "size" BY DEF TurnSizes
<1>3. PICK m \in Models : m = sizedTurn.model BY <1>1, <1>2 DEF SizedOk
<1>4. PICK l \in Int, w \in Int : l = HardLimit(m) /\ w = (IF ToolsOff(m) THEN 0 ELSE WebLimits(m))
  BY <1>1, HardNat, LimitNumbers
<1>5. sizedTurn' = [sizedTurn EXCEPT !.at = "check", !.limit = l, !.web = w] BY <1>3, <1>4 DEF TurnSizes
<1>6. SizedOk(sizedTurn') BY <1>1, <1>3, <1>5 DEF SizedOk, SizedFields, SentFits
<1>7. SizesOk' BY <1>1, <1>2, SizesKeep
<1> QED BY <1>2, <1>6, <1>7 DEF WindowInv

(* What a turn is allowed within the smaller of two windows it is allowed   *)
(* within the one that Ollama reports.                                      *)
LEMMA AllowedBySmaller ==
  ASSUME NEW v \in Nat, NEW w \in Nat, v <= w, NEW l \in Int, NEW b \in Int,
         l <= WindowCap(PromptBase, v), b <= WindowCap(WebBase, v)
  PROVE  l <= WindowCap(PromptBase, w) /\ b <= WindowCap(WebBase, w)
<1>1. /\ WindowCap(PromptBase, v) \in Nat /\ WindowCap(PromptBase, w) \in Nat /\ WindowCap(PromptBase, v) <= WindowCap(PromptBase, w)
      /\ WindowCap(WebBase, v) \in Nat /\ WindowCap(WebBase, w) \in Nat /\ WindowCap(WebBase, v) <= WindowCap(WebBase, w)
  BY CapGrows, CapNat, WindowNumbers
<1> QED BY <1>1

LEMMA TurnChecksStep == ASSUME WindowInv, TurnChecks PROVE WindowInv'
<1>1. SizesOk /\ SizedOk(sizedTurn) BY DEF WindowInv
<1>2. UNCHANGED <<selection, tuned, webBudget, tunes>> /\ sizedTurn.at = "check" BY DEF TurnChecks
<1>3. PICK m \in Models : m = sizedTurn.model BY <1>1, <1>2 DEF SizedOk
<1>4. sizedTurn.limit \in Int /\ sizedTurn.web \in Int BY <1>1 DEF SizedOk
<1>5. SUFFICES ASSUME TRUE
      PROVE /\ SizedOk(sizedTurn')
            /\ psCache' = psCache \/ psCache'.size = Unknown \/ psCache'.size \in Nat
            /\ resident' = resident \/ ResidentKeep
  <2>1. SizesOk' BY <1>1, <1>2, <1>5, SizesKeep
  <2> QED BY <1>2, <1>5, <2>1 DEF WindowInv
<1>6. CASE ~TunedFor(m) /\ ~NeedsRead
  <2>1. sizedTurn' = [sizedTurn EXCEPT !.at = "sent"] /\ UNCHANGED <<psCache, resident>> BY <1>3, <1>6 DEF TurnChecks
  <2>2. ~sizedTurn.sizedTuned /\ sizedTurn.limit <= PromptBase /\ sizedTurn.web <= WebBase
    BY <1>6 DEF NeedsRead, Allows, WindowCap
  <2> QED BY <1>1, <1>3, <2>1, <2>2, SentUnread
<1>7. CASE ~TunedFor(m) /\ NeedsRead
  <2>1. PICK r \in PsAnswers(m) :
          /\ psCache' = Cached(m, r)
          /\ IF r > 0 /\ Allows(r) THEN sizedTurn' = [sizedTurn EXCEPT !.at = "sent", !.read = r] /\ UNCHANGED genGate ELSE EndSizedTurn
    BY <1>3, <1>7 DEF TurnChecks
  <2>2. UNCHANGED resident BY <1>3, <1>7 DEF TurnChecks
  <2>3. r = Unknown \/ r \in Nat BY <1>1, AnswerOk
  <2>4. CASE r > 0 /\ Allows(r)
    <3>1. SizedOk([sizedTurn EXCEPT !.at = "sent", !.read = r]) BY <1>1, <1>3, <2>4, TurnSent DEF Allows
    <3> QED BY <2>1, <2>2, <2>3, <2>4, <3>1, CachedOk
  <2>5. CASE ~(r > 0 /\ Allows(r)) BY <2>1, <2>2, <2>3, <2>5, CachedOk, EndsOk DEF EndSizedTurn
  <2> QED BY <2>4, <2>5
<1>8. CASE TunedFor(m)
  <2>1. PICK r \in PsAnswers(m), next \in LoadOutcomes(m) :
          LET now == IF r = NotLoaded THEN next ELSE resident
              seen == IF r = NotLoaded /\ now[m] # NotLoaded THEN now[m] ELSE r
              w == Lower(tuned.window, seen)
          IN /\ resident' = now /\ psCache' = Cached(m, seen)
             /\ IF seen > 0 /\ Allows(w) THEN sizedTurn' = [sizedTurn EXCEPT !.at = "sent", !.read = seen] /\ UNCHANGED genGate ELSE EndSizedTurn
    BY <1>3, <1>8 DEF TurnChecks
  <2>2. r = Unknown \/ r \in Nat BY <1>1, AnswerOk
  <2>3. DOMAIN next = Models /\ \A k \in Models : next[k] \in Nat BY <1>1, LoadedOk
  <2>4. PICK now : now = IF r = NotLoaded THEN next ELSE resident OBVIOUS
  <2>5. PICK seen : seen = IF r = NotLoaded /\ now[m] # NotLoaded THEN now[m] ELSE r OBVIOUS
  <2>6. PICK w : w = Lower(tuned.window, seen) OBVIOUS
  <2>7. /\ resident' = now /\ psCache' = Cached(m, seen)
        /\ IF seen > 0 /\ Allows(w) THEN sizedTurn' = [sizedTurn EXCEPT !.at = "sent", !.read = seen] /\ UNCHANGED genGate ELSE EndSizedTurn
    BY <2>1, <2>4, <2>5, <2>6
  <2>8. resident' = resident \/ ResidentKeep BY <2>3, <2>4, <2>7 DEF ResidentKeep
  <2>9. seen = Unknown \/ seen \in Nat BY <2>2, <2>3, <2>4, <2>5
  <2>10. CASE seen > 0 /\ Allows(w)
    <3>1. seen \in Nat BY <2>9, <2>10 DEF Unknown
    <3>2. w \in Nat /\ w <= seen BY <1>1, <2>6, <3>1 DEF Lower, SizesOk, TuningOk
    <3>3. sizedTurn.limit <= WindowCap(PromptBase, seen) /\ sizedTurn.web <= WindowCap(WebBase, seen)
      BY <1>4, <2>10, <3>1, <3>2, AllowedBySmaller DEF Allows
    <3>4. SizedOk([sizedTurn EXCEPT !.at = "sent", !.read = seen]) BY <1>1, <1>3, <2>10, <3>3, TurnSent
    <3> QED BY <2>7, <2>8, <2>9, <2>10, <3>4, CachedOk
  <2>11. CASE ~(seen > 0 /\ Allows(w)) BY <2>7, <2>8, <2>9, <2>11, CachedOk, EndsOk DEF EndSizedTurn
  <2> QED BY <2>10, <2>11
<1> QED BY <1>6, <1>7, <1>8

LEMMA WindowMoves == ASSUME WindowInv, [WindowNext]_windowVars PROVE WindowInv'
<1>1. CASE UNCHANGED windowVars
  <2>1. SizesOk' BY <1>1, SizesKeep DEF windowVars, WindowInv
  <2> QED BY <1>1, <2>1 DEF windowVars, WindowInv
<1>2. CASE WindowNext
  BY <1>2, OllamaSteps, SelectModelStep, TuneSteps, TurnStartSteps, TurnLoadsStep, TurnSizesStep, TurnChecksStep DEF WindowNext
<1> QED BY <1>1, <1>2

LEMMA WindowPromise == ASSUME WindowInv PROVE SentFitsWindow /\ TriggerBeforeLimit
<1>1. TriggerBeforeLimit BY TriggersFirst DEF WindowInv
<1>2. SentFits(sizedTurn) BY DEF WindowInv, SizedOk
<1>3. SentFitsWindow BY <1>2 DEF SentFits, SentFitsWindow, Allows, WindowCap
<1> QED BY <1>1, <1>3

-----------------------------------------------------------------------------
(* Lists without repetition: the loops that build them.                     *)

(* A property of 0 that every number below n hands to the next one holds of *)
(* all of 0..n: a smallest number without it would have been handed it.     *)
LEMMA HandedOn ==
  ASSUME NEW n \in Nat, NEW T, 0 \in T, \A m \in 1 .. n : m - 1 \in T => m \in T
  PROVE  0 .. n \subseteq T
<1> DEFINE Bad == (0 .. n) \ T
<1>1. SUFFICES ASSUME Bad # {} PROVE FALSE OBVIOUS
<1>2. PICK m \in Bad : \A x \in Bad : m <= x
  <2>1. Bad \subseteq Nat OBVIOUS
  <2> HIDE DEF Bad
  <2> QED BY <1>1, <2>1, SmallestIn
<1>3. m \in 0 .. n /\ m \notin T OBVIOUS
<1>4. m \in 1 .. n /\ m - 1 \in 0 .. n /\ ~(m <= m - 1) BY <1>3
<1>5. m - 1 \notin Bad
  <2> HIDE DEF Bad
  <2> QED BY <1>2, <1>4
<1> QED BY <1>3, <1>4, <1>5

(* One pass over q that starts with first: it takes what is new, or, when   *)
(* once is FALSE, what is wanted.                                           *)
Takes(q, wanted, once, a, i) ==
  IF (IF once THEN q[i] \notin Range(a) ELSE q[i] \in wanted) THEN Append(a, q[i]) ELSE a
Passes(q, wanted, once, first, g, m) ==
  g = [k \in 0 .. m |-> g[k]] /\ g[0] = first /\ \A k \in 1 .. m : g[k] = Takes(q, wanted, once, g[k - 1], k)

LEMMA PassExists ==
  ASSUME NEW q, NEW wanted, NEW once, NEW first, NEW n \in Nat
  PROVE  \E g : Passes(q, wanted, once, first, g, n)
<1> DEFINE T == {m \in 0 .. n : \E g : Passes(q, wanted, once, first, g, m)}
<1>1. 0 \in T
  <2>1. Passes(q, wanted, once, first, [k \in 0 .. 0 |-> first], 0) BY DEF Passes
  <2> QED BY <2>1
<1>2. ASSUME NEW m \in 1 .. n, m - 1 \in T PROVE m \in T
  <2>1. PICK g : Passes(q, wanted, once, first, g, m - 1) BY <1>2
  <2>2. PICK h : h = [k \in 0 .. m |-> IF k = m THEN Takes(q, wanted, once, g[m - 1], m) ELSE g[k]] OBVIOUS
  <2>3. h = [k \in 0 .. m |-> h[k]] BY <2>2
  <2>4. h[0] = first
    <3>1. 0 \in 0 .. m /\ 0 # m BY <1>2
    <3> QED BY <2>1, <2>2, <3>1 DEF Passes
  <2>5. ASSUME NEW k \in 1 .. m PROVE h[k] = Takes(q, wanted, once, h[k - 1], k)
    <3>1. k \in 0 .. m /\ k - 1 \in 0 .. m /\ k - 1 # m BY <1>2, <2>5
    <3>2. h[k - 1] = g[k - 1] BY <2>2, <3>1
    <3>3. CASE k = m
      <4>1. h[k] = Takes(q, wanted, once, g[k - 1], k) BY <2>2, <3>1, <3>3
      <4> QED BY <3>2, <4>1
    <3>4. CASE k # m
      <4>1. k \in 1 .. (m - 1) BY <1>2, <2>5, <3>4
      <4>2. h[k] = g[k] BY <2>2, <3>1, <3>4
      <4> QED BY <2>1, <3>2, <4>1, <4>2 DEF Passes
    <3> QED BY <3>3, <3>4
  <2>6. Passes(q, wanted, once, first, h, m) BY <2>3, <2>4, <2>5 DEF Passes
  <2> QED BY <2>6
<1>3. 0 .. n \subseteq T
  <2> HIDE DEF T
  <2> QED BY <1>1, <1>2, HandedOn
<1>4. n \in 0 .. n OBVIOUS
<1> QED BY <1>3, <1>4

Lists(s, x) == \E i \in DOMAIN s : s[i] = x
Distinct(s) == \A i, j \in DOMAIN s : s[i] = s[j] => i = j

LEMMA AppendKeeps ==
  ASSUME NEW S, NEW a \in Seq(S), NEW v \in S
  PROVE  /\ Append(a, v) \in Seq(S) /\ Len(Append(a, v)) = Len(a) + 1
         /\ \A x : Lists(Append(a, v), x) <=> Lists(a, x) \/ x = v
         /\ Distinct(a) /\ ~Lists(a, v) => Distinct(Append(a, v))
<1>1. PICK n \in Nat : n = Len(a) OBVIOUS
<1>2. PICK b : b = Append(a, v) OBVIOUS
<1>3. /\ b \in Seq(S) /\ Len(b) = n + 1 /\ DOMAIN a = 1 .. n /\ DOMAIN b = 1 .. (n + 1)
      /\ \A i \in 1 .. n : b[i] = a[i]
      /\ b[n + 1] = v
  BY <1>1, <1>2
<1>4. \A i \in 1 .. (n + 1) : i \in 1 .. n \/ i = n + 1 OBVIOUS
<1>5. \A i \in 1 .. n : i \in 1 .. (n + 1) OBVIOUS
<1>6. n + 1 \in 1 .. (n + 1) OBVIOUS
<1>7. \A x : Lists(b, x) <=> Lists(a, x) \/ x = v BY <1>3, <1>4, <1>5, <1>6 DEF Lists
<1>8. ASSUME Distinct(a), ~Lists(a, v) PROVE Distinct(b)
  <2>1. \A i \in 1 .. n : b[i] # v BY <1>3, <1>8 DEF Lists
  <2>2. \A i, j \in 1 .. n : b[i] = b[j] => i = j BY <1>3, <1>8 DEF Distinct
  <2>3. ASSUME NEW i \in 1 .. (n + 1), NEW j \in 1 .. (n + 1), b[i] = b[j] PROVE i = j
    BY <1>3, <1>4, <2>1, <2>2, <2>3
  <2> QED BY <1>3, <2>3 DEF Distinct
<1> QED BY <1>1, <1>2, <1>3, <1>7, <1>8

(* What a pass leaves: a list without repetition, no longer than what went  *)
(* in, of what was there first and what it took.                            *)
LEMMA PassHolds ==
  ASSUME NEW S, NEW q \in Seq(S), NEW first \in Seq(S), NEW wanted, NEW once \in BOOLEAN, NEW g, NEW n \in Nat,
         n = Len(q), Passes(q, wanted, once, first, g, n), Distinct(first),
         ~once => first = <<>> /\ Distinct(q)
  PROVE  /\ g[n] \in Seq(S) /\ Distinct(g[n])
         /\ \A x : Lists(g[n], x) => Lists(first, x) \/ (Lists(q, x) /\ (~once => x \in wanted))
<1> DEFINE Good(m) == /\ g[m] \in Seq(S) /\ Distinct(g[m])
                      /\ \A x : Lists(g[m], x) => Lists(first, x) \/ ((\E j \in 1 .. m : q[j] = x) /\ (~once => x \in wanted))
           T == {m \in 0 .. n : Good(m)}
<1>1. 0 \in T
  <2>1. g[0] = first BY DEF Passes
  <2>2. Good(0) BY <2>1
  <2> QED BY <2>2
<1>2. ASSUME NEW m \in 1 .. n, m - 1 \in T PROVE m \in T
  <2>1. PICK a \in Seq(S) : a = g[m - 1] /\ Distinct(a)
          /\ \A x : Lists(a, x) => Lists(first, x) \/ ((\E j \in 1 .. (m - 1) : q[j] = x) /\ (~once => x \in wanted))
    BY <1>2
  <2>2. PICK v \in S : v = q[m] BY <1>2
  <2>3. g[m] = Takes(q, wanted, once, a, m) BY <1>2, <2>1 DEF Passes
  <2>4. \A x : (\E j \in 1 .. (m - 1) : q[j] = x) => \E j \in 1 .. m : q[j] = x
    <3>1. 1 .. (m - 1) \subseteq 1 .. m BY <1>2
    <3> QED BY <3>1
  <2>5. \E j \in 1 .. m : q[j] = v
    <3>1. m \in 1 .. m BY <1>2
    <3> QED BY <2>2, <3>1
  <2>6. CASE g[m] = a
    <3>1. Good(m) BY <2>1, <2>4, <2>6
    <3> QED BY <3>1
  <2>7. CASE g[m] # a
    <3>1. g[m] = Append(a, v) /\ (IF once THEN v \notin Range(a) ELSE v \in wanted) BY <2>2, <2>3, <2>7 DEF Takes
    <3>2. ~Lists(a, v)
      <4>1. CASE once BY <3>1, <4>1 DEF Lists, Range
      <4>2. CASE ~once
        <5>1. Distinct(q) /\ \A x : ~Lists(first, x) BY <4>2 DEF Lists
        <5>2. \A j \in 1 .. (m - 1) : j \in DOMAIN q /\ m \in DOMAIN q /\ j # m BY <1>2
        <5>3. \A j \in 1 .. (m - 1) : q[j] # v BY <2>2, <5>1, <5>2 DEF Distinct
        <5> QED BY <2>1, <5>1, <5>3
      <4> QED BY <4>1, <4>2
    <3>3. /\ Append(a, v) \in Seq(S) /\ Distinct(Append(a, v))
          /\ \A x : Lists(Append(a, v), x) <=> Lists(a, x) \/ x = v
      BY <2>1, <3>2, AppendKeeps
    <3>4. ASSUME NEW x, Lists(g[m], x) PROVE Lists(first, x) \/ ((\E j \in 1 .. m : q[j] = x) /\ (~once => x \in wanted))
      BY <2>1, <2>4, <2>5, <3>1, <3>3, <3>4
    <3>5. Good(m) BY <3>1, <3>3, <3>4
    <3> QED BY <3>5
  <2> QED BY <2>6, <2>7
<1>3. 0 .. n \subseteq T
  <2> HIDE DEF T
  <2> QED BY <1>1, <1>2, HandedOn
<1>4. Good(n)
  <2>1. n \in 0 .. n OBVIOUS
  <2> QED BY <1>3, <2>1
<1>5. DOMAIN q = 1 .. n OBVIOUS
<1> QED BY <1>4, <1>5 DEF Lists

(* A list without repetition passes as it is.                               *)
LEMMA PassSame ==
  ASSUME NEW S, NEW q \in Seq(S), NEW wanted, NEW g, NEW n \in Nat,
         n = Len(q), Passes(q, wanted, TRUE, <<>>, g, n), Distinct(q)
  PROVE  g[n] = q
<1> DEFINE Good(m) == g[m] \in Seq(S) /\ Len(g[m]) = m /\ \A j \in 1 .. m : g[m][j] = q[j]
           T == {m \in 0 .. n : Good(m)}
<1>1. 0 \in T
  <2>1. g[0] = <<>> BY DEF Passes
  <2>2. Good(0) BY <2>1
  <2> QED BY <2>2
<1>2. ASSUME NEW m \in 1 .. n, m - 1 \in T PROVE m \in T
  <2>1. PICK a \in Seq(S) : a = g[m - 1] /\ Len(a) = m - 1 /\ \A j \in 1 .. (m - 1) : a[j] = q[j] BY <1>2
  <2>2. PICK v \in S : v = q[m] BY <1>2
  <2>3. g[m] = Takes(q, wanted, TRUE, a, m) BY <1>2, <2>1 DEF Passes
  <2>4. v \notin Range(a)
    <3>1. \A j \in 1 .. (m - 1) : j \in DOMAIN q /\ m \in DOMAIN q /\ j # m BY <1>2
    <3>2. \A j \in 1 .. (m - 1) : a[j] # v BY <2>1, <2>2, <3>1 DEF Distinct
    <3>3. DOMAIN a = 1 .. (m - 1) BY <2>1
    <3> QED BY <3>2, <3>3 DEF Range
  <2>5. g[m] = Append(a, v) BY <2>2, <2>3, <2>4 DEF Takes
  <2>6. Good(m) BY <1>2, <2>1, <2>2, <2>5
  <2> QED BY <2>6
<1>3. 0 .. n \subseteq T
  <2> HIDE DEF T
  <2> QED BY <1>1, <1>2, HandedOn
<1>4. Good(n)
  <2>1. n \in 0 .. n OBVIOUS
  <2> QED BY <1>3, <2>1
<1> QED BY <1>4

(* The passes of the model.                                                 *)
LEMMA FilteredHolds ==
  ASSUME NEW S, NEW q \in Seq(S), NEW wanted, Distinct(q)
  PROVE  /\ Filtered(q, wanted) \in Seq(S) /\ Distinct(Filtered(q, wanted))
         /\ \A x : Lists(Filtered(q, wanted), x) => Lists(q, x) /\ x \in wanted
<1>1. PICK n \in Nat : n = Len(q) OBVIOUS
<1>2. PICK h : Passes(q, wanted, FALSE, <<>>, h, n) BY PassExists
<1> DEFINE Unrolls(g) == g = [i \in 0 .. n |-> IF i = 0 THEN <<>> ELSE IF q[i] \in wanted THEN Append(g[i - 1], q[i]) ELSE g[i - 1]]
<1>3. PICK g : Unrolls(g)
  <2>1. \A i \in 0 .. n : i # 0 => i \in 1 .. n OBVIOUS
  <2>2. ASSUME NEW i \in 0 .. n
        PROVE h[i] = IF i = 0 THEN <<>> ELSE IF q[i] \in wanted THEN Append(h[i - 1], q[i]) ELSE h[i - 1]
    BY <1>2, <2>1 DEF Passes, Takes
  <2>3. h = [i \in 0 .. n |-> h[i]] BY <1>2 DEF Passes
  <2>4. Unrolls(h) BY <2>2, <2>3
  <2> QED BY <2>4
<1>4. PICK c : c = CHOOSE e : Unrolls(e) OBVIOUS
<1>5. Unrolls(c) BY <1>3, <1>4
<1>6. Filtered(q, wanted) = c[n] BY <1>1, <1>4 DEF Filtered
<1>7. Passes(q, wanted, FALSE, <<>>, c, n)
  <2>1. 0 \in 0 .. n /\ \A k \in 1 .. n : k \in 0 .. n /\ k # 0 OBVIOUS
  <2>2. c[0] = <<>> /\ \A k \in 1 .. n : c[k] = Takes(q, wanted, FALSE, c[k - 1], k) BY <1>5, <2>1 DEF Takes
  <2>3. c = [k \in 0 .. n |-> c[k]] BY <1>5
  <2> QED BY <2>2, <2>3 DEF Passes
<1> HIDE DEF Unrolls
<1>8. <<>> \in Seq(S) /\ Distinct(<<>>) /\ \A x : ~Lists(<<>>, x) BY DEF Distinct, Lists
<1>9. /\ c[n] \in Seq(S) /\ Distinct(c[n])
      /\ \A x : Lists(c[n], x) => Lists(<<>>, x) \/ (Lists(q, x) /\ (~FALSE => x \in wanted))
  BY <1>1, <1>7, <1>8, PassHolds
<1> QED BY <1>6, <1>8, <1>9

LEMMA MergedHolds ==
  ASSUME NEW S, NEW first \in Seq(S), NEW q \in Seq(S), Distinct(first)
  PROVE  /\ Merged(first, q) \in Seq(S) /\ Distinct(Merged(first, q))
         /\ \A x : Lists(Merged(first, q), x) => Lists(first, x) \/ Lists(q, x)
<1>1. PICK n \in Nat : n = Len(q) OBVIOUS
<1>2. PICK h : Passes(q, {}, TRUE, first, h, n) BY PassExists
<1> DEFINE Unrolls(g) == g = [i \in 0 .. n |-> IF i = 0 THEN first ELSE IF q[i] \notin Range(g[i - 1]) THEN Append(g[i - 1], q[i]) ELSE g[i - 1]]
<1>3. PICK g : Unrolls(g)
  <2>1. \A i \in 0 .. n : i # 0 => i \in 1 .. n OBVIOUS
  <2>2. ASSUME NEW i \in 0 .. n
        PROVE h[i] = IF i = 0 THEN first ELSE IF q[i] \notin Range(h[i - 1]) THEN Append(h[i - 1], q[i]) ELSE h[i - 1]
    BY <1>2, <2>1 DEF Passes, Takes
  <2>3. h = [i \in 0 .. n |-> h[i]] BY <1>2 DEF Passes
  <2>4. Unrolls(h) BY <2>2, <2>3
  <2> QED BY <2>4
<1>4. PICK c : c = CHOOSE e : Unrolls(e) OBVIOUS
<1>5. Unrolls(c) BY <1>3, <1>4
<1>6. Merged(first, q) = c[n] BY <1>1, <1>4 DEF Merged
<1>7. Passes(q, {}, TRUE, first, c, n)
  <2>1. 0 \in 0 .. n /\ \A k \in 1 .. n : k \in 0 .. n /\ k # 0 OBVIOUS
  <2>2. c[0] = first /\ \A k \in 1 .. n : c[k] = Takes(q, {}, TRUE, c[k - 1], k) BY <1>5, <2>1 DEF Takes
  <2>3. c = [k \in 0 .. n |-> c[k]] BY <1>5
  <2> QED BY <2>2, <2>3 DEF Passes
<1> HIDE DEF Unrolls
<1>8. /\ c[n] \in Seq(S) /\ Distinct(c[n])
      /\ \A x : Lists(c[n], x) => Lists(first, x) \/ (Lists(q, x) /\ (~TRUE => x \in {}))
  BY <1>1, <1>7, PassHolds
<1> QED BY <1>6, <1>8

LEMMA OnceHolds ==
  ASSUME NEW S, NEW q \in Seq(S)
  PROVE  Once(q) \in Seq(S) /\ Distinct(Once(q)) /\ (Distinct(q) => Once(q) = q)
<1>1. PICK n \in Nat : n = Len(q) OBVIOUS
<1>2. PICK h : Passes(q, {}, TRUE, <<>>, h, n) BY PassExists
<1> DEFINE Unrolls(g) == g = [i \in 0 .. n |-> IF i = 0 THEN <<>> ELSE IF q[i] \notin Range(g[i - 1]) THEN Append(g[i - 1], q[i]) ELSE g[i - 1]]
<1>3. PICK g : Unrolls(g)
  <2>1. \A i \in 0 .. n : i # 0 => i \in 1 .. n OBVIOUS
  <2>2. ASSUME NEW i \in 0 .. n
        PROVE h[i] = IF i = 0 THEN <<>> ELSE IF q[i] \notin Range(h[i - 1]) THEN Append(h[i - 1], q[i]) ELSE h[i - 1]
    BY <1>2, <2>1 DEF Passes, Takes
  <2>3. h = [i \in 0 .. n |-> h[i]] BY <1>2 DEF Passes
  <2>4. Unrolls(h) BY <2>2, <2>3
  <2> QED BY <2>4
<1>4. PICK c : c = CHOOSE e : Unrolls(e) OBVIOUS
<1>5. Unrolls(c) BY <1>3, <1>4
<1>6. Once(q) = c[n] BY <1>1, <1>4 DEF Once
<1>7. Passes(q, {}, TRUE, <<>>, c, n)
  <2>1. 0 \in 0 .. n /\ \A k \in 1 .. n : k \in 0 .. n /\ k # 0 OBVIOUS
  <2>2. c[0] = <<>> /\ \A k \in 1 .. n : c[k] = Takes(q, {}, TRUE, c[k - 1], k) BY <1>5, <2>1 DEF Takes
  <2>3. c = [k \in 0 .. n |-> c[k]] BY <1>5
  <2> QED BY <2>2, <2>3 DEF Passes
<1> HIDE DEF Unrolls
<1>8. <<>> \in Seq(S) /\ Distinct(<<>>) BY DEF Distinct
<1>9. c[n] \in Seq(S) /\ Distinct(c[n])
  BY <1>1, <1>7, <1>8, PassHolds
<1>10. Distinct(q) => c[n] = q BY <1>1, <1>7, PassSame
<1> QED BY <1>6, <1>9, <1>10

(* A list without repetition has as many entries as members.                *)
LEMMA DistinctCount ==
  ASSUME NEW S, NEW q \in Seq(S), Distinct(q)
  PROVE  Len(q) = Cardinality(Range(q))
<1>1. PICK n \in Nat : n = Len(q) OBVIOUS
<1>2. DOMAIN q = 1 .. n BY <1>1
<1>3. q \in [1 .. n -> Range(q)] BY <1>2 DEF Range
<1>4. IsInjective(q) BY DEF IsInjective, Distinct
<1>5. \A t \in Range(q) : \E s \in 1 .. n : q[s] = t BY <1>2 DEF Range
<1>6. q \in Bijection(1 .. n, Range(q)) BY <1>3, <1>4, <1>5 DEF Bijection, Injection, Surjection
<1>7. ExistsBijection(1 .. n, Range(q)) BY <1>6 DEF ExistsBijection
<1> QED BY <1>1, <1>7, FS_CountingElements

(* The newest entries of a list without repetition.                         *)
LEMMA NewestHolds ==
  ASSUME NEW S, NEW q \in Seq(S), Distinct(q), NEW k \in Nat, Len(q) > k
  PROVE  LET r == SubSeq(q, Len(q) - k + 1, Len(q))
         IN  r \in Seq(S) /\ Len(r) <= k /\ Distinct(r) /\ \A x : Lists(r, x) => Lists(q, x)
<1>1. PICK n \in Nat : n = Len(q) OBVIOUS
<1>2. PICK a \in Nat : a = n - k
  <2>1. n > k /\ n \in Nat /\ k \in Nat BY <1>1
  <2>2. n - k \in Nat BY <2>1
  <2> QED BY <2>2
<1>3. PICK r : r = SubSeq(q, a + 1, n) OBVIOUS
<1>4. /\ r \in Seq(S) /\ Len(r) = k /\ DOMAIN r = 1 .. k /\ DOMAIN q = 1 .. n
      /\ \A i \in 1 .. k : r[i] = q[a + i] /\ a + i \in 1 .. n
  BY <1>1, <1>2, <1>3
<1>5. Distinct(r)
  <2>1. ASSUME NEW i \in 1 .. k, NEW j \in 1 .. k, r[i] = r[j] PROVE i = j
    <3>1. q[a + i] = q[a + j] /\ a + i \in DOMAIN q /\ a + j \in DOMAIN q BY <1>4, <2>1
    <3>2. a + i = a + j BY <3>1 DEF Distinct
    <3> QED BY <3>2
  <2> QED BY <1>4, <2>1 DEF Distinct
<1>6. \A x : Lists(r, x) => Lists(q, x) BY <1>4 DEF Lists
<1>7. Len(q) - k + 1 = a + 1 BY <1>1, <1>2
<1> QED BY <1>1, <1>3, <1>4, <1>5, <1>6, <1>7

-----------------------------------------------------------------------------
(* The pins of a session.                                                   *)

PinsOk(s, ps) ==
  ps \in Seq(FileIds) /\ Len(ps) <= MaxPinned /\ Distinct(ps) /\ \A x : Lists(ps, x) => FileOwner[x] = SessionOwner[s]
IdsOk(t) ==
  DOMAIN t = TurnKeys
  /\ (t.pc # "idle" => t.session \in ChatSessions /\ t.ids \in Seq(FileIds) /\ Distinct(t.ids))
PinsInv ==
  /\ liveFiles \subseteq FileIds /\ DOMAIN pinned = ChatSessions /\ \A s \in ChatSessions : PinsOk(s, pinned[s])
  /\ IdsOk(chatTurn)

LEMMA NoPins == ASSUME NEW s PROVE PinsOk(s, <<>>)
<1>1. MaxPinned \in Nat BY ExcerptAssumption
<1> QED BY <1>1 DEF PinsOk, Distinct, Lists
LEMMA NoIds == IdsOk(NoChatTurn) BY DEF IdsOk, NoChatTurn, TurnKeys

LEMMA PinsStart == ASSUME ExcerptInit PROVE PinsInv
  BY NoPins, NoIds DEF ExcerptInit, PinsInv

LEMMA MergePinsOk ==
  ASSUME PinsInv, NEW s \in ChatSessions, NEW ids \in Seq(FileIds), Distinct(ids)
  PROVE  PinsOk(s, MergePins(s, ids))
<1>1. PICK ps \in Seq(FileIds) : ps = pinned[s] /\ Distinct(ps) /\ \A x : Lists(ps, x) => FileOwner[x] = SessionOwner[s]
  BY DEF PinsInv, PinsOk
<1>2. PICK own \in Seq(FileIds) : own = OwnPins(s, ps) /\ Distinct(own) /\ \A x : Lists(own, x) => x \in OwnFiles(s)
  BY <1>1, FilteredHolds DEF OwnPins
<1>3. PICK live \in Seq(FileIds) : live = LivePins(s, ps) /\ Distinct(live) /\ \A x : Lists(live, x) => x \in OwnFiles(s)
  BY <1>2, FilteredHolds DEF LivePins
<1>4. PICK new \in Seq(FileIds) : new = Filtered(ids, liveFiles \cap OwnFiles(s)) /\ \A x : Lists(new, x) => x \in OwnFiles(s)
  BY FilteredHolds
<1>5. PICK mine \in Seq(FileIds) : mine = Merged(live, new) /\ Distinct(mine) /\ \A x : Lists(mine, x) => x \in OwnFiles(s)
  BY <1>3, <1>4, MergedHolds
<1>6. \A x \in OwnFiles(s) : FileOwner[x] = SessionOwner[s] BY DEF OwnFiles
<1>7. MergePins(s, ids) = IF Len(mine) > MaxPinned THEN SubSeq(mine, Len(mine) - MaxPinned + 1, Len(mine)) ELSE mine
  BY <1>1, <1>3, <1>4, <1>5 DEF MergePins
<1>8. MaxPinned \in Nat BY ExcerptAssumption
<1>9. CASE Len(mine) > MaxPinned
  <2>1. PICK r : r = SubSeq(mine, Len(mine) - MaxPinned + 1, Len(mine)) OBVIOUS
  <2>2. r \in Seq(FileIds) /\ Len(r) <= MaxPinned /\ Distinct(r) /\ \A x : Lists(r, x) => Lists(mine, x)
    BY <1>5, <1>8, <1>9, <2>1, NewestHolds
  <2> QED BY <1>5, <1>6, <1>7, <1>9, <2>1, <2>2 DEF PinsOk
<1>10. CASE ~(Len(mine) > MaxPinned)
  <2>1. Len(mine) <= MaxPinned BY <1>8, <1>10
  <2> QED BY <1>5, <1>6, <1>7, <1>10, <2>1 DEF PinsOk
<1> QED BY <1>9, <1>10

LEMMA PinsKept == ASSUME PinsInv, UNCHANGED <<liveFiles, pinned, chatTurn>> PROVE PinsInv'
  BY DEF PinsInv

LEMMA PinSteps ==
  ASSUME PinsInv, AttachFile \/ (\E o \in Readers : ClearChatFiles(o)) \/ \E s \in ChatSessions : Unpin(s) \/ ChatBegins(s)
  PROVE  PinsInv'
<1>1. CASE AttachFile BY <1>1 DEF AttachFile, PinsInv, TurnKept
<1>2. ASSUME NEW o \in Readers, ClearChatFiles(o) PROVE PinsInv'
  <2>1. /\ pinned' = [s \in ChatSessions |-> IF SessionOwner[s] = o THEN <<>> ELSE pinned[s]]
        /\ liveFiles' \subseteq liveFiles /\ (chatTurn' = NoChatTurn \/ chatTurn' = chatTurn)
    BY <1>2 DEF ClearChatFiles
  <2>2. \A s \in ChatSessions : PinsOk(s, pinned'[s]) BY <2>1, NoPins DEF PinsInv
  <2> QED BY <2>1, <2>2, NoIds DEF PinsInv
<1>3. ASSUME NEW s \in ChatSessions, Unpin(s) PROVE PinsInv'
  <2>1. pinned' = [pinned EXCEPT ![s] = <<>>] /\ UNCHANGED <<liveFiles, chatTurn>> BY <1>3 DEF Unpin, TurnKept
  <2>2. DOMAIN pinned' = ChatSessions /\ \A k \in ChatSessions : PinsOk(k, pinned'[k]) BY <2>1, NoPins DEF PinsInv
  <2> QED BY <2>1, <2>2 DEF PinsInv
<1>4. ASSUME NEW s \in ChatSessions, ChatBegins(s) PROVE PinsInv'
  <2>1. PICK surface \in Surfaces, ids \in {<<>>} \cup {<<f>> : f \in liveFiles} :
          chatTurn' = [pc |-> "sized", owner |-> SessionOwner[s], session |-> s, surface |-> surface, ids |-> ids,
                       pins |-> pinned[s], auditor |-> roleOf[SessionOwner[s]] = "portal_auditor"]
    BY <1>4 DEF ChatBegins
  <2>2. ids \in Seq(FileIds) /\ Distinct(ids)
    <3>1. CASE ids = <<>> BY <3>1 DEF Distinct
    <3>2. ASSUME NEW f \in liveFiles, ids = <<f>> PROVE ids \in Seq(FileIds) /\ Distinct(ids)
      <4>1. f \in FileIds BY <3>2 DEF PinsInv
      <4>2. <<f>> \in Seq(FileIds) /\ DOMAIN <<f>> = 1 .. 1 BY <4>1
      <4>3. \A i, j \in 1 .. 1 : i = j OBVIOUS
      <4> QED BY <3>2, <4>2, <4>3 DEF Distinct
    <3> QED BY <3>1, <3>2
  <2>3. IdsOk(chatTurn') BY <2>1, <2>2 DEF IdsOk, TurnKeys
  <2> QED BY <1>4, <2>3 DEF ChatBegins, FilesUnmoved, PinsInv
<1> QED BY <1>1, <1>2, <1>3, <1>4

LEMMA TurnPinSteps == ASSUME PinsInv, ChatComposes \/ ChatEnds PROVE PinsInv'
<1>1. CASE ChatComposes
  <2>1. UNCHANGED <<liveFiles, pinned>> BY <1>1 DEF ChatComposes, FilesUnmoved
  <2>2. chatTurn.pc = "sized" /\ (chatTurn' = NoChatTurn \/ chatTurn' = [chatTurn EXCEPT !.pc = "running"]) BY <1>1 DEF ChatComposes
  <2>3. IdsOk([chatTurn EXCEPT !.pc = "running"]) BY <2>2 DEF PinsInv, IdsOk, TurnKeys
  <2> QED BY <2>1, <2>2, <2>3, NoIds DEF PinsInv
<1>2. CASE ChatEnds
  <2>1. chatTurn' = NoChatTurn /\ UNCHANGED liveFiles /\ chatTurn.pc = "running" BY <1>2 DEF ChatEnds
  <2>2. PICK s \in ChatSessions, ids \in Seq(FileIds) : s = chatTurn.session /\ ids = chatTurn.ids /\ Distinct(ids)
    BY <2>1 DEF PinsInv, IdsOk
  <2>3. pinned' = pinned \/ pinned' = [pinned EXCEPT ![s] = MergePins(s, ids)] BY <1>2, <2>2 DEF ChatEnds
  <2>4. DOMAIN pinned' = ChatSessions /\ \A k \in ChatSessions : PinsOk(k, pinned'[k]) BY <2>2, <2>3, MergePinsOk DEF PinsInv
  <2> QED BY <2>1, <2>4, NoIds DEF PinsInv
<1> QED BY <1>1, <1>2

LEMMA PinsMove == ASSUME PinsInv, [ExcerptNext]_excerptVars PROVE PinsInv'
<1>1. CASE UNCHANGED excerptVars BY <1>1, PinsKept DEF excerptVars
<1>2. ASSUME NEW o \in Readers, DiagRead(o) \/ DiagReadEnds(o) \/ DiagInject(o) \/ DiagForget(o) \/ Logout(o) \/ SetRoleForgets(o)
      PROVE  PinsInv'
  BY <1>2, PinsKept DEF DiagRead, DiagReadEnds, DiagInject, DiagForget, Logout, SetRoleForgets, FilesUnmoved, TurnKept
<1>3. CASE SetRole BY <1>3, PinsKept DEF SetRole, FilesUnmoved, TurnKept
<1>4. CASE ExcerptNext BY <1>2, <1>3, <1>4, PinSteps, TurnPinSteps DEF ExcerptNext
<1> QED BY <1>1, <1>4

LEMMA PinsPromise == ASSUME PinsInv PROVE PinsFit
<1>1. ASSUME NEW s \in ChatSessions
      PROVE  /\ Len(pinned[s]) <= MaxPinned /\ Len(pinned[s]) = Cardinality(Range(pinned[s]))
             /\ \A i \in DOMAIN pinned[s] : FileOwner[pinned[s][i]] = SessionOwner[s]
  <2>1. PinsOk(s, pinned[s]) BY DEF PinsInv
  <2>2. PICK ps \in Seq(FileIds) : ps = pinned[s] BY <2>1 DEF PinsOk
  <2>3. Distinct(ps) /\ Len(ps) <= MaxPinned /\ \A x : Lists(ps, x) => FileOwner[x] = SessionOwner[s] BY <2>1, <2>2 DEF PinsOk
  <2>4. Len(ps) = Cardinality(Range(ps)) BY <2>3, DistinctCount
  <2>5. \A i \in DOMAIN ps : Lists(ps, ps[i]) BY DEF Lists
  <2> QED BY <2>2, <2>3, <2>4, <2>5
<1> QED BY <1>1 DEF PinsFit

-----------------------------------------------------------------------------
(* The parts of the prompt.                                                 *)

PartsInv ==
  /\ sessionSkills \in Seq(SkillIds) /\ Distinct(sessionSkills) /\ soulSize \in Nat
  /\ sessionStyle \in Styles \cup {"off"} /\ noteCount \in Int

LEMMA PartNumbers ==
  /\ SoulMaxChars \in Nat /\ SoulHardCap \in Nat /\ SoulMaxChars <= SoulHardCap /\ OverlayChars \in Nat
  /\ MemoryTotal \in Nat /\ PinnedReserved \in Nat /\ FactsReserved \in Nat /\ FactChars \in Nat
  /\ NoteChars \in Nat /\ NotesPromptChars \in Nat /\ SoulSizes \subseteq Nat /\ \A n \in Styles : BuiltinChars[n] \in Nat
  BY PromptAssumption

LEMMA PartsStart == ASSUME PromptInit PROVE PartsInv
  BY PartNumbers DEF PromptInit, PartsInv, Distinct

LEMMA PartsMove == ASSUME PartsInv, [PromptNext]_promptVars PROVE PartsInv'
<1>1. CASE UNCHANGED promptVars BY <1>1 DEF promptVars, PartsInv
<1>2. CASE \E n \in Styles : SelectStyle(n) BY <1>2 DEF SelectStyle, PartsInv
<1>3. CASE ClearStyle \/ EditOverlay \/ EditSkill \/ ToggleSetting \/ SetPromptGoal
  BY <1>3 DEF ClearStyle, EditOverlay, EditSkill, ToggleSetting, SetPromptGoal, PartsInv
<1>4. CASE ReplaceSoulFile BY <1>4, PartNumbers DEF ReplaceSoulFile, PartsInv
<1>5. CASE AddNote \/ ForgetNote \/ ClearNotes \/ NotesCorrupted
  <2>1. UNCHANGED <<sessionSkills, soulSize, sessionStyle>> BY <1>5 DEF AddNote, ForgetNote, ClearNotes, NotesCorrupted, NotesKept
  <2>2. noteCount' \in Int BY <1>5 DEF AddNote, ForgetNote, ClearNotes, NotesCorrupted, PartsInv
  <2> QED BY <2>1, <2>2 DEF PartsInv
<1>6. CASE SelectSkills
  <2>1. PICK ids \in UNION {[1 .. n -> SkillIds] : n \in 0 .. MaxSkills} : sessionSkills' = Once(ids) BY <1>6 DEF SelectSkills
  <2>2. PICK n \in 0 .. MaxSkills : ids \in [1 .. n -> SkillIds] OBVIOUS
  <2>3. n \in Nat BY <2>2, PromptAssumption
  <2>4. ids \in Seq(SkillIds) BY <2>2, <2>3
  <2>5. UNCHANGED <<soulSize, sessionStyle, noteCount>> BY <1>6 DEF SelectSkills
  <2> QED BY <2>1, <2>4, <2>5, OnceHolds DEF PartsInv
<1> QED BY <1>1, <1>2, <1>3, <1>4, <1>5, <1>6 DEF PromptNext

LEMMA StyleFits ==
  ASSUME PartsInv, NEW name, name \in Styles \cup {"off"}, NEW budget \in Nat
  PROVE  StyleLoad(name, budget).chars \in Nat /\ StyleLoad(name, budget).chars <= budget
<1>1. CASE name = "off" BY <1>1 DEF StyleLoad, Unavailable
<1>2. CASE name # "off"
  <2>1. name \in Styles /\ BuiltinChars[name] \in Nat BY <1>2, PartNumbers
  <2> QED BY <1>2, <2>1, PartNumbers DEF StyleLoad, Unavailable, LeastBudget
<1> QED BY <1>1, <1>2

LEMMA PersonaAndStyleFit ==
  ASSUME PartsInv, NEW on \in BOOLEAN
  PROVE  LoadSoul(on) + StyleLoad(sessionStyle, StyleBudget(soulSize, on)).chars <= SoulHardCap
<1>1. PICK soul \in Nat : soul = soulSize BY DEF PartsInv
<1>2. PICK b \in Nat : b = StyleBudget(soulSize, on)
  <2>1. PICK clip \in Nat : clip = LeastBudget(soul, SoulMaxChars) /\ clip <= SoulMaxChars BY PartNumbers DEF LeastBudget
  <2>2. SoulHardCap - clip \in Nat BY <2>1, PartNumbers
  <2>3. LeastBudget(SoulMaxChars, SoulHardCap - clip) \in Nat BY <2>2, PartNumbers DEF LeastBudget
  <2>4. StyleBudget(soulSize, on) \in Nat BY <1>1, <2>1, <2>3, PartNumbers DEF StyleBudget
  <2> QED BY <2>4
<1>3. PICK p \in Nat : p = LoadSoul(on) BY <1>1, PartNumbers DEF LoadSoul, LeastBudget
<1>4. p + b <= SoulHardCap BY <1>1, <1>2, <1>3, PartNumbers DEF StyleBudget, LoadSoul, LeastBudget
<1>5. PICK c \in Nat : c = StyleLoad(sessionStyle, b).chars /\ c <= b BY StyleFits DEF PartsInv
<1> QED BY <1>2, <1>3, <1>4, <1>5, PartNumbers

LEMMA MemoryFits == ASSUME NEW p \in Int, NEW f \in Int PROVE AssembleMemory(p, f) <= MemoryTotal
<1>1. PICK x \in Int : x = LeastBudget(p, IF p > 0 /\ f > 0 THEN PinnedReserved ELSE MemoryTotal) BY PartNumbers DEF LeastBudget
<1>2. PICK y \in Int : y = LeastBudget(f, IF p > 0 /\ f > 0 THEN FactsReserved ELSE MemoryTotal) BY PartNumbers DEF LeastBudget
<1>3. AssembleMemory(p, f) = LeastBudget(x + y, MemoryTotal) BY <1>1, <1>2 DEF AssembleMemory
<1> QED BY <1>3, PartNumbers DEF LeastBudget

LEMMA CapsPromise == ASSUME PartsInv PROVE SharedCapsHold
<1>1. PICK on \in BOOLEAN : on = ("soul" \in switches /\ ~callerAuditor) OBVIOUS
<1>2. TurnInputs.soulOn = on /\ TurnInputs.style = sessionStyle BY <1>1 DEF TurnInputs
<1>3. PICK p \in Int : p = TurnInputs.notes
  <2>1. noteCount * NoteChars \in Int BY PartNumbers DEF PartsInv
  <2>2. NotesContext \in Int BY <2>1, PartNumbers DEF NotesContext, LeastBudget
  <2>3. PromptMemory(callerAuditor).notes \in Int BY <2>2 DEF PromptMemory
  <2>4. TurnInputs.notes = PromptMemory(callerAuditor).notes BY DEF TurnInputs
  <2> QED BY <2>3, <2>4
<1>4. PICK f \in Int : f = TurnInputs.facts
  <2>1. PromptMemory(callerAuditor).facts \in Int BY PartNumbers DEF PromptMemory
  <2>2. TurnInputs.facts = PromptMemory(callerAuditor).facts BY DEF TurnInputs
  <2> QED BY <2>1, <2>2
<1>5. TurnInputs.skills = sessionSkills \/ TurnInputs.skills = <<>> BY DEF TurnInputs, Withheld
<1>6. PICK k \in Seq(SkillIds) : k = TurnInputs.skills /\ Distinct(k)
  <2>1. <<>> \in Seq(SkillIds) /\ Distinct(<<>>) BY DEF Distinct
  <2>2. sessionSkills \in Seq(SkillIds) /\ Distinct(sessionSkills) BY DEF PartsInv
  <2> QED BY <1>5, <2>1, <2>2
<1>7. PICK in : in = TurnInputs OBVIOUS
<1>8. /\ ComposePrompt(in).persona = LoadSoul(in.soulOn)
      /\ ComposePrompt(in).style = StyleLoad(in.style, StyleBudget(soulSize, in.soulOn)).chars
      /\ ComposePrompt(in).memory = AssembleMemory(in.notes, in.facts) /\ ComposePrompt(in).skills = in.skills
  BY DEF ComposePrompt
<1>9. ComposePrompt(in).persona + ComposePrompt(in).style <= SoulHardCap BY <1>2, <1>7, <1>8, PersonaAndStyleFit
<1>10. ComposePrompt(in).memory <= MemoryTotal BY <1>3, <1>4, <1>7, <1>8, MemoryFits
<1>11. Served(in) => SkillChars(ComposePrompt(in).skills) <= SkillsTotal
  <2>1. Once(k) = k BY <1>6, OnceHolds
  <2> QED BY <1>6, <1>7, <1>8, <2>1 DEF Served, SkillsResolve
<1> QED BY <1>7, <1>9, <1>10, <1>11 DEF SharedCapsHold

(* Both handlers gather the same inputs when the model takes tools.         *)
LEMMA PreviewPromise == PreviewMatchesTurn
<1>1. toolModel => (("web" \in switches) /\ toolModel) = ("web" \in switches) OBVIOUS
<1>2. toolModel => TurnInputs = PreviewInputs BY <1>1, Zenon DEF TurnInputs, PreviewInputs
<1> QED BY <1>2 DEF PreviewMatchesTurn

-----------------------------------------------------------------------------
(* The parts together: what serves a turn leaves the other parts alone.     *)

(* A behaviour of the turn's services is one of each of them.               *)
LEMMA TurnParts ==
  /\ TurnInit => /\ SessionInit /\ ResearchInit /\ AccessInit /\ WebTurnInit /\ SearchInit
                 /\ CallsInit /\ ExcerptInit /\ ChatInit /\ WindowInit /\ PromptInit
  /\ [TurnNext]_turnAll =>
       /\ [SessionNext]_sessionVars /\ [ResearchNext]_researchVars /\ [AccessNext]_accessVars
       /\ [WebTurnNext]_webVars /\ [SearchNext]_searchVars /\ [CallsNext]_callVars
       /\ [ExcerptNext]_excerptVars /\ [ChatNext]_chatVars /\ [WindowNext]_windowVars /\ [PromptNext]_promptVars
<1>1. TurnInit => /\ SessionInit /\ ResearchInit /\ AccessInit /\ WebTurnInit /\ SearchInit
                  /\ CallsInit /\ ExcerptInit /\ ChatInit /\ WindowInit /\ PromptInit
  BY DEF TurnInit
<1>2. ASSUME [TurnNext]_turnAll
      PROVE  /\ [SessionNext]_sessionVars /\ [ResearchNext]_researchVars /\ [AccessNext]_accessVars
             /\ [WebTurnNext]_webVars /\ [SearchNext]_searchVars /\ [CallsNext]_callVars
             /\ [ExcerptNext]_excerptVars /\ [ChatNext]_chatVars /\ [WindowNext]_windowVars /\ [PromptNext]_promptVars
  <2>1. CASE UNCHANGED turnAll
    BY <2>1 DEF turnAll
  <2>2. CASE TurnNext
    BY <2>2 DEF TurnNext
  <2>3. QED BY <1>2, <2>1, <2>2
<1>3. QED BY <1>1, <1>2

(* A staged goal has at most one job, whichever requests race for it; the   *)
(* session list is never older than the scan it was made from; and a        *)
(* research job that says running has the task that runs it (sessions.rs,   *)
(* web_research.rs).                                                        *)
THEOREM JobsStayBound == TurnSpec => []JobsAreBound
<1>1. GoalsInv /\ ResearchInv => JobsAreBound
  BY GoalsPromise, ResearchPromise DEF JobsAreBound
<1>2. GoalsInv /\ ResearchInv /\ [TurnNext]_turnAll => GoalsInv' /\ ResearchInv'
  BY GoalsStep, ResearchMoves, TurnParts
<1>3. TurnInit => GoalsInv /\ ResearchInv
  BY GoalsStart, ResearchStarts, TurnParts
<1>4. QED BY <1>1, <1>2, <1>3, PTL DEF TurnSpec

(* Whatever the models, pages, providers and fallbacks do, what a turn      *)
(* reads of the web stays within its budgets: rounds, prompt tokens, bytes, *)
(* time and the tokens a research answer needs (chat_web.rs, web_index.rs,  *)
(* web_provider.rs, web_research.rs).                                       *)
THEOREM WebBudgetsAreKept == TurnSpec => []WebBudgetsHold
<1> DEFINE Inv == WebInv /\ BytesInv /\ SearchInv /\ ResearchInv
<1>1. Inv => WebBudgetsHold
  BY WebPromise, BytesPromise, SearchPromise, ResearchPromise DEF WebBudgetsHold
<1>2. Inv /\ [TurnNext]_turnAll => Inv'
  BY WebMoves, AccessMoves, SearchMoves, ResearchMoves, TurnParts
<1>3. TurnInit => Inv
  BY WebStarts, AccessStarts, SearchStarts, ResearchStarts, TurnParts
<1> HIDE DEF Inv
<1>4. QED BY <1>1, <1>2, <1>3, PTL DEF TurnSpec

(* However a turn ends, its local response is one row of spend; a cloud     *)
(* call is billed once through its retries; a staged excerpt is carried by  *)
(* one turn (core.rs, cloud_chat.rs, diag_reader.rs).                       *)
THEOREM CountedOnce == TurnSpec => []OncePerTurn
<1> DEFINE Inv == SpendInv /\ StoreInv /\ BillInv /\ PullInv /\ ExcerptInv
<1>1. Inv => OncePerTurn
  BY ChatPromise, BillPromise, ExcerptPromise DEF OncePerTurn
<1>2. Inv /\ [TurnNext]_turnAll => Inv'
  BY ChatMoves, CallsMove, ExcerptsMove, TurnParts
<1>3. TurnInit => Inv
  BY ChatStarts, CallsStart, ExcerptsStart, TurnParts
<1> HIDE DEF Inv
<1>4. QED BY <1>1, <1>2, <1>3, PTL DEF TurnSpec

(* No prompt is larger than what receives it: whatever is tuned, reloaded,  *)
(* cleared or reported on the way, a turn is sent only to a window that     *)
(* holds it, history is compacted before a turn is refused, the parts keep  *)
(* their shared caps and are what /api/prompt shows, and a session pins no  *)
(* file twice and no more than a prompt has room for (state.rs              *)
(* ensure_window_allows, compaction.rs, persona.rs, sessions.rs).           *)
THEOREM PromptsAlwaysFit == TurnSpec => []PromptsFit
<1> DEFINE Inv == WindowInv /\ PartsInv /\ PinsInv
<1>1. Inv => PromptsFit
  BY WindowPromise, CapsPromise, PreviewPromise, PinsPromise DEF PromptsFit
<1>2. Inv /\ [TurnNext]_turnAll => Inv'
  BY WindowMoves, PartsMove, PinsMove, TurnParts
<1>3. TurnInit => Inv
  BY WindowStarts, PartsStart, PinsStart, TurnParts
<1> HIDE DEF Inv
<1>4. QED BY <1>1, <1>2, <1>3, PTL DEF TurnSpec

(* A page whose rule was revoked is neither requested nor shown from the    *)
(* moment of the revocation, and no research answer rests on it             *)
(* (web_search.rs authorize, web_research.rs).                              *)
GivenStep == given' \subseteq granted
THEOREM RevokedPagesAreNotUsed == TurnSpec => RevocationWins
<1> DEFINE Inv == BytesInv /\ ResearchInv
<1>1. TurnInit => Inv
  BY AccessStarts, ResearchStarts, TurnParts
<1>2. Inv /\ [TurnNext]_turnAll => Inv'
  BY AccessMoves, ResearchMoves, TurnParts
<1>3. Inv /\ [TurnNext]_turnAll => [UnreadStep]_accessVars /\ [GivenStep]_researchVars
  BY AccessMoves, ResearchMoves, TurnParts DEF GivenStep
<1> HIDE DEF Inv
<1>4. TurnSpec => [][UnreadStep]_accessVars /\ [][GivenStep]_researchVars
  BY <1>1, <1>2, <1>3, PTL DEF TurnSpec
<1>5. QED BY <1>4, PTL DEF RevocationWins, RevokedIsUnread, RevokedIsWithheld, UnreadStep, GivenStep

(* While the job that a session names is running, no writer of the file     *)
(* gives the session another stage (sessions.rs).                           *)
THEOREM RunningStagesStand == SessionSpec => RunningStageKept
<1>1. SessionSpec => [][RunningStageStep]_sessionVars
  <2>1. GoalsInv /\ [SessionNext]_sessionVars => [RunningStageStep]_sessionVars BY RunningStage
  <2> QED BY <2>1, GoalsStart, GoalsStep, PTL DEF SessionSpec
<1>2. QED BY <1>1, PTL DEF RunningStageKept, RunningStageStep

(* Requests to public Google are Pace apart and none is sent while it is    *)
(* held back (web_google.rs).                                               *)
THEOREM PublicSearchesArePaced == SearchSpec => PublicPaced
<1>1. SearchSpec => [][PacedStep]_searchVars
  <2>1. SearchInv /\ [SearchNext]_searchVars => SearchInv' /\ [PacedStep]_searchVars BY SearchMoves
  <2>2. SearchInit => SearchInv BY SearchStarts
  <2> QED BY <2>1, <2>2, PTL DEF SearchSpec
<1>2. QED BY <1>1, PTL DEF PublicPaced, PacedStep

(* A model download is aborted only by a request that asked for that one,   *)
(* never by a cancel meant for an earlier pull (ollama.rs).                 *)
THEOREM PullsAbortOnlyTheirOwn == CallsSpec => []PullAbortIsOwn
<1>1. BillInv /\ PullInv /\ [CallsNext]_callVars => BillInv' /\ PullInv' BY CallsMove
<1>2. CallsInit => BillInv /\ PullInv BY CallsStart
<1>3. PullInv => PullAbortIsOwn BY PullPromise
<1>4. QED BY <1>1, <1>2, <1>3, PTL DEF CallsSpec

(* Whatever is compacted, cut, cleared or edited while a turn is out, the   *)
(* history a session keeps is exchanges in order from its first, what is    *)
(* sent alternates, and a late reply is added to the session as it is then  *)
(* (compaction.rs compact_messages, prompt_messages; sessions.rs            *)
(* record_exchange_inner).                                                  *)
THEOREM HistoriesStayWhole == TurnSpec => []HistoryIsWhole
<1> DEFINE Inv == SpendInv /\ StoreInv /\ HistoryInv
<1>1. Inv => HistoryIsWhole
  BY ChatPromise, HistoryPromise DEF HistoryIsWhole
<1>2. Inv /\ [TurnNext]_turnAll => Inv'
  BY ChatMoves, HistoryMoves, TurnParts
<1>3. TurnInit => Inv
  BY ChatStarts, HistoryStarts, TurnParts
<1> HIDE DEF Inv
<1>4. QED BY <1>1, <1>2, <1>3, PTL DEF TurnSpec
=============================================================================
