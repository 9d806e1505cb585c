----------------------------- MODULE WebResearch -----------------------------
(***************************************************************************)
(* `/web research' (server/web_research.rs): one bounded run at a time behind  *)
(* three locks, its planning rounds and synthesis under a token budget, the    *)
(* rechecks of account and URL policy, and the detached jobs that keep its     *)
(* result (the research routes of routes/panels.rs).                            *)
(*                                                                             *)
(* A passage is its source URL.  `queries' and `answer' are the sources their   *)
(* text was written from.                                                      *)
(***************************************************************************)
EXTENDS Integers, Sequences, FiniteSets, SequencesExt

CONSTANTS
    Sources, Researchers, NoOne,
    Rounds,          \* web.rounds
    Subqueries,      \* web.subqueries
    TotalBudget,     \* web.total_tokens
    PlanCap, AnswerCap, PromptSize,   \* tokens of a call's reply caps and prompt
    MaxJobs,         \* MAX_RESEARCH_JOBS
    MaxRuns, MaxRevocations  \* bounds

ASSUME ResearchAssumption ==
    /\ Rounds \in Nat \ {0} /\ Subqueries \in Nat \ {0} /\ MaxJobs \in Nat \ {0}
    /\ PlanCap \in Nat /\ AnswerCap \in Nat /\ PromptSize \in Nat /\ TotalBudget \in Nat

VARIABLES
    granted,      \* URLs the current policy permits
    researcherOk, \* accounts that may use web research
    lease,        \* ResearchState: the running owner and its token
    searchGate,   \* search_gate permits held: by the run and by blocking lookups
    modelBusy,    \* the generation gate is held by other work
    run,          \* run_with's local state
    jobs,         \* ResearchJobs, oldest first
    given,        \* sources of the result the latest step handed out
    nextJob, revocations

researchVars == <<granted, researcherOk, lease, searchGate, modelBusy, run, jobs, given, nextJob, revocations>>

NoLease == [owner |-> NoOne, cancelled |-> FALSE]
NoResult == [passages |-> {}, answer |-> {}, queries |-> {}, warned |-> FALSE]
(* The usage rows: their sum, and the row of the latest call.                     *)
NoUsage == [total |-> 0, last |-> 0]
Idle == [pc |-> "idle", owner |-> NoOne, job |-> 0, round |-> 0, queries |-> 1, asked |-> {}, evidence |-> {},
         answer |-> {}, usage |-> NoUsage, warned |-> FALSE, blocking |-> FALSE]
Nobody == given' = {}
AuthorizeOwner(o) == o \in researcherOk
AuthorizeEvidence(o, urls) == AuthorizeOwner(o) /\ urls \subseteq granted

(* ------------------------------ detached jobs ---------------------------- *)
Job(id, o) == [id |-> id, owner |-> o, status |-> "running", result |-> NoResult]
(* insert: beyond the limit the oldest job that is not running goes.             *)
Settled(js) == {i \in DOMAIN js : js[i].status # "running"}
Trimmed(js) ==
    IF Len(js) > MaxJobs /\ Settled(js) # {}
    THEN RemoveAt(js, CHOOSE i \in Settled(js) : \A k \in Settled(js) : i <= k) ELSE js
(* finish: a run that ended with WEB_CANCELLED is cancelled, also with a result. *)
JobFinished(js, id, status, result) ==
    [i \in DOMAIN js |-> IF js[i].id = id THEN [js[i] EXCEPT !.status = status, !.result = result] ELSE js[i]]

(* ------------------------------- the run --------------------------------- *)
(* Validation, then the search gate, the generation gate and the owner's lease;  *)
(* a detached job is recorded once the run holds all three.                      *)
TakeLease(o) == lease = NoLease /\ lease' = [owner |-> o, cancelled |-> FALSE]
StartRun(o, detached) ==
    /\ run.pc = "idle" /\ nextJob < MaxRuns /\ granted # {}
    /\ searchGate = 0 /\ ~modelBusy /\ TakeLease(o)
    /\ nextJob' = nextJob + 1
    /\ searchGate' = 1
    /\ run' = [Idle EXCEPT !.pc = "load", !.owner = o, !.job = IF detached THEN nextJob + 1 ELSE 0]
    /\ jobs' = IF detached THEN Trimmed(Append(jobs, Job(nextJob + 1, o))) ELSE jobs
    /\ Nobody /\ UNCHANGED <<granted, researcherOk, modelBusy, revocations>>

(* The run is over: its lease, its model claim and its share of the search gate  *)
(* go with it; a lookup still blocking keeps the gate until it returns.          *)
(* The supervising task records the outcome, also of a run that panicked.        *)
Outcome(status, result) == jobs' = IF run.job # 0 THEN JobFinished(jobs, run.job, status, result) ELSE jobs
EndRun(status, result) ==
    /\ run' = Idle /\ lease' = NoLease
    /\ searchGate' = IF run.blocking THEN searchGate ELSE 0
    /\ Outcome(status, result)
    /\ UNCHANGED <<granted, researcherOk, modelBusy, nextJob, revocations>>
RunStep(r) ==
    /\ run' = r /\ Nobody
    /\ UNCHANGED <<granted, researcherOk, lease, searchGate, modelBusy, jobs, nextJob, revocations>>

LoadResearchModel ==
    /\ run.pc = "load"
    /\ IF ~AuthorizeOwner(run.owner) THEN EndRun("failed", NoResult) /\ Nobody
       ELSE IF lease.cancelled THEN EndRun("cancelled", NoResult) /\ Nobody
       ELSE RunStep([run EXCEPT !.pc = "discover"])
LoadFails == run.pc = "load" /\ EndRun("failed", NoResult) /\ Nobody

Conclude(r) == [r EXCEPT !.pc = "conclude"]
ResearchFailed(r) == Conclude([r EXCEPT !.answer = {}, !.warned = TRUE])
Discover ==
    /\ run.pc = "discover"
    /\ RunStep(IF AuthorizeOwner(run.owner) THEN [run EXCEPT !.pc = "lookup"] ELSE ResearchFailed(run))

(* lookup: a blocking ranking over the pages the policy permits.                 *)
BeginLookup ==
    /\ run.pc = "lookup"
    /\ run' = [run EXCEPT !.pc = "ranking", !.blocking = TRUE] /\ Nobody
    /\ UNCHANGED <<granted, researcherOk, lease, searchGate, modelBusy, jobs, nextJob, revocations>>
SpentTokens(usage) == usage.total
AfterLookup(r) ==
    IF r.round >= Rounds \/ (r.round = 0 /\ Cardinality(r.evidence) >= 2)
         \/ (r.round > 0 /\ (Cardinality(r.evidence) >= 2 \/ r.queries > Subqueries \/ SpentTokens(r.usage) >= TotalBudget))
    THEN [r EXCEPT !.pc = "synthesize"] ELSE [r EXCEPT !.pc = "plan"]
EndLookup(found) ==
    /\ run.pc = "ranking" /\ found \subseteq granted
    /\ RunStep(AfterLookup([run EXCEPT !.evidence = found, !.blocking = FALSE]))
(* A lookup whose run was cancelled or timed out goes on holding the gate.       *)
OrphanReturns ==
    /\ run.pc = "idle" /\ searchGate > 0
    /\ searchGate' = 0 /\ Nobody
    /\ UNCHANGED <<granted, researcherOk, lease, modelBusy, run, jobs, nextJob, revocations>>

(* model_call: the call is reserved at its cap before it is sent, and replaced    *)
(* by what the server reports.                                                   *)
Fits(r, cap) == SpentTokens(r.usage) + PromptSize + cap <= TotalBudget
Reserved(r, cap) == [r EXCEPT !.usage = [total |-> @.total + PromptSize + cap, last |-> PromptSize + cap]]
Reported(r, n) == [r EXCEPT !.usage = [total |-> (@.total - @.last) + n, last |-> n]]
NextRound(r) == [r EXCEPT !.pc = "lookup", !.round = @ + 1]

PlanSearch ==
    /\ run.pc = "plan"
    /\ RunStep(IF run.queries > Subqueries THEN NextRound(run)
               ELSE IF ~AuthorizeEvidence(run.owner, run.evidence) THEN ResearchFailed(run)
               ELSE IF ~Fits(run, PlanCap) THEN [run EXCEPT !.pc = "synthesize", !.warned = TRUE]
               ELSE [Reserved(run, PlanCap) EXCEPT !.pc = "planning", !.asked = run.evidence])
PlanReturns(n, more) ==
    /\ run.pc = "planning" /\ run.queries + more <= Subqueries + 1
    /\ RunStep(NextRound([Reported(run, n) EXCEPT !.queries = @ + more]))
(* An invalid plan would repeat, so planning stops; a transport failure is        *)
(* tried again next round.                                                        *)
PlanInvalid(n) == run.pc = "planning" /\ RunStep([Reported(run, n) EXCEPT !.pc = "synthesize", !.warned = TRUE])
PlanFails == run.pc = "planning" /\ RunStep([NextRound(run) EXCEPT !.warned = TRUE])

(* The lowest-ranked passages are dropped until the prompt fits, one kept.        *)
Synthesize ==
    /\ run.pc = "synthesize"
    /\ IF ~AuthorizeEvidence(run.owner, run.evidence) THEN RunStep(ResearchFailed(run))
       ELSE IF run.evidence = {} \/ ~Fits(run, AnswerCap) THEN RunStep(Conclude([run EXCEPT !.warned = TRUE]))
       ELSE \E kept \in SUBSET run.evidence :
              /\ kept # {}
              /\ RunStep([Reserved(run, AnswerCap) EXCEPT !.pc = "answering", !.evidence = kept])
(* Answer::parse keeps only claims that quote a passage of the evidence.          *)
AnswerReturns(n, cited) ==
    /\ run.pc = "answering" /\ cited \subseteq run.evidence
    /\ RunStep(Conclude([Reported(run, n) EXCEPT !.answer = cited]))
ResearchAnswerFails == run.pc = "answering" /\ RunStep(Conclude([run EXCEPT !.warned = TRUE]))

(* A cancelled token or a deadline is seen wherever the run waits.                *)
Waiting == run.pc \in {"discover", "ranking", "planning", "answering"}
Stopped == Waiting /\ RunStep(ResearchFailed(run))
(* The request's future is dropped with its connection, or the task panics.       *)
Abandoned ==
    /\ run.pc # "idle"
    /\ EndRun("failed", NoResult) /\ Nobody

(* The last recheck: nothing of a revoked source is delivered.                    *)
Delivered(r) ==
    IF AuthorizeEvidence(r.owner, r.evidence)
    THEN [passages |-> r.evidence, answer |-> r.answer, queries |-> r.asked, warned |-> r.warned]
    ELSE [NoResult EXCEPT !.warned = TRUE]
ConcludeRun ==
    LET result == Delivered(run)
    IN  /\ run.pc = "conclude"
        /\ EndRun(IF lease.cancelled /\ run.warned THEN "cancelled" ELSE "finished", result)
        /\ given' = IF run.job = 0 THEN result.passages \cup result.answer ELSE {}

CancelResearch(o) ==
    /\ lease.owner = o /\ lease' = [lease EXCEPT !.cancelled = TRUE]
    /\ Nobody /\ UNCHANGED <<granted, researcherOk, searchGate, modelBusy, run, jobs, nextJob, revocations>>
(* deliver_job: the account and every passage's URL again on every read.          *)
DeliverJob(o, i) ==
    LET job == jobs[i]
    IN  /\ i \in DOMAIN jobs /\ job.owner = o
        /\ given' = IF AuthorizeEvidence(o, job.result.passages) THEN job.result.passages \cup job.result.answer ELSE {}
        /\ UNCHANGED <<granted, researcherOk, lease, searchGate, modelBusy, run, jobs, nextJob, revocations>>
ChangeGrant ==
    /\ revocations < MaxRevocations /\ revocations' = revocations + 1
    /\ \/ \E u \in Sources : granted' = (granted \ {u}) \cup ({u} \ granted) /\ UNCHANGED researcherOk
       \/ \E o \in Researchers : researcherOk' = (researcherOk \ {o}) \cup ({o} \ researcherOk) /\ UNCHANGED granted
    /\ Nobody /\ UNCHANGED <<lease, searchGate, modelBusy, run, jobs, nextJob>>
OtherModelWork ==
    /\ run.pc = "idle" /\ nextJob < MaxRuns /\ modelBusy' = ~modelBusy
    /\ Nobody /\ UNCHANGED <<granted, researcherOk, lease, searchGate, run, jobs, nextJob, revocations>>

(* What the server reports of a call: no more than it was reserved at.            *)
Usages(cap) == PromptSize .. (PromptSize + cap)
ResearchInit ==
    /\ granted = Sources /\ researcherOk = Researchers
    /\ lease = NoLease /\ searchGate = 0 /\ modelBusy = FALSE
    /\ run = Idle /\ jobs = <<>> /\ given = {} /\ nextJob = 0 /\ revocations = 0

RunSteps ==
    \/ LoadResearchModel \/ LoadFails \/ Discover \/ BeginLookup \/ PlanSearch \/ PlanFails \/ Synthesize \/ ResearchAnswerFails
    \/ \E found \in SUBSET Sources : EndLookup(found)
    \/ \E n \in Usages(PlanCap) : PlanInvalid(n) \/ (\E more \in 0..2 : PlanReturns(n, more))
    \/ \E n \in Usages(AnswerCap), cited \in SUBSET Sources : AnswerReturns(n, cited)
    \/ Stopped \/ Abandoned \/ ConcludeRun
ResearchNext ==
    \/ \E o \in Researchers : (\E detached \in BOOLEAN : StartRun(o, detached)) \/ CancelResearch(o)
    \/ \E o \in Researchers, i \in 1..MaxJobs : i \in DOMAIN jobs /\ DeliverJob(o, i)
    \/ RunSteps \/ OrphanReturns \/ ChangeGrant \/ OtherModelWork

(* Every wait of a run has a deadline (research_seconds, synthesis_seconds, the   *)
(* request's own), so the run keeps taking steps.                                  *)
ResearchFairness == WF_researchVars(RunSteps)
ResearchSpec == ResearchInit /\ [][ResearchNext]_researchVars /\ ResearchFairness

ResearchTypeOK ==
    /\ granted \subseteq Sources /\ researcherOk \subseteq Researchers /\ searchGate \in {0, 1}
    /\ run.evidence \subseteq Sources /\ run.round \in 0..Rounds /\ run.queries \in 1..(Subqueries + 1)
    /\ \A i \in DOMAIN jobs : jobs[i].status \in {"running", "finished", "failed", "cancelled"}

(* No passage, and no answer written from one, is handed out once its source is   *)
(* revoked: not by the run that read it before, nor by any later read of the job   *)
(* that kept it (web_research.rs:906-912, 611-621).                                 *)
RevokedIsWithheld == [][given' \subseteq granted]_researchVars

(* A recorded job that says it is running is the run in progress: it is never     *)
(* evicted and never left behind by a run that failed, was cancelled or panicked    *)
(* (web_research.rs:120-129, 210-220).                                              *)
RunningJobRuns ==
    /\ \A i \in DOMAIN jobs : jobs[i].status = "running" => run.job = jobs[i].id
    /\ run.job # 0 => \E i \in DOMAIN jobs : jobs[i].id = run.job /\ jobs[i].status = "running"

(* The budget holds unless the server reports more than a call was reserved at     *)
(* (web_research.rs:434, 442, 466-476).                                             *)
BudgetReserved == SpentTokens(run.usage) <= TotalBudget
=============================================================================
