----------------------------- MODULE CodingRun -----------------------------
(***************************************************************************)
(* One governed coding run: the worker process that clones a repository and *)
(* iterates plan, patch, verify (agentic/real_repo_loop.rs, workspace.rs),  *)
(* the run record and its lease (agentic/run_store.rs), and the commands    *)
(* that later decide, push, publish or discard it (agentic/commands.rs).    *)
(*                                                                          *)
(* Every command is a process of its own that may die at any step; what the *)
(* processes share is the record file, the lease file and the clone.  Runs  *)
(* have their own record, lease and clone, so one run is enough.  Somebody  *)
(* else may change a file or the branch of the clone at any time, and the   *)
(* operator may change the policy.  A record write that fails ends its      *)
(* process and leaves the old record, as a death does.                      *)
(***************************************************************************)
EXTENDS Naturals, FiniteSets

CONSTANTS
  Files,          \* repository paths
  Contents,       \* file contents, Absent among them
  Absent,         \* no such file
  Keep,           \* in a snapshot: not one of its files
  NoCommit,       \* no such branch
  BaseTree,       \* the tree of the cloned HEAD
  Ops,            \* command processes
  Scopes,         \* values of protected_write_paths
  ContextFields,  \* the texts of a pull request or issue that are scanned
  MaxGhRetries,   \* agentic.gh_retries
  MaxIterations,  \* --max-iterations
  MaxTampers      \* bound: changes made by somebody else

ASSUME ContentAssumption == Absent \in Contents /\ Keep \notin Contents
ASSUME CommitAssumption == NoCommit \notin [Files -> Contents \cup {Keep}]
ASSUME TreeAssumption == BaseTree \in [Files -> Contents]
ASSUME ScopeAssumption == Scopes \subseteq SUBSET Files
ASSUME OwnerAssumption == "free" \notin Ops /\ "worker" \notin Ops
ASSUME BoundAssumption == 
  MaxIterations \in Nat \ {0} /\ MaxGhRetries \in Nat /\ MaxTampers \in Nat

VARIABLES
  record,     \* runs/<run_id>.json
  lease,      \* holder of runs/<run_id>.lease
  clone,      \* the clone directory: "none", "partial", "present" or "gone"
  tree,       \* its working tree
  branch,     \* the commit under refs/heads/<branch>, or NoCommit
  moved,      \* HEAD is that branch
  idxLock,    \* .git/index.lock exists
  remote,     \* the branch on origin, or NoCommit
  opened,     \* a pull request exists
  writes,     \* the configuration allows writes
  scope,      \* its protected_write_paths
  wpc, step,  \* the worker
  wscope,     \* protected_write_paths as the worker loaded them
  expected,   \* what it believes each file to be (None is Absent)
  prop,       \* the proposal
  installed,  \* files of the proposal renamed into place
  written,    \* files written by the iterations so far
  verified,   \* the tree the last verification ran on
  opc, okind, orec, oscope,  \* the command processes
  oleft,      \* files still to be hashed
  blobs,      \* the tree being built in the private index
  tampers, dirty  \* changes by somebody else; files changed under the worker

gitVars == <<branch, moved, idxLock>>
outVars == <<remote, opened>>
polVars == <<writes, scope>>
planVars == <<expected, prop, installed>>
workVars == <<wpc, step, wscope, planVars, written, verified>>
opVars == <<opc, okind, orec, oscope, oleft, blobs>>
envVars == <<tampers, dirty>>
vars == <<record, lease, clone, tree, gitVars, outVars, polVars, workVars, opVars, envVars>>

-----------------------------------------------------------------------------
Snapshot == [Files -> Contents \cup {Keep}]
Nothing == [f \in Files |-> Keep]
In(snapshot) == {f \in Files : snapshot[f] # Keep}

Settled == {"approved", "rejected", "exhausted", "failed", "interrupted"}
Statuses == {"none", "running", "pending", "discarded"} \cup Settled
PrStates == {"none", "url", "indeterminate"}
Record == [status : Statuses, accepted : Snapshot, commit : Snapshot \cup {NoCommit},
           pushed : BOOLEAN, pr : PrStates]
NoRecord == [status |-> "none", accepted |-> Nothing, commit |-> NoCommit,
             pushed |-> FALSE, pr |-> "none"]

Kinds == {"approve", "reject", "push", "publish", "discard"}
WorkerPlaces == {"none", "context", "cloned", "collect", "plan", "check", "install", "rollback", "verify",
                 "rejected", "accepted", "exhausted", "failed", "quarantined", "dispose", "over"}
Looping == {"collect", "plan", "check", "install", "rollback", "verify", "rejected", "accepted"}
OpPlaces == {"idle", "begun", "leased", "lock", "hash", "head", "sending", "planned", "save"}

Init ==
  /\ record = NoRecord /\ lease = "free" /\ clone = "none" /\ tree = BaseTree
  /\ branch = NoCommit /\ moved = FALSE /\ idxLock = FALSE
  /\ remote = NoCommit /\ opened = FALSE
  /\ writes = TRUE /\ scope \in Scopes
  /\ wpc = "none" /\ step = 0 /\ wscope = {} /\ expected = BaseTree /\ prop = Nothing
  /\ installed = {} /\ written = {} /\ verified = BaseTree
  /\ opc = [o \in Ops |-> "idle"] /\ okind = [o \in Ops |-> "approve"]
  /\ orec = [o \in Ops |-> NoRecord] /\ oscope = [o \in Ops |-> {}]
  /\ oleft = {} /\ blobs = Nothing
  /\ tampers = 0 /\ dirty = {}

-----------------------------------------------------------------------------
(* The surroundings                                                         *)

(* The operator edits the configuration.                                    *)
EditPolicy ==
  /\ writes' \in BOOLEAN /\ scope' \in Scopes
  /\ <<writes', scope'>> # <<writes, scope>>
  /\ UNCHANGED <<record, lease, clone, tree, gitVars, outVars, workVars, opVars, envVars>>

(* current_repository_policy: the configuration is loaded again; one that   *)
(* forbids writes, or protects other paths than this process has loaded,    *)
(* refuses.                                                                 *)
Allowed(loaded) == writes /\ loaded = scope

Tamper(f) ==
  /\ clone = "present" /\ tampers < MaxTampers
  /\ \E c \in Contents \ {tree[f]} : tree' = [tree EXCEPT ![f] = c]
  /\ tampers' = tampers + 1
  /\ dirty' = IF wpc = "over" THEN dirty ELSE dirty \cup {f}
  /\ UNCHANGED <<record, lease, clone, gitVars, outVars, polVars, workVars, opVars>>

Rewrite ==
  /\ clone = "present" /\ branch # NoCommit /\ tampers < MaxTampers
  /\ branch' = tree /\ branch' # branch
  /\ tampers' = tampers + 1
  /\ UNCHANGED <<record, lease, clone, tree, moved, idxLock, outVars, polVars, workVars, opVars,
                 dirty>>

-----------------------------------------------------------------------------
(* The worker: cmd_real_repo_run and run_real_repo_loop                     *)

WorkerOnly == UNCHANGED <<record, lease, gitVars, outVars, polVars, wscope, opVars, envVars>>

(* A worker that ends loses its memory.                                     *)
Forgets ==
  /\ step' = 0 /\ wscope' = {} /\ expected' = BaseTree /\ prop' = Nothing
  /\ installed' = {} /\ written' = {}

(* injection_findings: a field of the pull request or issue that matches a  *)
(* pattern is reported, and so is a scanner without patterns.               *)
InjectionFindings(flagged, scanner) ==
  {<<"github_content_injection_pattern", f>> : f \in flagged}
    \cup (IF scanner THEN {} ELSE {<<"github_content_scanner_unavailable", "none">>})

(* blocking_context_findings: both stop the run before a model reads.       *)
Blocking(flagged, scanner) == InjectionFindings(flagged, scanner) # {}

(* cmd_real_repo_run loads the configuration and passes its gates, then     *)
(* reads the pull request or issue it was pointed at, if any: the read may  *)
(* not be allowed, or the operator's own text may match a pattern.          *)
FetchContext ==
  /\ wpc = "none" /\ writes
  /\ \E flagged \in SUBSET ContextFields, scanner, refused \in BOOLEAN :
       IF refused \/ Blocking(flagged, scanner) THEN wpc' = "over" /\ UNCHANGED wscope
       ELSE wpc' = "context" /\ wscope' = scope
  /\ UNCHANGED <<record, lease, clone, tree, gitVars, outVars, polVars, step, planVars, written,
                 verified, opVars, envVars>>

(* run_read of repo_clone: an attempt that runs out of time leaves part of  *)
(* a clone, which is removed before the next one; a transient error is      *)
(* tried again too.                                                         *)
CloneTimesOut ==
  /\ wpc = "context" /\ clone = "none"
  /\ clone' = "partial"
  /\ WorkerOnly /\ UNCHANGED <<wpc, tree, step, planVars, written, verified>>

RetryClone ==
  /\ wpc = "context" /\ clone \in {"none", "partial"} /\ step < MaxGhRetries
  /\ clone' = "none" /\ step' = step + 1
  /\ WorkerOnly /\ UNCHANGED <<wpc, tree, planVars, written, verified>>

(* The attempts are used up, or gh failed for good: the directory goes.     *)
CloneFails ==
  /\ wpc = "context" /\ (clone = "partial" => step = MaxGhRetries)
  /\ clone' = "gone" /\ wpc' = "over" /\ Forgets
  /\ UNCHANGED <<record, lease, tree, gitVars, outVars, polVars, verified, opVars, envVars>>

(* Clone, then own the run before there is a record of it.                  *)
Clone ==
  /\ wpc = "context" /\ clone = "none"
  /\ clone' = "present" /\ lease' = "worker" /\ step' = 0
  /\ wpc' = "cloned"
  /\ UNCHANGED <<record, tree, gitVars, outVars, polVars, wscope, planVars, written, verified,
                 opVars, envVars>>

(* The directory is removed, with its working tree.                         *)
Removed == clone' = "gone" /\ tree' = BaseTree

(* The record is saved before the loop runs; when that fails nobody could   *)
(* name the clone, so it is removed.                                        *)
Register ==
  /\ wpc = "cloned"
  /\ \/ /\ record' = [record EXCEPT !.status = "running"]
        /\ wpc' = "collect" /\ step' = 1
        /\ UNCHANGED <<lease, clone, tree, wscope, planVars, written>>
     \/ /\ Removed /\ lease' = "free"
        /\ wpc' = "over" /\ Forgets /\ UNCHANGED record
  /\ UNCHANGED <<gitVars, outVars, polVars, verified, opVars, envVars>>

(* edits::collect: the files that are shown; one that is not is expected to *)
(* be absent.                                                               *)
Preimage(shown) == [f \in Files |-> IF f \in shown THEN tree[f] ELSE Absent]

Collect ==
  /\ wpc = "collect"
  /\ \E shown \in SUBSET Files : expected' = Preimage(shown)
  /\ wpc' = "plan"
  /\ WorkerOnly /\ UNCHANGED <<clone, tree, step, prop, installed, written, verified>>

(* decide_real_repo_candidate: the gates that reject an iteration.          *)
RejectedGates(changed, failed, critical, outside, oversize, passed) ==
  {g \in {"no_files_changed", "file_write_failed", "critical_governance_finding",
          "out_of_scope_write", "write_budget_exceeded", "verification_failed"} :
     CASE g = "no_files_changed" -> changed = {} /\ ~critical /\ ~outside /\ ~oversize
       [] g = "file_write_failed" -> failed
       [] g = "critical_governance_finding" -> critical
       [] g = "out_of_scope_write" -> outside
       [] g = "write_budget_exceeded" -> oversize
       [] g = "verification_failed" -> ~passed}

(* The model proposes contents for some files; every file is looked at      *)
(* before any is written, and a reply that does not parse, a governance     *)
(* finding, a protected path or an exceeded budget ends the iteration.      *)
Plan ==
  /\ wpc = "plan"
  /\ \E p \in [Files -> (Contents \ {Absent}) \cup {Keep}], malformed, critical, oversize \in BOOLEAN :
       IF RejectedGates(In(p), malformed, critical, In(p) \cap wscope # {}, oversize, TRUE) = {}
       THEN prop' = p /\ wpc' = "check"
       ELSE wpc' = "rejected" /\ UNCHANGED prop
  /\ WorkerOnly /\ UNCHANGED <<clone, tree, step, expected, installed, written, verified>>

(* apply_proposal validates the whole proposal and stages it.               *)
Fresh == \A f \in In(prop) : tree[f] = expected[f]

Stage ==
  /\ wpc = "check"
  /\ installed' = {}
  /\ \/ Allowed(wscope) /\ Fresh /\ wpc' = "install"
     \/ wpc' = "rejected"
  /\ WorkerOnly /\ UNCHANGED <<clone, tree, step, expected, prop, written, verified>>

(* Each file is renamed into place after one more look; a refusal or a      *)
(* stale file starts the rollback.                                          *)
Install(f) ==
  /\ wpc = "install" /\ f \in In(prop) \ installed
  /\ \/ /\ Allowed(wscope) /\ tree[f] = expected[f]
        /\ tree' = [tree EXCEPT ![f] = prop[f]]
        /\ installed' = installed \cup {f} /\ UNCHANGED wpc
     \/ wpc' = "rollback" /\ UNCHANGED <<tree, installed>>
  /\ WorkerOnly /\ UNCHANGED <<clone, step, expected, prop, written, verified>>

Applied ==
  /\ wpc = "install" /\ installed = In(prop)
  /\ written' = written \cup installed
  /\ wpc' = "verify"
  /\ WorkerOnly /\ UNCHANGED <<clone, tree, step, planVars, verified>>

(* Rollback restores a file only if it still holds the replacement; if not  *)
(* the candidate is quarantined.                                            *)
Rollback(f) ==
  /\ wpc = "rollback" /\ f \in installed
  /\ \/ /\ tree[f] = prop[f]
        /\ tree' = [tree EXCEPT ![f] = expected[f]]
        /\ installed' = installed \ {f} /\ UNCHANGED wpc
     \/ wpc' = "quarantined" /\ UNCHANGED <<tree, installed>>
  /\ WorkerOnly /\ UNCHANGED <<clone, step, expected, prop, written, verified>>

RolledBack ==
  /\ wpc = "rollback" /\ installed = {}
  /\ wpc' = "rejected"
  /\ WorkerOnly /\ UNCHANGED <<clone, tree, step, planVars, written, verified>>

(* run_verification: the checks run in order; one whose output was lost,    *)
(* whose toolchain is not prepared, or a build that ran out of time, ends   *)
(* the loop instead of rejecting the candidate.                             *)
CheckOutcomes == {"ok", "failed", "timed_out", "build_timed_out", "capture_lost", "unprepared"}
Inconclusive == {"build_timed_out", "capture_lost", "unprepared"}
Judged(report) ==
  IF report \cap Inconclusive # {} THEN "failed"
  ELSE IF RejectedGates(installed, FALSE, FALSE, FALSE, FALSE, report \subseteq {"ok"}) = {}
       THEN "accepted" ELSE "rejected"

Verify ==
  /\ wpc = "verify"
  /\ verified' = tree
  /\ \E report \in SUBSET CheckOutcomes : wpc' = Judged(report)
  /\ WorkerOnly /\ UNCHANGED <<clone, tree, step, planVars, written>>

(* The next iteration; after the last one the clone goes, then the record   *)
(* is saved.                                                                *)
NextIteration ==
  /\ wpc = "rejected"
  /\ \/ step < MaxIterations /\ step' = step + 1 /\ wpc' = "collect" /\ UNCHANGED <<clone, tree>>
     \/ step = MaxIterations /\ Removed /\ wpc' = "exhausted" /\ UNCHANGED step
  /\ WorkerOnly /\ UNCHANGED <<planVars, written, verified>>

(* A model error, or a failed gate, ends the loop.                          *)
LoopError ==
  /\ wpc \in {"collect", "plan", "verify"}
  /\ wpc' = "failed"
  /\ WorkerOnly /\ UNCHANGED <<clone, tree, step, planVars, written, verified>>

(* The worker saves its last record and ends, giving up the lease.          *)
WorkerSaves(rec, place) ==
  /\ record' = rec /\ wpc' = place
  /\ lease' = IF place = "over" THEN "free" ELSE lease
  /\ Forgets
  /\ verified' = IF rec.status = "pending" THEN verified ELSE BaseTree
  /\ UNCHANGED <<gitVars, outVars, polVars, opVars, envVars>>

SaveExhausted ==
  /\ wpc = "exhausted"
  /\ WorkerSaves([record EXCEPT !.status = "exhausted"], "over")
  /\ UNCHANGED <<clone, tree>>

(* Saved first, then the clone is disposed of, unless it is quarantined.    *)
SaveFailed ==
  /\ wpc \in {"failed", "quarantined"}
  /\ WorkerSaves([record EXCEPT !.status = "failed"],
                 IF wpc = "failed" THEN "dispose" ELSE "over")
  /\ UNCHANGED <<clone, tree>>

Dispose ==
  /\ wpc = "dispose" /\ Removed
  /\ WorkerSaves(record, "over")

(* changed_files: what any iteration wrote, not only the accepted one.      *)
MutantChangedFiles == installed
ChangedFiles == written

(* build_manifest snapshots the changed files; a missing one is an error.   *)
SaveAccepted ==
  /\ wpc = "accepted"
  /\ \A f \in ChangedFiles : tree[f] # Absent
  /\ WorkerSaves([record EXCEPT !.status = "pending",
                    !.accepted = [f \in Files |-> IF f \in ChangedFiles THEN tree[f] ELSE Keep]],
                 "over")
  /\ UNCHANGED <<clone, tree>>

(* The worker dies, or an error ends it without another save.               *)
WorkerExit ==
  /\ wpc \notin {"none", "over"}
  /\ wpc' = "over" /\ lease' = "free" /\ Forgets /\ verified' = BaseTree
  /\ UNCHANGED <<record, clone, tree, gitVars, outVars, polVars, opVars, envVars>>

-----------------------------------------------------------------------------
(* The commands                                                             *)

(* reconcile_run: a running record whose lease is free lost its worker.  It *)
(* is read again under the lease.                                           *)
MutantOwnerGone == TRUE
OwnerGone == lease = "free"

Reconcile ==
  /\ record.status = "running" /\ OwnerGone
  /\ record' = [record EXCEPT !.status = "interrupted"]
  /\ UNCHANGED <<lease, clone, tree, gitVars, outVars, polVars, workVars, opVars, envVars>>

(* lease_settled_run, first half: a running record is refused.              *)
Begin(o, kind) ==
  /\ opc[o] = "idle" /\ record.status \notin {"none", "running"}
  /\ opc' = [opc EXCEPT ![o] = "begun"] /\ okind' = [okind EXCEPT ![o] = kind]
  /\ orec' = [orec EXCEPT ![o] = record] /\ oscope' = [oscope EXCEPT ![o] = scope]
  /\ UNCHANGED <<record, lease, clone, tree, gitVars, outVars, polVars, workVars,
                 oleft, blobs, envVars>>

At(o, kind, place) == okind[o] = kind /\ opc[o] = place
Goes(o, place) == opc' = [opc EXCEPT ![o] = place] /\ UNCHANGED <<okind, oscope>>
Ends(o) ==
  /\ opc' = [opc EXCEPT ![o] = "idle"] /\ okind' = [okind EXCEPT ![o] = "approve"]
  /\ orec' = [orec EXCEPT ![o] = NoRecord] /\ oscope' = [oscope EXCEPT ![o] = {}]

MutantReloaded(o) == orec[o]
Reloaded(o) == record

Proper(kind, rec) ==
  CASE kind \in {"approve", "reject"} -> rec.status = "pending"
    [] kind = "push"    -> rec.status = "approved" /\ ~rec.pushed
    [] kind = "publish" -> rec.status = "approved" /\ rec.pushed /\ rec.pr = "none"
    [] kind = "discard" -> rec.status # "pending"

(* Second half: own the lease, load the record again, and check its state.  *)
Lease(o) ==
  /\ opc[o] = "begun"
  /\ \/ /\ lease = "free" /\ Proper(okind[o], Reloaded(o))
        /\ lease' = o /\ orec' = [orec EXCEPT ![o] = Reloaded(o)]
        /\ Goes(o, "leased")
     \/ /\ lease # "free" \/ ~Proper(okind[o], Reloaded(o))
        /\ Ends(o) /\ UNCHANGED lease
  /\ UNCHANGED <<record, clone, tree, gitVars, outVars, polVars, workVars, oleft, blobs, envVars>>

(* RepoWorkspace::attach refuses a clone that is not there.                 *)
Attached == clone = "present"

(* verify_manifest: HEAD and every accepted file are still what they were.  *)
ManifestHolds(o) ==
  /\ Attached /\ ~moved
  /\ \A f \in In(orec[o].accepted) : tree[f] = orec[o].accepted[f]

(* finalize_real_repo_change, before git: the policy, the manifest (in the  *)
(* clone and in a disposable copy), and the scope in force now.             *)
MutantInScope(o) == TRUE
InScope(o) == In(orec[o].accepted) \cap oscope[o] = {}

Finalize(o) ==
  /\ At(o, "approve", "leased")
  /\ Allowed(oscope[o]) /\ ManifestHolds(o) /\ InScope(o)
  /\ Goes(o, "lock")
  /\ UNCHANGED <<record, lease, clone, tree, gitVars, outVars, polVars, workVars, orec,
                 oleft, blobs, envVars>>

(* commit_accepted owns the index and starts a private one from the base.   *)
LockIndex(o) ==
  /\ At(o, "approve", "lock")
  /\ Allowed(oscope[o]) /\ ManifestHolds(o) /\ ~idxLock
  /\ idxLock' = TRUE
  /\ oleft' = In(orec[o].accepted) /\ blobs' = Nothing
  /\ Goes(o, "hash")
  /\ UNCHANGED <<record, lease, clone, tree, branch, moved, outVars, polVars, workVars, orec,
                 envVars>>

(* Each file is read once; what was read must be what was accepted.         *)
BlobMatches(o, f) == tree[f] = orec[o].accepted[f]

HashFile(o, f) ==
  /\ At(o, "approve", "hash") /\ f \in oleft
  /\ Allowed(oscope[o]) /\ BlobMatches(o, f)
  /\ blobs' = [blobs EXCEPT ![f] = tree[f]] /\ oleft' = oleft \ {f}
  /\ Goes(o, "hash")
  /\ UNCHANGED <<record, lease, clone, tree, gitVars, outVars, polVars, workVars, orec, envVars>>

(* The tree is written, the manifest verified again, and the branch made:   *)
(* update-ref demands that it does not exist.                               *)
CreateBranch(o) ==
  /\ At(o, "approve", "hash") /\ oleft = {}
  /\ Allowed(oscope[o]) /\ ManifestHolds(o) /\ branch = NoCommit
  /\ branch' = blobs
  /\ Goes(o, "head")
  /\ UNCHANGED <<record, lease, clone, tree, moved, idxLock, outVars, polVars, workVars, orec,
                 oleft, blobs, envVars>>

MoveHead(o) ==
  /\ At(o, "approve", "head") /\ Allowed(oscope[o])
  /\ moved' = TRUE /\ idxLock' = FALSE
  /\ orec' = [orec EXCEPT ![o].status = "approved", ![o].commit = blobs]
  /\ Goes(o, "save")
  /\ UNCHANGED <<record, lease, clone, tree, branch, outVars, polVars, workVars,
                 oleft, blobs, envVars>>

(* Reject and discard remove the clone, if it is there, before they save:   *)
(* a rejection settles a run whose clone is already gone.                   *)
RemoveClone(o, status) ==
  /\ Removed /\ branch' = NoCommit /\ moved' = FALSE /\ idxLock' = FALSE
  /\ orec' = [orec EXCEPT ![o].status = status]
  /\ Goes(o, "save")
  /\ UNCHANGED <<record, lease, outVars, polVars, workVars, oleft, blobs, envVars>>

Reject(o) == At(o, "reject", "leased") /\ RemoveClone(o, "rejected")
Discard(o) == At(o, "discard", "leased") /\ RemoveClone(o, "discarded")

(* verify_approved_source, then push_approved sends the approved commit by  *)
(* its id: the branch may have moved since.                                 *)
Source(o) == branch # NoCommit /\ orec[o].commit = branch
Pushed(o) == orec[o].commit

CheckSource(o) ==
  /\ At(o, "push", "leased")
  /\ Attached /\ Allowed(oscope[o]) /\ Source(o)
  /\ Goes(o, "sending")
  /\ UNCHANGED <<record, lease, clone, tree, gitVars, outVars, polVars, workVars, orec,
                 oleft, blobs, envVars>>

Push(o) ==
  /\ At(o, "push", "sending") /\ Allowed(oscope[o])
  /\ remote' = Pushed(o)
  /\ orec' = [orec EXCEPT ![o].pushed = TRUE]
  /\ Goes(o, "save")
  /\ UNCHANGED <<record, lease, clone, tree, gitVars, opened, polVars, workVars,
                 oleft, blobs, envVars>>

(* Publication needs the branch on origin to be the approved commit.        *)
Publishable(o) ==
  Attached /\ Allowed(oscope[o]) /\ Source(o) /\ remote = orec[o].commit

(* plan_write passes the gates and describes the pull request.              *)
PlanWrite(o) ==
  /\ At(o, "publish", "leased") /\ Publishable(o)
  /\ Goes(o, "planned")
  /\ UNCHANGED <<record, lease, clone, tree, gitVars, outVars, polVars, workVars, orec,
                 oleft, blobs, envVars>>

(* execute_write reads the policy again.  gh opens the pull request, unless *)
(* there is one; it is called once, and what it answers is a URL, nothing,  *)
(* or not known: a call that timed out is recorded as indeterminate and is  *)
(* never repeated.                                                          *)
ExecuteWrite(o) ==
  /\ At(o, "publish", "planned") /\ Allowed(oscope[o])
  /\ \/ ~opened /\ opened' = TRUE
        /\ \E pr \in PrStates : orec' = [orec EXCEPT ![o].pr = pr]
     \/ UNCHANGED opened /\ orec' = [orec EXCEPT ![o].pr = "indeterminate"]
  /\ Goes(o, "save")
  /\ UNCHANGED <<record, lease, clone, tree, gitVars, remote, polVars, workVars,
                 oleft, blobs, envVars>>

Publish(o) == PlanWrite(o) \/ ExecuteWrite(o)

Save(o) ==
  /\ opc[o] = "save"
  /\ record' = orec[o] /\ lease' = "free"
  /\ Ends(o) /\ oleft' = {} /\ blobs' = Nothing
  /\ UNCHANGED <<clone, tree, gitVars, outVars, polVars, workVars, envVars>>

(* A refusal, an error or a death ends the command and frees its lease; a   *)
(* death leaves the index lock behind.  A push or the move of HEAD may have *)
(* happened although the command reports an error.                          *)
Exit(o) ==
  /\ opc[o] \notin {"idle", "begun"}
  /\ lease' = "free"
  /\ Ends(o) /\ oleft' = {} /\ blobs' = Nothing
  /\ idxLock' \in {idxLock, IF opc[o] \in {"hash", "head"} THEN FALSE ELSE idxLock}
  /\ moved' \in {moved, moved \/ At(o, "approve", "head")}
  /\ UNCHANGED <<record, clone, tree, branch, outVars, polVars, workVars, envVars>>

-----------------------------------------------------------------------------
Worker ==
  \/ FetchContext \/ CloneTimesOut \/ RetryClone \/ CloneFails
  \/ Clone \/ Register \/ Collect \/ Plan \/ Stage \/ Applied \/ RolledBack \/ Verify
  \/ NextIteration \/ LoopError \/ SaveExhausted \/ SaveFailed \/ Dispose \/ SaveAccepted
  \/ WorkerExit
  \/ \E f \in Files : Install(f) \/ Rollback(f)

Command(o) ==
  \/ Lease(o) \/ Finalize(o) \/ LockIndex(o) \/ CreateBranch(o) \/ MoveHead(o)
  \/ Reject(o) \/ Discard(o) \/ CheckSource(o) \/ Push(o) \/ Publish(o) \/ Save(o) \/ Exit(o)
  \/ \E f \in Files : HashFile(o, f)
  \/ \E kind \in Kinds : Begin(o, kind)

Next ==
  \/ Worker \/ Reconcile \/ EditPolicy \/ Rewrite
  \/ \E f \in Files : Tamper(f)
  \/ \E o \in Ops : Command(o)

Spec == Init /\ [][Next]_vars

-----------------------------------------------------------------------------
(* Properties                                                               *)

(* Type correctness of every variable.                                      *)
TypeOK ==
  /\ record \in Record /\ lease \in {"free", "worker"} \cup Ops
  /\ clone \in {"none", "partial", "present", "gone"} /\ tree \in [Files -> Contents]
  /\ branch \in Snapshot \cup {NoCommit} /\ remote \in Snapshot \cup {NoCommit}
  /\ moved \in BOOLEAN /\ idxLock \in BOOLEAN /\ opened \in BOOLEAN /\ writes \in BOOLEAN
  /\ scope \in Scopes /\ wscope \subseteq Files
  /\ wpc \in WorkerPlaces /\ step \in 0..(MaxIterations + MaxGhRetries)
  /\ expected \in [Files -> Contents] /\ prop \in Snapshot
  /\ installed \subseteq Files /\ written \subseteq Files /\ verified \in [Files -> Contents]
  /\ opc \in [Ops -> OpPlaces] /\ okind \in [Ops -> Kinds] /\ orec \in [Ops -> Record]
  /\ oscope \in [Ops -> SUBSET Files] /\ oleft \subseteq Files /\ blobs \in Snapshot
  /\ tampers \in 0..MaxTampers /\ dirty \subseteq Files

(* A commit is what was accepted: when the branch comes into being, its     *)
(* blobs are the accepted contents of exactly the accepted files, although  *)
(* the clone may be changed between any two reads of commit_accepted; none  *)
(* of them is protected for the approving process, and the run was pending. *)
CommitIsAccepted ==
  [][branch = NoCommit /\ branch' # NoCommit =>
       /\ record.status = "pending" /\ branch' = record.accepted
       /\ lease \in Ops /\ In(record.accepted) \cap oscope[lease] = {}]_vars

(* What is offered for a decision was verified: for every file nobody else  *)
(* changed under the worker, committing the accepted files gives the tree   *)
(* the accepting verification ran on, whatever earlier iterations wrote,    *)
(* failed to write or rolled back.                                          *)
AcceptedIsVerified ==
  record.status \in {"pending", "approved"} =>
    \A f \in Files \ dirty :
      verified[f] = IF record.accepted[f] = Keep THEN BaseTree[f] ELSE record.accepted[f]

(* The detailed run implements RunPromise: however commands, deaths, late   *)
(* writers, outside changes and policy edits interleave, the record offers  *)
(* one candidate once, is decided once, and origin and the pull request     *)
(* never show anything but the approved candidate.                          *)
Phase ==
  CASE record.status \in {"none", "running"} -> "open"
    [] record.status \in {"exhausted", "failed", "interrupted"} -> "closed"
    [] OTHER -> record.status
Promise == INSTANCE RunPromise WITH
  Candidates <- Snapshot, NoCandidate <- Nothing,
  phase <- Phase, candidate <- record.accepted,
  origin <- (IF remote = NoCommit THEN Nothing ELSE remote), announced <- opened
KeepsPromise == Promise!PromiseSpec

(* A live worker keeps its run: nobody reports it interrupted, and no       *)
(* command removes the clone under it.                                      *)
LiveRunIsOwned ==
  wpc \in Looping => record.status = "running" /\ lease = "worker" /\ clone = "present"

(* What reached origin is the accepted content of a run that is recorded as *)
(* approved (or was discarded later), although the local branch may be      *)
(* moved at any time, a push may go unrecorded and be repeated; a pull      *)
(* request exists only for what the record calls pushed.                    *)
RemoteIsApproved ==
  /\ remote # NoCommit => /\ record.status \in {"approved", "discarded"}
                          /\ remote = record.commit /\ remote = record.accepted
  /\ opened => record.pushed

(* The run's records are sound: a live worker keeps its run, and what       *)
(* reached origin is the accepted content of a run recorded as approved     *)
(* (real_repo_loop.rs, commands.rs).                                        *)
RunRecordsHold == LiveRunIsOwned /\ RemoteIsApproved
=============================================================================
