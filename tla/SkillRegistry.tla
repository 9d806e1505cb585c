--------------------------- MODULE SkillRegistry ---------------------------
(***************************************************************************)
(* The governed skills registry (agentic/registry.rs): one JSON file that  *)
(* separate `agentic apply-skill` processes rewrite whole, each under a    *)
(* lock directory that holds the owner's pid and may be reclaimed when its *)
(* owner died.  Every file-system call is a step of its own, and a process *)
(* may die between any two of them.  A process runs one command; process   *)
(* ids are not reused.  What a description, reason or diff says is left    *)
(* out; a body is a model value, Flagged ones match an injection pattern.  *)
(***************************************************************************)
EXTENDS Naturals, Sequences, FiniteSets

CONSTANTS SkillProcs,    \* the command processes, in any order
          SkillNames, SkillBodies,
          FlaggedBodies, \* the bodies the injection scanner matches
          MaxPolicyEdits \* bound on edits of config.yaml

NoPid == "nobody"

ASSUME SkillAssumption ==
  /\ IsFiniteSet(SkillProcs) /\ FlaggedBodies \subseteq SkillBodies
  /\ NoPid \notin SkillProcs /\ MaxPolicyEdits \in Nat

VARIABLES skillFile, \* the JSON file
          lockDir,      \* does <registry>.lock.d exist, whose pid is in it, is it old
          reclaimGuard, \* does <registry>.lock.d.reclaim.d exist
          skillProc,    \* per process: where it is, its spec, what it loaded, its version
          writePolicy,  \* what config.yaml says of writes now
          policyEdits

skillVars == <<skillFile, lockDir, reclaimGuard, skillProc, writePolicy, policyEdits>>

Specs == [name : SkillNames, body : SkillBodies]
NoBody == "none"

EmptyRegistry == [version |-> 0, skills |-> [n \in SkillNames |-> NoBody], history |-> <<>>]

SkillInit ==
  /\ skillFile = EmptyRegistry
  /\ lockDir = [made |-> FALSE, pid |-> NoPid, old |-> FALSE]
  /\ reclaimGuard = FALSE
  /\ skillProc = [p \in SkillProcs |-> [at |-> "new", spec |-> [name |-> NoBody, body |-> NoBody],
                                        data |-> EmptyRegistry, version |-> 0]]
  /\ writePolicy = TRUE /\ policyEdits = 0

SkillGoes(p, place) == skillProc' = [skillProc EXCEPT ![p].at = place]
RegistryKept == UNCHANGED <<skillFile, writePolicy, policyEdits>>
PidAlive(p) == p # NoPid /\ skillProc[p].at \notin {"new", "done", "refused", "crashed"}

(* validate, a visible reason, the write policy of the file as it is now,  *)
(* the kill switch and the injection scan; killed is the environment the   *)
(* process started with.                                                   *)
MayApply(spec, killed) == writePolicy /\ ~killed /\ spec.body \notin FlaggedBodies

(* cmd_apply_skill opens the registry, which loads it, and passes the gates. *)
OpenForApply(p) ==
  /\ skillProc[p].at = "new"
  /\ \E spec \in Specs, killed \in BOOLEAN :
       skillProc' = [skillProc EXCEPT ![p].at = IF MayApply(spec, killed) THEN "cleared" ELSE "refused",
                                      ![p].spec = spec, ![p].data = skillFile]
  /\ UNCHANGED <<lockDir, reclaimGuard>> /\ RegistryKept

(* cmd_propose_skill: a preview of what it loaded; it ends without a write. *)
ProposeSkill(p) ==
  /\ skillProc[p].at = "new"
  /\ \E spec \in Specs :
       skillProc' = [skillProc EXCEPT ![p].at = "done", ![p].spec = spec, ![p].data = skillFile]
  /\ UNCHANGED <<lockDir, reclaimGuard>> /\ RegistryKept

(* acquire_registry_lock: create_dir decides. *)
MakeLock(p) ==
  /\ skillProc[p].at = "cleared"
  /\ IF lockDir.made
     THEN SkillGoes(p, "contending") /\ UNCHANGED lockDir
     ELSE SkillGoes(p, "made") /\ lockDir' = [made |-> TRUE, pid |-> NoPid, old |-> FALSE]
  /\ UNCHANGED reclaimGuard /\ RegistryKept

(* write_lock_token: an error is ignored, and there may be no directory.   *)
WriteToken(p) ==
  /\ skillProc[p].at \in {"made", "remade"}
  /\ \E written \in BOOLEAN :
       lockDir' = IF written /\ lockDir.made THEN [lockDir EXCEPT !.pid = p, !.old = FALSE] ELSE lockDir
  /\ SkillGoes(p, IF skillProc[p].at = "made" THEN "held" ELSE "guarded")
  /\ UNCHANGED reclaimGuard /\ RegistryKept

(* reclaim_lock: one process at a time looks at the lock it may remove.    *)
TakeGuard(p) ==
  /\ skillProc[p].at = "contending"
  /\ SkillGoes(p, IF reclaimGuard THEN "refused" ELSE "guarding")
  /\ reclaimGuard' = TRUE
  /\ UNCHANGED lockDir /\ RegistryKept

(* can_reclaim: older than LOCK_STALE_SEC, and its owner unknown or dead.  *)
CanReclaim == lockDir.old /\ (lockDir.pid = NoPid \/ ~PidAlive(lockDir.pid))

InspectLock(p) ==
  /\ skillProc[p].at = "guarding"
  /\ SkillGoes(p, IF ~lockDir.made THEN "remaking" ELSE IF CanReclaim THEN "removing" ELSE "unguarding")
  /\ UNCHANGED <<lockDir, reclaimGuard>> /\ RegistryKept

RemoveLock(p) ==
  /\ skillProc[p].at = "removing" /\ SkillGoes(p, "remaking")
  /\ lockDir' = [made |-> FALSE, pid |-> NoPid, old |-> FALSE]
  /\ UNCHANGED reclaimGuard /\ RegistryKept

RemakeLock(p) ==
  /\ skillProc[p].at = "remaking"
  /\ IF lockDir.made
     THEN SkillGoes(p, "unguarding") /\ UNCHANGED lockDir
     ELSE SkillGoes(p, "remade") /\ lockDir' = [made |-> TRUE, pid |-> NoPid, old |-> FALSE]
  /\ UNCHANGED reclaimGuard /\ RegistryKept

DropGuard(p) ==
  /\ skillProc[p].at \in {"guarded", "unguarding"}
  /\ SkillGoes(p, IF skillProc[p].at = "guarded" THEN "held" ELSE "refused")
  /\ reclaimGuard' = FALSE
  /\ UNCHANGED lockDir /\ RegistryKept

(* The closure under the lock loads the file again, whatever open read.    *)
LoadLatest(p) ==
  /\ skillProc[p].at = "held"
  /\ skillProc' = [skillProc EXCEPT ![p].at = "loaded", ![p].data = skillFile]
  /\ UNCHANGED <<lockDir, reclaimGuard>> /\ RegistryKept

WithSkill(data, spec) ==
  [version |-> data.version + 1,
   skills  |-> [data.skills EXCEPT ![spec.name] = spec.body],
   history |-> Append(data.history, spec)]

(* write_json_atomic, which may fail; the lock is released in both cases.  *)
WriteRegistry(p) ==
  LET new == WithSkill(skillProc[p].data, skillProc[p].spec) IN
  /\ skillProc[p].at = "loaded"
  /\ \/ /\ skillFile' = new
        /\ skillProc' = [skillProc EXCEPT ![p].at = "releasing", ![p].version = new.version]
     \/ SkillGoes(p, "releasing") /\ UNCHANGED skillFile
  /\ UNCHANGED <<lockDir, reclaimGuard, writePolicy, policyEdits>>

Ended(p) == IF skillProc[p].version > 0 THEN "done" ELSE "refused"

(* is_lock_owner: a lock without a readable token counts as one's own.     *)
IsLockOwner(p) == lockDir.pid \in {NoPid, p}

(* release_registry_lock removes the token, which renews the directory's   *)
(* modification time, then the directory.                                  *)
ReleaseToken(p) ==
  /\ skillProc[p].at = "releasing"
  /\ IF IsLockOwner(p)
     THEN SkillGoes(p, "unlinking") /\ lockDir' = [lockDir EXCEPT !.pid = NoPid, !.old = FALSE]
     ELSE SkillGoes(p, Ended(p)) /\ UNCHANGED lockDir
  /\ UNCHANGED reclaimGuard /\ RegistryKept

(* remove_dir fails on a directory that is not empty. *)
ReleaseDir(p) ==
  /\ skillProc[p].at = "unlinking" /\ SkillGoes(p, Ended(p))
  /\ lockDir' = IF lockDir.pid = NoPid THEN [made |-> FALSE, pid |-> NoPid, old |-> FALSE] ELSE lockDir
  /\ UNCHANGED reclaimGuard /\ RegistryKept

(* The process dies where it is and leaves its files behind. *)
DieApplying(p) ==
  /\ PidAlive(p) /\ SkillGoes(p, "crashed")
  /\ UNCHANGED <<lockDir, reclaimGuard>> /\ RegistryKept

InLock(p) == skillProc[p].at \in {"made", "remade", "guarded", "held", "loaded", "releasing", "unlinking"}

(* LOCK_STALE_SEC pass.  A lock with its token on disk may be held for any *)
(* time; a live process is taken to need less than that between creating   *)
(* the directory and writing the token, and, where the token could not be  *)
(* written, for the whole apply.                                           *)
LockAges ==
  /\ lockDir.made /\ ~lockDir.old
  /\ lockDir.pid = NoPid => \A p \in SkillProcs : ~InLock(p)
  /\ lockDir' = [lockDir EXCEPT !.old = TRUE]
  /\ UNCHANGED <<reclaimGuard, skillProc>> /\ RegistryKept

(* An operator edits config.yaml; every apply reads it afresh. *)
EditWritePolicy ==
  /\ policyEdits < MaxPolicyEdits
  /\ policyEdits' = policyEdits + 1 /\ writePolicy' = ~writePolicy
  /\ UNCHANGED <<skillFile, lockDir, reclaimGuard, skillProc>>

ApplyStep(p) ==
  \/ OpenForApply(p) \/ ProposeSkill(p) \/ MakeLock(p) \/ WriteToken(p) \/ TakeGuard(p) \/ InspectLock(p)
  \/ RemoveLock(p) \/ RemakeLock(p) \/ DropGuard(p) \/ LoadLatest(p) \/ WriteRegistry(p)
  \/ ReleaseToken(p) \/ ReleaseDir(p) \/ DieApplying(p)

SkillNext == (\E p \in SkillProcs : ApplyStep(p)) \/ LockAges \/ EditWritePolicy

SkillSpec == SkillInit /\ [][SkillNext]_skillVars

Places == {"new", "cleared", "contending", "made", "guarding", "removing", "remaking", "remade", "guarded",
           "unguarding", "held", "loaded", "releasing", "unlinking", "done", "refused", "crashed"}
Registries ==
  [version : Nat, skills : [SkillNames -> SkillBodies \cup {NoBody}], history : Seq(Specs)]

SkillTypeOK ==
  /\ skillFile \in Registries
  /\ lockDir \in [made : BOOLEAN, pid : SkillProcs \cup {NoPid}, old : BOOLEAN]
  /\ reclaimGuard \in BOOLEAN /\ writePolicy \in BOOLEAN /\ policyEdits \in 0..MaxPolicyEdits
  /\ \A p \in SkillProcs : skillProc[p].at \in Places /\ skillProc[p].data \in Registries
                           /\ skillProc[p].version \in Nat

(* A skill whose apply wrote version v is version v of the history for     *)
(* good, and nobody else's: concurrent applies, reclaimed locks and deaths *)
(* lose no update, and the version counts the history.                     *)
AppliedIsKept ==
  /\ skillFile.version = Len(skillFile.history)
  /\ \A p \in SkillProcs : skillProc[p].version > 0 =>
       /\ skillProc[p].version <= skillFile.version
       /\ skillFile.history[skillProc[p].version] = skillProc[p].spec
       /\ \A q \in SkillProcs \ {p} : skillProc[q].version # skillProc[p].version
============================================================================
