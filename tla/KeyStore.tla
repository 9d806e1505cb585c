------------------------------- MODULE KeyStore -------------------------------
(***************************************************************************)
(* Managed provider keys (server/env_keys.rs, common/credential_store.rs):   *)
(* the legacy private .env file and its migration into the operating system's *)
(* credential store at startup, what the process loads, and the console's     *)
(* saves and clears, over a store that can refuse any call and a process that *)
(* can die between any two of them (common/atomic.rs,                          *)
(* common/credential_file_writer.rs).                                          *)
(*                                                                            *)
(* A key is a small number, Unset when absent.                                 *)
(***************************************************************************)
EXTENDS Integers, FiniteSets

CONSTANTS
    KeyNames, KeyValues, Unset,
    MaxStoreFaults, MaxKeyCrashes, MaxKeyUpdates  \* bounds

ASSUME KeyStoreAssumption == Unset \notin KeyValues

VARIABLES
    envFile,    \* the .env file's managed assignments
    fileSafe,   \* it is a private regular file of this user, under the size limit
    osKeys,     \* the credential store's entries of this home
    staged,     \* the temporary file of an atomic write: [on, synced, keys]
    keyMode,    \* security.allow_plaintext_key_file
    keyEnv,     \* names the process inherited from its environment
    active,     \* managed values the process runs with
    keyOp,      \* load_startup or update_os_keys in progress
    storeFaults, keyCrashes, keyUpdates

keyStoreVars == <<envFile, fileSafe, osKeys, staged, keyMode, keyEnv, active, keyOp, storeFaults, keyCrashes, keyUpdates>>

NoKeys == [n \in KeyNames |-> Unset]
Held(keys) == {n \in KeyNames : keys[n] # Unset}
NoStage == [on |-> FALSE, synced |-> FALSE, keys |-> NoKeys]
Off == [pc |-> "off", todo |-> {}, at |-> Unset, done |-> {}, failed |-> {}, down |-> FALSE,
        want |-> NoKeys, prior |-> NoKeys, broken |-> FALSE, read |-> NoKeys]
Ready == [Off EXCEPT !.pc = "ready"]

KeyStep(op) ==
    /\ keyOp' = op
    /\ UNCHANGED <<envFile, fileSafe, osKeys, staged, keyMode, keyEnv, active, storeFaults, keyCrashes, keyUpdates>>

(* ----------------------- one call of the store ---------------------------- *)
(* Every call may fail; NoStorageAccess marks this instance unavailable, and then  *)
(* every later call of it fails (classify, entry).                                 *)
StoreCall(ok, failed, gone) ==
    \/ ~keyOp.down /\ ok /\ UNCHANGED storeFaults
    \/ ~keyOp.down /\ storeFaults < MaxStoreFaults /\ storeFaults' = storeFaults + 1 /\ failed
    \/ ~keyOp.down /\ storeFaults < MaxStoreFaults /\ storeFaults' = storeFaults + 1 /\ gone
    \/ keyOp.down /\ gone /\ UNCHANGED storeFaults
Untouched == UNCHANGED <<envFile, fileSafe, staged, keyMode, keyEnv, active, keyCrashes, keyUpdates>>
Put(n, v, op) == osKeys' = [osKeys EXCEPT ![n] = v] /\ keyOp' = op
Keep(op) == osKeys' = osKeys /\ keyOp' = op
(* A delete whose result is ignored.                                               *)
Deleted(n) == \/ osKeys' = [osKeys EXCEPT ![n] = Unset]
              \/ storeFaults < MaxStoreFaults /\ osKeys' = osKeys

(* --------------------------- the .env file -------------------------------- *)
(* read_private_text: only a private regular file of this user, within the limit.  *)
ReadsPrivately == fileSafe
(* strip_assignments: the other lines stay as they are.                            *)
Stripped(names) == [n \in KeyNames |-> IF n \in names THEN Unset ELSE envFile[n]]

(* --------------------------- atomic writes -------------------------------- *)
PrivateStage(keys) == [on |-> TRUE, synced |-> FALSE, keys |-> keys]
(* write_atomic and PrivateStage: stage beside the target, sync, rename over it.   *)
Stage(keys, pc) ==
    /\ staged' = PrivateStage(keys)
    /\ keyOp' = [keyOp EXCEPT !.pc = pc]
    /\ UNCHANGED <<envFile, fileSafe, osKeys, keyMode, keyEnv, active, storeFaults, keyCrashes, keyUpdates>>
SyncStage ==
    /\ staged.on /\ ~staged.synced /\ staged' = [staged EXCEPT !.synced = TRUE]
    /\ UNCHANGED <<envFile, fileSafe, osKeys, keyMode, keyEnv, active, keyOp, storeFaults, keyCrashes, keyUpdates>>
MayPublish == staged.on /\ staged.synced
Persist(pc) ==
    /\ MayPublish
    /\ envFile' = staged.keys /\ staged' = [staged EXCEPT !.on = FALSE]
    /\ keyOp' = IF pc = "ready" THEN Ready ELSE [keyOp EXCEPT !.pc = pc]
    /\ UNCHANGED <<fileSafe, osKeys, keyMode, keyEnv, active, storeFaults, keyCrashes, keyUpdates>>
WriteFails(pc) ==
    /\ staged.on /\ storeFaults < MaxStoreFaults /\ storeFaults' = storeFaults + 1
    /\ staged' = NoStage
    /\ keyOp' = IF pc = "ready" THEN Ready ELSE [keyOp EXCEPT !.pc = pc]
    /\ UNCHANGED <<envFile, fileSafe, osKeys, keyMode, keyEnv, active, keyCrashes, keyUpdates>>

(* ------------------------------- startup ---------------------------------- *)
(* load_startup: an unsafe or invalid file stops the server; with the opt-in the    *)
(* file is the store.                                                               *)
StartServer ==
    /\ keyOp.pc = "off" /\ ReadsPrivately
    /\ IF keyMode
       THEN /\ keyOp' = Ready
            /\ active' = [n \in KeyNames |-> IF n \in keyEnv THEN active[n] ELSE envFile[n]]
            /\ UNCHANGED <<envFile, fileSafe, osKeys, staged, keyMode, keyEnv, storeFaults, keyCrashes, keyUpdates>>
       ELSE KeyStep([Off EXCEPT !.pc = "migrate", !.todo = Held(envFile)])
(* store_and_verify: set, then read back; a mismatch or a failed read deletes.      *)
MigrateSet(n) ==
    /\ keyOp.pc = "migrate" /\ n \in keyOp.todo
    /\ LET next == [keyOp EXCEPT !.todo = @ \ {n}, !.at = n]
           refused == [next EXCEPT !.failed = @ \cup {n}]
       IN  StoreCall(Put(n, envFile[n], [next EXCEPT !.pc = "verify"]), Keep(refused), Keep([refused EXCEPT !.down = TRUE]))
    /\ Untouched
VerifyFails(op) == [op EXCEPT !.pc = "migrate", !.failed = @ \cup {op.at}]
MigrateVerify ==
    /\ keyOp.pc = "verify"
    /\ StoreCall(Keep([keyOp EXCEPT !.pc = "migrate", !.done = @ \cup {keyOp.at}]),
                 Deleted(keyOp.at) /\ keyOp' = VerifyFails(keyOp),
                 Keep([VerifyFails(keyOp) EXCEPT !.down = TRUE]))
    /\ Untouched
(* Only verified lines leave the file, in one replacement after the last of them.   *)
StripFile ==
    /\ keyOp.pc = "migrate" /\ keyOp.todo = {}
    /\ IF keyOp.done = {} THEN KeyStep([keyOp EXCEPT !.pc = "load", !.todo = KeyNames \ keyOp.failed])
       ELSE Stage(Stripped(keyOp.done), "strip")
FileStripped == keyOp.pc = "strip" /\ (Persist("stripped") \/ WriteFails("stripped"))
BeginLoad == keyOp.pc = "stripped" /\ KeyStep([keyOp EXCEPT !.pc = "load", !.todo = KeyNames \ keyOp.failed])
(* A failed name is not loaded, and nothing is once the store was unavailable.      *)
LoadKey(n) ==
    /\ keyOp.pc = "load" /\ n \in keyOp.todo /\ ~keyOp.down
    /\ LET next == [keyOp EXCEPT !.todo = @ \ {n}]
       IN  StoreCall(Keep([next EXCEPT !.read[n] = osKeys[n]]), Keep(next), Keep([next EXCEPT !.todo = {}, !.down = TRUE]))
    /\ Untouched
ServeKeys ==
    /\ keyOp.pc = "load" /\ (keyOp.todo = {} \/ keyOp.down)
    /\ keyOp' = Ready
    /\ active' = [n \in KeyNames |-> IF n \in keyEnv THEN active[n] ELSE keyOp.read[n]]
    /\ UNCHANGED <<envFile, fileSafe, osKeys, staged, keyMode, keyEnv, storeFaults, keyCrashes, keyUpdates>>

(* ------------------------- the console's changes -------------------------- *)
(* clean_updates: nonempty, and no name both saved and cleared; `want' maps a name  *)
(* to its new value, Unset to clear it.                                             *)
CleanUpdates(names) == names # {}
UpdateKeys(names, v) ==
    /\ keyOp.pc = "ready" /\ keyUpdates < MaxKeyUpdates /\ CleanUpdates(names)
    /\ keyUpdates' = keyUpdates + 1
    /\ keyOp' = [Off EXCEPT !.pc = IF keyMode THEN "render" ELSE "prior", !.todo = names, !.done = names,
                            !.want = [n \in KeyNames |-> IF n \in names THEN v ELSE Unset]]
    /\ UNCHANGED <<envFile, fileSafe, osKeys, staged, keyMode, keyEnv, active, storeFaults, keyCrashes>>
(* update_keys: the file is read again and replaced with the rendered lines.        *)
RenderFile ==
    /\ keyOp.pc = "render"
    /\ IF ReadsPrivately THEN Stage([n \in KeyNames |-> IF n \in keyOp.todo THEN keyOp.want[n] ELSE envFile[n]], "replace")
       ELSE KeyStep(Ready)
FileReplaced == keyOp.pc = "replace" /\ (Persist("ready") \/ WriteFails("ready"))
(* update_os_keys: every prior value is read before anything changes.               *)
ReadPrior(n) ==
    /\ keyOp.pc = "prior" /\ n \in keyOp.todo
    /\ StoreCall(Keep([keyOp EXCEPT !.todo = @ \ {n}, !.prior[n] = osKeys[n]]), Keep(Ready), Keep(Ready))
    /\ Untouched
BeginApply ==
    /\ keyOp.pc = "prior" /\ keyOp.todo = {}
    /\ KeyStep([keyOp EXCEPT !.pc = "apply", !.todo = keyOp.done, !.done = {}])
Undo(op) == [op EXCEPT !.pc = "undo", !.todo = {}]
Apply(n) ==
    /\ keyOp.pc = "apply" /\ n \in keyOp.todo
    /\ LET next == [keyOp EXCEPT !.todo = @ \ {n}, !.at = n]
           after == IF keyOp.want[n] = Unset THEN [next EXCEPT !.done = @ \cup {n}] ELSE [next EXCEPT !.pc = "check"]
       IN  StoreCall(Put(n, keyOp.want[n], after), Keep(Undo(next)), Keep([Undo(next) EXCEPT !.down = TRUE]))
    /\ Untouched
CheckApplied ==
    /\ keyOp.pc = "check"
    /\ StoreCall(Keep([keyOp EXCEPT !.pc = "apply", !.done = @ \cup {keyOp.at}]),
                 \/ Keep(Undo(keyOp))
                 \/ Deleted(keyOp.at) /\ keyOp' = Undo(keyOp),
                 Keep([Undo(keyOp) EXCEPT !.down = TRUE]))
    /\ Untouched
(* The applied names get their prior value back; a failure here is ignored.         *)
MutRestored(n) == keyOp.want[n]
Restored(n) == keyOp.prior[n]
UndoOne(n) ==
    /\ keyOp.pc = "undo" /\ n \in keyOp.done
    /\ LET next == [keyOp EXCEPT !.done = @ \ {n}]
       IN  StoreCall(Put(n, Restored(n), next), Keep([next EXCEPT !.broken = TRUE]),
                     Keep([next EXCEPT !.broken = TRUE, !.down = TRUE]))
    /\ Untouched
UpdateRefused ==
    /\ keyOp.pc = "undo" /\ keyOp.done = {}
    /\ KeyStep([keyOp EXCEPT !.pc = "refused"])
FinishUpdate ==
    /\ \/ keyOp.pc = "refused"
       \/ keyOp.pc = "apply" /\ keyOp.todo = {}
    /\ KeyStep(Ready)

(* -------------------------------- faults ---------------------------------- *)
(* The process stops.  A file published before its bytes were synced may come back   *)
(* empty after a power loss.                                                          *)
StopServer ==
    /\ keyOp.pc # "off" /\ keyCrashes < MaxKeyCrashes /\ keyCrashes' = keyCrashes + 1
    /\ keyOp' = Off /\ staged' = NoStage
    /\ envFile' \in IF ~staged.on /\ staged # NoStage /\ ~staged.synced THEN {envFile, NoKeys} ELSE {envFile}
    /\ active' = [n \in KeyNames |-> IF n \in keyEnv THEN active[n] ELSE Unset]
    /\ UNCHANGED <<fileSafe, osKeys, keyMode, keyEnv, storeFaults, keyUpdates>>
(* The operator edits the file or flips the opt-in while the server is down.          *)
EditFile(keys, safe, mode) ==
    /\ keyOp.pc = "off" /\ keyUpdates < MaxKeyUpdates /\ keyUpdates' = keyUpdates + 1
    /\ envFile' = keys /\ fileSafe' = safe /\ keyMode' = mode
    /\ UNCHANGED <<osKeys, staged, keyEnv, active, keyOp, storeFaults, keyCrashes>>

KeyMaps == [KeyNames -> KeyValues \cup {Unset}]
KeyStoreInit ==
    /\ envFile \in KeyMaps /\ osKeys \in KeyMaps /\ keyMode \in BOOLEAN /\ fileSafe = TRUE
    /\ staged = NoStage /\ keyEnv \in {{}, {CHOOSE n \in KeyNames : TRUE}}
    /\ active = [n \in KeyNames |-> IF n \in keyEnv THEN CHOOSE v \in KeyValues : TRUE ELSE Unset]
    /\ keyOp = Off /\ storeFaults = 0 /\ keyCrashes = 0 /\ keyUpdates = 0

KeyStoreNext ==
    \/ StartServer \/ MigrateVerify \/ StripFile \/ FileStripped \/ BeginLoad \/ ServeKeys
    \/ \E n \in KeyNames : MigrateSet(n) \/ LoadKey(n) \/ ReadPrior(n) \/ Apply(n) \/ UndoOne(n)
    \/ \E names \in SUBSET KeyNames, v \in KeyValues \cup {Unset} : UpdateKeys(names, v)
    \/ SyncStage \/ RenderFile \/ FileReplaced \/ BeginApply \/ CheckApplied \/ UpdateRefused \/ FinishUpdate
    \/ StopServer
    \/ \E keys \in KeyMaps, safe \in BOOLEAN, mode \in BOOLEAN : EditFile(keys, safe, mode)

KeyStoreSpec == KeyStoreInit /\ [][KeyStoreNext]_keyStoreVars

KeyStoreTypeOK ==
    /\ envFile \in KeyMaps /\ osKeys \in KeyMaps /\ active \in KeyMaps
    /\ keyOp.todo \subseteq KeyNames /\ keyOp.done \subseteq KeyNames /\ keyOp.failed \subseteq KeyNames

(* A startup never loses a key of the file: an assignment leaves it only after the     *)
(* store was seen to hold that value, whatever call failed and wherever the process     *)
(* stopped (credential_store.rs:47-88, env_keys.rs:349-360, atomic.rs).                 *)
MigratedIsStored ==
    [][~keyMode /\ keyOp.pc # "off" =>
         \A n \in KeyNames : envFile[n] # Unset /\ envFile'[n] # envFile[n] => osKeys[n] = envFile[n]]_keyStoreVars

(* A refused update leaves every name but the one it failed on as it was, unless the    *)
(* store refused the rollback too (env_keys.rs:435-468).                                 *)
RefusedUpdateRollsBack ==
    keyOp.pc = "refused" /\ ~keyOp.broken =>
        \A n \in KeyNames \ {keyOp.at} : keyOp.prior[n] # Unset => osKeys[n] = keyOp.prior[n]
=============================================================================
