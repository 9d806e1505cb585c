---------------------------- MODULE MemoryGates ----------------------------
(***************************************************************************)
(* Opening the structured-memory database, the administrator's overrides   *)
(* of its gates, and the idle consolidation worker those gates start and   *)
(* stop (structured_memory.rs, routes/structured_memory.rs::set_gates,     *)
(* structured_memory_auto.rs).  The database is a file beside a marker     *)
(* that says it was initialised; the process may die between any two       *)
(* steps, and while it is down the operator may lose, damage or restore    *)
(* the file.  Setting a gate changes memory under a lock and saves the     *)
(* copy it took after the lock is released.  Two gates decide about the    *)
(* worker; the others are overrides of the same kind.                      *)
(***************************************************************************)
EXTENDS Naturals, FiniteSets

CONSTANTS GateSetters,  \* requests that set a gate
          MemoryGateNames,
          ConfiguredOn  \* the gates config.yaml opens

ASSUME GatesAssumption ==
  /\ {"consolidation", "auto_consolidation"} \subseteq MemoryGateNames
  /\ ConfiguredOn \subseteq MemoryGateNames

VARIABLES database,   \* the file: its state, and does it hold the facts that were acknowledged
          dbMarker,   \* does structured.initialized exist
          memoryServer, \* where the process is
          acked,      \* a fact was acknowledged and its file not given up on purpose
          overrides,  \* the gates in memory
          gatesFile,  \* structured_gates.json
          setter,     \* per request: where it is, the copy it took, what it read
          autoWorker  \* the claims and spawned flags, and the loops that run or leave

gateVars2 == <<overrides, gatesFile, setter, autoWorker>>
storeVars2 == <<database, dbMarker, memoryServer, acked>>
memoryGateVars == <<storeVars2, gateVars2>>

Override == {"unset", "on", "off"}
NoOverrides == [g \in MemoryGateNames |-> "unset"]
IdleSetter == [at |-> "idle", copy |-> NoOverrides, available |-> FALSE]
NoWorker == [stop |-> TRUE, spawned |-> FALSE, looping |-> 0, leaving |-> 0]

MemoryGatesInit ==
  /\ database = [state |-> "absent", facts |-> FALSE] /\ dbMarker = FALSE
  /\ memoryServer = "down" /\ acked = FALSE
  /\ overrides = NoOverrides
  /\ gatesFile \in {[version |-> 2, saved |-> NoOverrides]} \cup
                   [version : {1}, saved : [MemoryGateNames -> {"on", "off"}]]
  /\ setter = [r \in GateSetters |-> IdleSetter] /\ autoWorker = NoWorker

(* Overrides of version 1 that say false count as unset.                   *)
Load(file) ==
  [g \in MemoryGateNames |-> IF file.version = 1 /\ file.saved[g] = "off" THEN "unset" ELSE file.saved[g]]

Resolve(g) == IF overrides[g] = "unset" THEN g \in ConfiguredOn ELSE overrides[g] = "on"
ConsolidationAvailable == memoryServer = "up" /\ Resolve("consolidation")
AutoConsolidationAvailable == ConsolidationAvailable /\ Resolve("auto_consolidation")

-----------------------------------------------------------------------------
(* StructuredMemoryStore::open                                             *)

(* migrate_schema in one transaction, then check_schema; a marker that is   *)
(* missing is written before the store is used.                            *)
Adopted == IF dbMarker THEN "opened" ELSE "marking"

OpenExisting ==
  /\ memoryServer = "down" /\ database.state \in {"old", "current"}
  /\ database' = [database EXCEPT !.state = "current"]
  /\ memoryServer' = Adopted
  /\ UNCHANGED <<dbMarker, acked, gateVars2>>

(* No file: a new one is staged, unless the marker says there was one.     *)
MayCreate == database.state = "absent" /\ ~dbMarker

StageDatabase ==
  /\ memoryServer = "down" /\ MayCreate
  /\ memoryServer' = "staged"
  /\ UNCHANGED <<database, dbMarker, acked, gateVars2>>

InstallDatabase ==
  /\ memoryServer = "staged" /\ database.state = "absent"
  /\ database' = [state |-> "current", facts |-> FALSE]
  /\ memoryServer' = "marking"
  /\ UNCHANGED <<dbMarker, acked, gateVars2>>

WriteMarker ==
  /\ memoryServer = "marking"
  /\ dbMarker' = TRUE /\ memoryServer' = "opened"
  /\ UNCHANGED <<database, acked, gateVars2>>

(* build_state loads the overrides and starts the worker if they allow it. *)
StartWorker(w) ==
  IF w.spawned THEN w ELSE [w EXCEPT !.spawned = TRUE, !.looping = @ + 1]

Started(w, available) ==
  IF available THEN StartWorker([w EXCEPT !.stop = FALSE]) ELSE [w EXCEPT !.stop = TRUE]

FinishStart ==
  /\ memoryServer = "opened"
  /\ memoryServer' = "up" /\ overrides' = Load(gatesFile)
  /\ autoWorker' = Started(NoWorker, AutoConsolidationAvailable')
  /\ UNCHANGED <<database, dbMarker, acked, gatesFile, setter>>

-----------------------------------------------------------------------------
(* The operator and the machine                                            *)

StoreFact ==
  /\ memoryServer = "up" /\ database.state = "current"
  /\ database' = [database EXCEPT !.facts = TRUE] /\ acked' = TRUE
  /\ UNCHANGED <<dbMarker, memoryServer, gateVars2>>

MemoryCrash ==
  /\ memoryServer # "down" /\ memoryServer' = "down"
  /\ overrides' = NoOverrides /\ autoWorker' = NoWorker
  /\ setter' = [r \in GateSetters |-> IdleSetter]
  /\ UNCHANGED <<database, dbMarker, acked, gatesFile>>

(* While the server is down the file is lost, damaged, replaced by a        *)
(* backup of an older schema, or given up together with its marker.        *)
OperatorTouches ==
  /\ memoryServer = "down"
  /\ \/ database' = [state |-> "absent", facts |-> FALSE] /\ UNCHANGED <<dbMarker, acked>>
     \/ database' = [database EXCEPT !.state = "corrupt"] /\ database.state # "absent"
        /\ UNCHANGED <<dbMarker, acked>>
     \/ database' = [state |-> "old", facts |-> acked] /\ UNCHANGED <<dbMarker, acked>>
     \/ database' = [state |-> "absent", facts |-> FALSE] /\ dbMarker' = FALSE /\ acked' = FALSE
  /\ UNCHANGED <<memoryServer, gateVars2>>

-----------------------------------------------------------------------------
(* set_gates                                                               *)

SetGate(r) ==
  /\ memoryServer = "up" /\ setter[r].at = "idle"
  /\ \E g \in MemoryGateNames, v \in {"on", "off"} :
       /\ overrides' = [overrides EXCEPT ![g] = v]
       /\ setter' = [setter EXCEPT ![r].at = "copied", ![r].copy = overrides']
  /\ UNCHANGED <<storeVars2, gatesFile, autoWorker>>

(* The copy is saved after the lock is gone; a failed save ends the request *)
(* with the gate already set in memory and the worker not told.            *)
SaveGates(r) ==
  /\ setter[r].at = "copied"
  /\ \/ /\ gatesFile' = [version |-> 2, saved |-> setter[r].copy]
        /\ setter' = [setter EXCEPT ![r].at = "saved"]
     \/ /\ setter' = [setter EXCEPT ![r] = IdleSetter] /\ UNCHANGED gatesFile
  /\ UNCHANGED <<storeVars2, overrides, autoWorker>>

(* sync_worker: availability is read, the stop flag stored, and a worker    *)
(* started unless one is spawned, each on its own.                         *)
ReadAvailable(r) ==
  /\ setter[r].at = "saved"
  /\ setter' = [setter EXCEPT ![r].at = "read", ![r].available = AutoConsolidationAvailable]
  /\ UNCHANGED <<storeVars2, overrides, gatesFile, autoWorker>>

StoreStop(r) ==
  /\ setter[r].at = "read"
  /\ autoWorker' = [autoWorker EXCEPT !.stop = ~setter[r].available]
  /\ setter' = [setter EXCEPT ![r] = IF setter[r].available THEN [setter[r] EXCEPT !.at = "told"]
                                     ELSE IdleSetter]
  /\ UNCHANGED <<storeVars2, overrides, gatesFile>>

StartIfNeeded(r) ==
  /\ setter[r].at = "told"
  /\ autoWorker' = StartWorker(autoWorker)
  /\ setter' = [setter EXCEPT ![r] = IdleSetter]
  /\ UNCHANGED <<storeVars2, overrides, gatesFile>>

(* worker_loop leaves when it is told to or nothing is available any more,  *)
(* and clears spawned afterwards.                                          *)
WorkerBreaks ==
  /\ autoWorker.looping > 0 /\ (autoWorker.stop \/ ~AutoConsolidationAvailable)
  /\ autoWorker' = [autoWorker EXCEPT !.looping = @ - 1, !.leaving = @ + 1]
  /\ UNCHANGED <<storeVars2, overrides, gatesFile, setter>>

WorkerGone ==
  /\ autoWorker.leaving > 0
  /\ autoWorker' = [autoWorker EXCEPT !.leaving = @ - 1, !.spawned = FALSE]
  /\ UNCHANGED <<storeVars2, overrides, gatesFile, setter>>

-----------------------------------------------------------------------------
OpenStep == OpenExisting \/ StageDatabase \/ InstallDatabase \/ WriteMarker \/ FinishStart
SetterStep(r) == SetGate(r) \/ SaveGates(r) \/ ReadAvailable(r) \/ StoreStop(r) \/ StartIfNeeded(r)

MemoryGatesNext ==
  \/ OpenStep \/ StoreFact \/ MemoryCrash \/ OperatorTouches \/ WorkerBreaks \/ WorkerGone
  \/ \E r \in GateSetters : SetterStep(r)

MemoryGatesSpec == MemoryGatesInit /\ [][MemoryGatesNext]_memoryGateVars

-----------------------------------------------------------------------------
MemoryGatesTypeOK ==
  /\ database \in [state : {"absent", "old", "current", "corrupt"}, facts : BOOLEAN]
  /\ dbMarker \in BOOLEAN /\ acked \in BOOLEAN
  /\ memoryServer \in {"down", "staged", "marking", "opened", "up"}
  /\ overrides \in [MemoryGateNames -> Override]
  /\ gatesFile \in [version : {1, 2}, saved : [MemoryGateNames -> Override]]
  /\ setter \in [GateSetters -> [at : {"idle", "copied", "saved", "read", "told"},
                                 copy : [MemoryGateNames -> Override], available : BOOLEAN]]
  /\ autoWorker \in [stop : BOOLEAN, spawned : BOOLEAN, looping : 0..1, leaving : 0..1]

(* open: facts that were acknowledged are never hidden behind a new, empty  *)
(* database: whatever crashed while it was first installed, a lost file is  *)
(* an error at the next start and not a reset.                             *)
NoSilentReset == acked /\ memoryServer \in {"opened", "up"} => database.facts

(* start_if_needed: however often the gate is turned off and on while a     *)
(* worker is leaving, two idle consolidation loops never run side by side.  *)
OneAutoWorker == autoWorker.looping + autoWorker.leaving <= 1
============================================================================
