---------------------------- MODULE StoreProofs -----------------------------
(***************************************************************************)
(* Proofs about the stores of a home, its start and the programs it runs:   *)
(* HomeStartup, MemoryGates, StructuredMemory, PersonaEdits, KeyStore,      *)
(* SkillRegistry and ChildRun, and what they give together (MCServices).    *)
(***************************************************************************)
EXTENDS MCServices, TLAPS

-----------------------------------------------------------------------------
(* The home: for any number of starts, edits, certificates and client calls. *)

SavedSettings == [present : BOOLEAN, selected : {NoModel} \cup LocalModels \cup CloudModels,
                  config : {NoModel, "missing"} \cup LocalModels]
Servers == [pc : {"stopped", "policy", "config", "registry", "settings", "probe", "build", "tls", "bind", "serving"},
            entry : {"serve", "desktop"}, cfg : {NoModel, "missing"} \cup LocalModels, settings : SavedSettings,
            cert : Nat, port : {0, ServePort, DesktopPort}]
HomeShape ==
  /\ HomeTypeOK /\ server \in Servers /\ harnessJson \in SavedSettings
  /\ ports \in [{ServePort, DesktopPort} -> {"free", "server", "foreign"}]
  /\ renewPc = "write" => bundle < MaxCertificates

(* The policy is written before the config that makes the home an old one. *)
PolicyFirst == SeedSurvivesCrash /\ (server.pc = "config" => policyFile # "missing")
HomeInv == HomeShape /\ PolicyFirst /\ CloudNeedsFreshChoice /\ CookieStaysHome

(* A new home satisfies the invariant.                                      *)
LEMMA HomeStarts == HomeInit => HomeInv
<1> SUFFICES ASSUME HomeInit PROVE HomeInv
  OBVIOUS
<1> USE HomeAssumption DEF HomeInit
<1>1. NoSettings \in SavedSettings
  BY DEF NoSettings, SavedSettings
<1>2. server \in Servers /\ server.pc = "stopped"
  BY <1>1 DEF StoppedServer, Servers
<1>3. HomeShape
  BY <1>1, <1>2 DEF HomeShape, HomeTypeOK
<1>4. QED BY <1>2, <1>3 DEF HomeInv, PolicyFirst, SeedSurvivesCrash, CloudNeedsFreshChoice, CookieStaysHome

(* A server that exits gives its lock and its port back.                    *)
LEMMA ExitKeeps ==
  ASSUME HomeInv, Exit, UNCHANGED <<policyFile, configYaml, harnessJson, bundle, renewPc>>, sentTo' = "none",
         server.pc # "stopped"
  PROVE  HomeInv'
<1> USE DEF HomeInv, HomeShape, HomeTypeOK, Exit, Released, FreedPorts
<1>1. server' \in Servers /\ server'.pc = "stopped"
  BY DEF StoppedServer, NoSettings, Servers, SavedSettings
<1>2. ports' \in [{ServePort, DesktopPort} -> {"free", "server", "foreign"}]
  OBVIOUS
<1>3. PolicyFirst' /\ CloudNeedsFreshChoice' /\ CookieStaysHome'
  BY <1>1 DEF PolicyFirst, SeedSurvivesCrash, CloudNeedsFreshChoice, CookieStaysHome
<1>4. HomeTypeOK'
  BY <1>1
<1>5. QED BY <1>1, <1>2, <1>3, <1>4

(* The steps of ensure_layout, in their order.                              *)
LEMMA SeedKeeps ==
  ASSUME HomeInv, SeedPolicy \/ SeedConfig \/ SeedRegistry
  PROVE  HomeInv'
<1> USE HomeAssumption DEF HomeInv, HomeShape, HomeTypeOK, Step, Stay, GoServer, PolicyFirst, SeedSurvivesCrash,
        CloudNeedsFreshChoice, CookieStaysHome, Servers
<1>1. CASE SeedPolicy BY <1>1 DEF SeedPolicy
<1>2. CASE SeedConfig BY <1>2 DEF SeedConfig
<1>3. CASE SeedRegistry BY <1>3 DEF SeedRegistry
<1>4. QED BY <1>1, <1>2, <1>3

(* The steps of serve_blocking and build_app after the layout.              *)
LEMMA StartKeeps ==
  ASSUME HomeInv, LoadSettings \/ ProbePort \/ BuildApp \/ LoadTls \/ Bind
  PROVE  HomeInv'
<1> USE HomeAssumption DEF HomeInv, HomeShape, HomeTypeOK, Step, Stay, PolicyFirst, SeedSurvivesCrash, layoutVars,
        CloudNeedsFreshChoice, CookieStaysHome, Servers
<1>1. CASE LoadSettings
  <2>1. harnessJson' \in SavedSettings
    BY <1>1 DEF LoadSettings, DefaultSettings, SavedSettings
  <2>2. server' \in Servers /\ server'.pc = "probe"
    BY <1>1, <2>1 DEF LoadSettings
  <2>3. QED BY <1>1, <2>1, <2>2 DEF LoadSettings
<1>2. CASE ProbePort
  <2>1. CASE Exit BY <1>2, <2>1, ExitKeeps DEF ProbePort
  <2>2. CASE ~Exit
    <3>1. server' = [server EXCEPT !.pc = "build", !.cfg = configYaml] /\ Stay
      BY <1>2, <2>2 DEF ProbePort
    <3>2. server' \in Servers /\ server'.pc = "build"
      BY <3>1
    <3>3. QED BY <1>2, <3>1, <3>2 DEF ProbePort
  <2>3. QED BY <2>1, <2>2
<1>3. CASE BuildApp
  <2>1. /\ ResetSettings(server.settings, server.cfg) \in SavedSettings
        /\ ResetSettings(server.settings, server.cfg).selected \notin CloudModels
    BY DEF ResetSettings, SelectionStale, CloudReset, SavedSettings
  <2>2. server' \in Servers /\ server'.pc = "tls" /\ server'.settings.selected \notin CloudModels
    BY <1>3, <2>1 DEF BuildApp
  <2>3. QED BY <1>3, <2>1, <2>2 DEF BuildApp
<1>4. CASE LoadTls
  <2>1. bundle' \in Nat
    BY <1>4 DEF LoadTls
  <2>2. server' \in Servers /\ server'.pc = "bind" /\ server'.settings = server.settings
    BY <1>4, <2>1 DEF LoadTls
  <2>3. QED BY <1>4, <2>2 DEF LoadTls
<1>5. CASE Bind
  <2>1. CASE Exit BY <1>5, <2>1, ExitKeeps DEF Bind
  <2>2. CASE ~Exit
    <3>1. PICK p \in {ServePort, DesktopPort} :
            /\ server' = [server EXCEPT !.pc = "serving", !.port = p]
            /\ ports' = [ports EXCEPT ![p] = "server"] /\ UNCHANGED <<homeLock, confirmed>>
      BY <1>5, <2>2 DEF Bind
    <3>2. server' \in Servers /\ server'.pc = "serving" /\ server'.settings = server.settings
      BY <3>1
    <3>3. ports' \in [{ServePort, DesktopPort} -> {"free", "server", "foreign"}]
      BY <3>1
    <3>4. QED BY <1>5, <3>1, <3>2, <3>3 DEF Bind
  <2>3. QED BY <2>1, <2>2
<1>6. QED BY <1>1, <1>2, <1>3, <1>4, <1>5

(* Locking, stopping, selecting a model, and renewing the certificate.      *)
LEMMA OperateKeeps ==
  ASSUME HomeInv,
         \/ \E entry \in {"serve", "desktop"} : AcquireLock(entry)
         \/ Stop \/ RenewStart \/ RenewWrite
         \/ \E m \in LocalModels \cup CloudModels : SelectModel(m)
  PROVE  HomeInv'
<1> USE HomeAssumption DEF HomeInv, HomeShape, HomeTypeOK, Step, Stay, PolicyFirst, SeedSurvivesCrash, layoutVars,
        CloudNeedsFreshChoice, CookieStaysHome, Servers
<1>1. CASE \E entry \in {"serve", "desktop"} : AcquireLock(entry)
  <2>1. StoppedServer \in Servers
    BY DEF StoppedServer, NoSettings, SavedSettings
  <2>2. server' \in Servers /\ server'.pc = "policy"
    BY <1>1, <2>1 DEF AcquireLock
  <2>3. QED BY <1>1, <2>2 DEF AcquireLock, HomeFree
<1>2. CASE Stop
  BY <1>2, ExitKeeps DEF Stop
<1>3. CASE RenewStart
  BY <1>3 DEF RenewStart, HomeFree
<1>4. CASE RenewWrite
  BY <1>4 DEF RenewWrite
<1>5. ASSUME NEW m \in LocalModels \cup CloudModels, SelectModel(m) PROVE HomeInv'
  <2>1. harnessJson' \in SavedSettings /\ harnessJson'.selected = m
    BY <1>5 DEF SelectModel, SavedSettings
  <2>2. server' \in Servers /\ server'.pc = "serving" /\ server'.settings.selected = m
    BY <1>5, <2>1 DEF SelectModel
  <2>3. m \in CloudModels => m \in confirmed'
    BY <1>5 DEF SelectModel
  <2>4. QED BY <1>5, <2>1, <2>2, <2>3 DEF SelectModel
<1>6. QED BY <1>1, <1>2, <1>3, <1>4, <1>5

(* The client and the operator.                                             *)
LEMMA AroundKeeps ==
  ASSUME HomeInv,
         \/ \E p \in {ServePort, DesktopPort}, u \in BOOLEAN : CliOpen(p, u)
         \/ CliPage \/ CliCall \/ CliSave
         \/ OperatorEditsConfig \/ OperatorRemovesPolicy \/ ForeignBinds \/ ForeignLeaves
  PROVE  HomeInv'
<1> USE HomeAssumption DEF HomeInv, HomeShape, HomeTypeOK, PolicyFirst, SeedSurvivesCrash, layoutVars,
        CloudNeedsFreshChoice, CookieStaysHome, CliStep, Environment
<1>1. CASE \E p \in {ServePort, DesktopPort}, u \in BOOLEAN : CliOpen(p, u)
  BY <1>1 DEF CliOpen
<1>2. CASE CliPage \/ CliSave
  BY <1>2 DEF CliPage, CliSave
<1>3. CASE CliCall
  BY <1>3 DEF CliCall, VerifyServer
<1>4. CASE OperatorEditsConfig \/ OperatorRemovesPolicy
  BY <1>4 DEF OperatorEditsConfig, OperatorRemovesPolicy
<1>5. CASE ForeignBinds \/ ForeignLeaves
  BY <1>5 DEF ForeignBinds, ForeignLeaves
<1>6. QED BY <1>1, <1>2, <1>3, <1>4, <1>5

(* Every step of the home keeps the invariant.                              *)
LEMMA HomeStep == HomeInv /\ [HomeNext]_homeVars => HomeInv'
<1>1. ASSUME HomeInv, UNCHANGED homeVars PROVE HomeInv'
  BY <1>1 DEF homeVars, HomeInv, HomeShape, HomeTypeOK, PolicyFirst, SeedSurvivesCrash, CloudNeedsFreshChoice, CookieStaysHome
<1>2. ASSUME HomeInv, HomeNext PROVE HomeInv'
  BY <1>2, SeedKeeps, StartKeeps, OperateKeeps, AroundKeeps DEF HomeNext
<1>3. QED BY <1>1, <1>2

(* However often a start is cut short and whoever takes the port: a home    *)
(* with a config has its policy, a cloud model is used only when it was     *)
(* confirmed in this process, and the saved cookie goes to this home's own  *)
(* server (home.rs ensure_layout, mod.rs build_app, local_tls.rs).          *)
THEOREM HomeIsSafe == HomeSpec => [](HomeTypeOK /\ SeedSurvivesCrash /\ CloudNeedsFreshChoice /\ CookieStaysHome)
<1>1. HomeInv => HomeTypeOK /\ SeedSurvivesCrash /\ CloudNeedsFreshChoice /\ CookieStaysHome
  BY DEF HomeInv, HomeShape, PolicyFirst
<1>2. QED BY <1>1, HomeStarts, HomeStep, PTL DEF HomeSpec

-----------------------------------------------------------------------------
(* The memory database and its idle worker: for any number of requests and  *)
(* gates.                                                                   *)

Databases == [state : {"absent", "old", "current", "corrupt"}, facts : BOOLEAN]
Workers == [stop : BOOLEAN, spawned : BOOLEAN, looping : Nat, leaving : Nat]

(* The marker is there before a fact can be acknowledged and goes only with *)
(* the acknowledgement, so a file is created only where nothing is owed.    *)
OpenInv ==
  /\ database \in Databases /\ dbMarker \in BOOLEAN /\ acked \in BOOLEAN
  /\ acked => dbMarker
  /\ memoryServer \in {"opened", "up"} => dbMarker
  /\ memoryServer = "staged" => ~dbMarker
  /\ memoryServer \in {"marking", "opened", "up"} => database.state = "current"
  /\ acked /\ database.state \in {"old", "current"} => database.facts

(* `spawned' is set exactly while one loop runs or leaves.                  *)
Setters == [at : {"idle", "copied", "saved", "read", "told"}, copy : [MemoryGateNames -> Override], available : BOOLEAN]
OneLoop(w) == w \in Workers /\ w.looping + w.leaving = IF w.spawned THEN 1 ELSE 0
LoopInv ==
  /\ setter \in [GateSetters -> Setters] /\ overrides \in [MemoryGateNames -> Override]
  /\ gatesFile \in [version : {1, 2}, saved : [MemoryGateNames -> Override]]
  /\ OneLoop(autoWorker)

GatesInv == OpenInv /\ LoopInv

(* A process that starts has neither worker nor request.                    *)
LEMMA NothingRuns ==
  OneLoop(NoWorker) /\ NoOverrides \in [MemoryGateNames -> Override] /\ IdleSetter \in Setters
<1>1. OneLoop(NoWorker)
  BY DEF NoWorker, Workers, OneLoop
<1>2. NoOverrides \in [MemoryGateNames -> Override]
  BY DEF NoOverrides, Override
<1>3. IdleSetter \in Setters
  BY <1>2 DEF IdleSetter, Setters
<1>4. QED BY <1>1, <1>2, <1>3

(* start_if_needed starts a loop only where none is left, and the stop flag *)
(* starts and ends none.                                                    *)
LEMMA StartsOne ==
  ASSUME NEW w, OneLoop(w), NEW b \in BOOLEAN
  PROVE  OneLoop(StartWorker(w)) /\ OneLoop([w EXCEPT !.stop = b])
<1>1. w \in Workers /\ w.looping \in Nat /\ w.leaving \in Nat
  BY DEF OneLoop, Workers
<1>2. OneLoop([w EXCEPT !.stop = b])
  BY <1>1 DEF OneLoop, Workers
<1>3. CASE w.spawned
  BY <1>2, <1>3 DEF StartWorker
<1>4. CASE ~w.spawned
  <2>1. w.looping = 0 /\ w.leaving = 0
    BY <1>1, <1>4 DEF OneLoop
  <2>2. StartWorker(w) = [w EXCEPT !.spawned = TRUE, !.looping = 1]
    BY <1>4, <2>1 DEF StartWorker
  <2> DEFINE v == [w EXCEPT !.spawned = TRUE, !.looping = 1]
  <2>3. v \in Workers
    BY <1>1 DEF Workers
  <2>4. v.looping = 1 /\ v.leaving = 0 /\ v.spawned
    BY <1>1, <2>1 DEF Workers
  <2> HIDE DEF v
  <2>5. OneLoop(v)
    BY <2>3, <2>4 DEF OneLoop
  <2>6. QED BY <1>2, <2>2, <2>5 DEF v
<1>5. QED BY <1>2, <1>3, <1>4

(* A store that was never opened satisfies the invariant.                   *)
LEMMA GatesStart == MemoryGatesInit => GatesInv
<1> SUFFICES ASSUME MemoryGatesInit PROVE GatesInv
  OBVIOUS
<1>1. gatesFile \in [version : {1, 2}, saved : [MemoryGateNames -> Override]]
  BY NothingRuns DEF MemoryGatesInit, Override
<1>2. OpenInv
  BY DEF MemoryGatesInit, OpenInv, Databases
<1>3. QED BY <1>1, <1>2, NothingRuns DEF MemoryGatesInit, GatesInv, LoopInv

(* The steps of open, the facts stored, and what is done to the file while  *)
(* the process is down.                                                     *)
LEMMA OpenKeeps ==
  ASSUME GatesInv, OpenExisting \/ StageDatabase \/ InstallDatabase \/ WriteMarker \/ StoreFact \/ OperatorTouches
  PROVE  GatesInv'
<1> USE DEF GatesInv, OpenInv, Databases
<1>1. UNCHANGED <<overrides, gatesFile, setter, autoWorker>>
  BY DEF OpenExisting, StageDatabase, InstallDatabase, WriteMarker, StoreFact, OperatorTouches, gateVars2
<1>2. LoopInv'
  BY <1>1 DEF LoopInv
<1>3. CASE OpenExisting BY <1>2, <1>3 DEF OpenExisting, Adopted
<1>4. CASE StageDatabase BY <1>2, <1>4 DEF StageDatabase, MayCreate
<1>5. CASE InstallDatabase BY <1>2, <1>5 DEF InstallDatabase
<1>6. CASE WriteMarker BY <1>2, <1>6 DEF WriteMarker
<1>7. CASE StoreFact BY <1>2, <1>7 DEF StoreFact
<1>8. CASE OperatorTouches
  <2>1. CASE /\ database' = [state |-> "absent", facts |-> FALSE]
             /\ UNCHANGED <<dbMarker, acked>> \/ (dbMarker' = FALSE /\ acked' = FALSE)
    <3>1. database' \in Databases /\ database'.state = "absent"
      BY <2>1
    <3>2. memoryServer = "down" /\ memoryServer' = "down"
      BY <1>8 DEF OperatorTouches
    <3>3. dbMarker' \in BOOLEAN /\ acked' \in BOOLEAN /\ (acked' => dbMarker')
      <4>1. CASE UNCHANGED <<dbMarker, acked>> BY <4>1
      <4>2. CASE dbMarker' = FALSE /\ acked' = FALSE BY <4>2
      <4>3. QED BY <2>1, <4>1, <4>2
    <3>4. QED BY <1>2, <3>1, <3>2, <3>3
  <2>2. CASE database' = [database EXCEPT !.state = "corrupt"] /\ UNCHANGED <<dbMarker, acked>>
    <3>1. database' \in Databases /\ database'.state = "corrupt"
      BY <2>2
    <3>2. QED BY <1>2, <1>8, <2>2, <3>1 DEF OperatorTouches
  <2>3. CASE database' = [state |-> "old", facts |-> acked] /\ UNCHANGED <<dbMarker, acked>>
    <3>1. database' \in Databases /\ database'.facts = acked
      BY <2>3
    <3>2. QED BY <1>2, <1>8, <2>3, <3>1 DEF OperatorTouches
  <2>4. QED BY <1>8, <2>1, <2>2, <2>3 DEF OperatorTouches
<1>9. QED BY <1>3, <1>4, <1>5, <1>6, <1>7, <1>8

(* A process that finishes its start or dies.                               *)
LEMMA ProcessKeeps ==
  ASSUME GatesInv, FinishStart \/ MemoryCrash
  PROVE  GatesInv'
<1> USE NothingRuns DEF GatesInv, LoopInv
<1>1. OpenInv'
  BY DEF OpenInv, FinishStart, MemoryCrash
<1>2. CASE FinishStart
  <2>1. Load(gatesFile) \in [MemoryGateNames -> Override]
    BY DEF Load, Override
  <2>2. OneLoop([NoWorker EXCEPT !.stop = FALSE]) /\ OneLoop([NoWorker EXCEPT !.stop = TRUE])
    BY StartsOne
  <2>3. OneLoop(autoWorker')
    BY <1>2, <2>2, StartsOne DEF FinishStart, Started
  <2>4. QED BY <1>1, <1>2, <2>1, <2>3 DEF FinishStart
<1>3. CASE MemoryCrash
  BY <1>1, <1>3 DEF MemoryCrash
<1>4. QED BY <1>2, <1>3

(* A request that sets a gate, and the worker.                              *)
LEMMA GateKeeps ==
  ASSUME GatesInv, WorkerBreaks \/ WorkerGone \/ \E r \in GateSetters : SetterStep(r)
  PROVE  GatesInv'
<1> USE NothingRuns DEF GatesInv, LoopInv
<1>1. UNCHANGED storeVars2
  BY DEF WorkerBreaks, WorkerGone, SetterStep, SetGate, SaveGates, ReadAvailable, StoreStop, StartIfNeeded
<1>2. OpenInv'
  BY <1>1 DEF OpenInv, storeVars2
<1>3. CASE WorkerBreaks \/ WorkerGone
  <2>1. autoWorker.looping \in Nat /\ autoWorker.leaving \in Nat
    BY DEF OneLoop, Workers
  <2>2. OneLoop(autoWorker')
    <3>1. CASE WorkerBreaks
      <4>1. /\ autoWorker.spawned /\ autoWorker.looping = 1 /\ autoWorker.leaving = 0
        BY <2>1, <3>1 DEF WorkerBreaks, OneLoop
      <4>2. autoWorker' = [autoWorker EXCEPT !.looping = 0, !.leaving = 1]
        BY <3>1, <4>1 DEF WorkerBreaks
      <4>3. autoWorker' \in Workers
        BY <4>2 DEF OneLoop, Workers
      <4>4. autoWorker'.looping = 0 /\ autoWorker'.leaving = 1 /\ autoWorker'.spawned
        BY <4>1, <4>2 DEF OneLoop, Workers
      <4>5. QED BY <4>3, <4>4 DEF OneLoop
    <3>2. CASE WorkerGone
      <4>1. /\ autoWorker.looping = 0 /\ autoWorker.leaving = 1
        BY <2>1, <3>2 DEF WorkerGone, OneLoop
      <4>2. autoWorker' = [autoWorker EXCEPT !.leaving = 0, !.spawned = FALSE]
        BY <3>2, <4>1 DEF WorkerGone
      <4>3. autoWorker' \in Workers
        BY <4>2 DEF OneLoop, Workers
      <4>4. autoWorker'.looping = 0 /\ autoWorker'.leaving = 0 /\ ~autoWorker'.spawned
        BY <4>1, <4>2 DEF OneLoop, Workers
      <4>5. QED BY <4>3, <4>4 DEF OneLoop
    <3>3. QED BY <1>3, <3>1, <3>2
  <2>3. QED BY <1>2, <1>3, <2>2 DEF WorkerBreaks, WorkerGone
<1>4. ASSUME NEW r \in GateSetters, SetGate(r) PROVE GatesInv'
  <2>1. PICK g \in MemoryGateNames, v \in {"on", "off"} :
          /\ overrides' = [overrides EXCEPT ![g] = v]
          /\ setter' = [setter EXCEPT ![r].at = "copied", ![r].copy = overrides']
    BY <1>4 DEF SetGate
  <2>2. overrides' \in [MemoryGateNames -> Override]
    BY <2>1 DEF Override
  <2>3. setter' \in [GateSetters -> Setters]
    BY <2>1, <2>2 DEF Setters
  <2>4. QED BY <1>2, <1>4, <2>2, <2>3 DEF SetGate
<1>5. ASSUME NEW r \in GateSetters, SaveGates(r) PROVE GatesInv'
  <2>1. setter' \in [GateSetters -> Setters]
    <3>1. [setter[r] EXCEPT !.at = "saved"] \in Setters
      BY DEF Setters
    <3>2. setter' = [setter EXCEPT ![r] = [setter[r] EXCEPT !.at = "saved"]] \/ setter' = [setter EXCEPT ![r] = IdleSetter]
      BY <1>5 DEF SaveGates
    <3>3. QED BY <3>1, <3>2
  <2>2. setter[r].copy \in [MemoryGateNames -> Override]
    BY DEF Setters
  <2>3. gatesFile' \in [version : {1, 2}, saved : [MemoryGateNames -> Override]]
    BY <1>5, <2>2 DEF SaveGates
  <2>4. QED BY <1>2, <1>5, <2>1, <2>3 DEF SaveGates
<1>6. ASSUME NEW r \in GateSetters, ReadAvailable(r) PROVE GatesInv'
  <2>1. AutoConsolidationAvailable \in BOOLEAN
    BY DEF AutoConsolidationAvailable, ConsolidationAvailable
  <2>2. QED BY <1>2, <1>6, <2>1 DEF ReadAvailable, Setters
<1>7. ASSUME NEW r \in GateSetters, StoreStop(r) PROVE GatesInv'
  <2>1. OneLoop(autoWorker')
    BY <1>7, StartsOne DEF StoreStop
  <2>2. QED BY <1>2, <1>7, <2>1 DEF StoreStop, Setters
<1>8. ASSUME NEW r \in GateSetters, StartIfNeeded(r) PROVE GatesInv'
  <2>1. OneLoop(autoWorker')
    BY <1>8, StartsOne DEF StartIfNeeded
  <2>2. QED BY <1>2, <1>8, <2>1 DEF StartIfNeeded
<1>9. QED BY <1>3, <1>4, <1>5, <1>6, <1>7, <1>8 DEF SetterStep

(* Every step of the memory store keeps the invariant.                      *)
LEMMA GatesStep == GatesInv /\ [MemoryGatesNext]_memoryGateVars => GatesInv'
<1>1. ASSUME GatesInv, UNCHANGED memoryGateVars PROVE GatesInv'
  BY <1>1 DEF memoryGateVars, gateVars2, storeVars2, GatesInv, OpenInv, LoopInv
<1>2. ASSUME GatesInv, MemoryGatesNext PROVE GatesInv'
  BY <1>2, OpenKeeps, ProcessKeeps, GateKeeps DEF MemoryGatesNext, OpenStep
<1>3. QED BY <1>1, <1>2

(* The invariant says what the store promises.                              *)
LEMMA GatesPromise == GatesInv => NoSilentReset /\ OneAutoWorker
<1>1. GatesInv => NoSilentReset
  BY DEF GatesInv, OpenInv, NoSilentReset
<1>2. GatesInv => OneAutoWorker
  BY DEF GatesInv, LoopInv, OneLoop, Workers, OneAutoWorker
<1>3. QED BY <1>1, <1>2

(* Wherever a first start dies and whatever happens to the file while the   *)
(* server is down, acknowledged facts are never hidden behind a new, empty  *)
(* database; and requests that race a leaving worker never start a second   *)
(* loop (structured_memory.rs open, structured_memory_auto.rs).             *)
THEOREM MemoryOpensSafely == MemoryGatesSpec => [](NoSilentReset /\ OneAutoWorker)
BY GatesStart, GatesStep, GatesPromise, PTL DEF MemoryGatesSpec

-----------------------------------------------------------------------------
(* The facts, their index and the proposals: for any number of owners, rows *)
(* and limits.                                                              *)

(* A draft that changes a fact names one, and every draft rests on episodes *)
(* of its own owner.                                                        *)
DraftOk(d, o) ==
  /\ d \in Proposal
  /\ d.action # "add" => d.target \in FactIds
  /\ \A e \in d.sources : IsOf(o, e)
DraftsInv == proposals \in [ProposalIds -> Proposal] /\ \A p \in ProposalIds : DraftOk(proposals[p], ProposalOwner[p])
MemoryInv == facts \in [FactIds -> Fact] /\ DraftsInv /\ IndexMatches

(* An empty database satisfies the invariant.                               *)
LEMMA MemoryStarts == MemoryInit => MemoryInv
<1> SUFFICES ASSUME MemoryInit PROVE MemoryInv
  OBVIOUS
<1>1. NoFact \in Fact /\ NoFact.status = "absent"
  BY MemoryLimitAssumption DEF NoFact, Fact
<1>2. NoProposal \in Proposal /\ NoProposal.action = "add" /\ NoProposal.sources = {}
  BY MemoryLimitAssumption DEF NoProposal, Proposal, Actions
<1>3. QED BY <1>1, <1>2 DEF MemoryInit, MemoryInv, DraftsInv, DraftOk, IndexMatches

(* A new fact and its entry.                                                *)
LEMMA InsertKeeps ==
  ASSUME MemoryInv, NEW o, NEW f \in FactIds, Insert(o, f)
  PROVE  facts' \in [FactIds -> Fact] /\ IndexMatches'
<1>1. NewFact \in Fact /\ NewFact.status = "active" /\ NewFact.text = 1
  BY MemoryLimitAssumption DEF NewFact, Fact
<1>2. facts' = [facts EXCEPT ![f] = NewFact] /\ facts[f].status = "absent" /\ ftsEntries' = ftsEntries \cup {<<f, 1>>}
  BY DEF Insert, FtsInsert
<1>3. facts' \in [FactIds -> Fact]
  BY <1>1, <1>2 DEF MemoryInv
<1>4. \A g \in FactIds : facts'[g] = IF g = f THEN NewFact ELSE facts[g]
  BY <1>2 DEF MemoryInv
<1>5. IndexMatches'
  BY <1>1, <1>2, <1>4 DEF MemoryInv, IndexMatches
<1>6. QED BY <1>3, <1>5

(* A fact that gets another text, and its entry.                            *)
LEMMA UpdateKeeps ==
  ASSUME MemoryInv, NEW f \in FactIds, facts[f].status = "active", facts[f].revision < MaxRevision,
         FtsReplace(f, facts[f].revision + 1), facts' = [facts EXCEPT ![f] = Updated(f)]
  PROVE  facts' \in [FactIds -> Fact] /\ IndexMatches'
<1>1. Updated(f) \in Fact /\ Updated(f).status = "active" /\ Updated(f).text = facts[f].revision + 1
  BY MemoryLimitAssumption DEF Updated, Fact, MemoryInv
<1>2. facts' \in [FactIds -> Fact]
  BY <1>1 DEF MemoryInv
<1>3. \A g \in FactIds : facts'[g] = IF g = f THEN Updated(f) ELSE facts[g]
  BY DEF MemoryInv
<1>4. ftsEntries' = (ftsEntries \ {<<f, facts[f].text>>}) \cup {<<f, facts[f].revision + 1>>}
  BY DEF FtsReplace
<1>5. IndexMatches'
  BY <1>1, <1>3, <1>4 DEF MemoryInv, IndexMatches
<1>6. QED BY <1>2, <1>5

(* A fact that is deactivated, and its entry.                               *)
LEMMA DeactivateKeeps ==
  ASSUME MemoryInv, NEW f \in FactIds, facts[f].status = "active", facts[f].revision < MaxRevision,
         FtsDelete(f), facts' = [facts EXCEPT ![f] = Deactivated(f)]
  PROVE  facts' \in [FactIds -> Fact] /\ IndexMatches'
<1>1. Deactivated(f) \in Fact /\ Deactivated(f).status = "inactive" /\ Deactivated(f).text = facts[f].text
  <2>1. facts[f] \in Fact
    BY DEF MemoryInv
  <2>2. facts[f].revision + 1 \in 0..MaxRevision
    BY <2>1, MemoryLimitAssumption DEF Fact
  <2>3. QED BY <2>1, <2>2 DEF Deactivated, Fact
<1>2. facts' \in [FactIds -> Fact]
  BY <1>1 DEF MemoryInv
<1>3. \A g \in FactIds : facts'[g] = IF g = f THEN Deactivated(f) ELSE facts[g]
  BY DEF MemoryInv
<1>4. ftsEntries' = ftsEntries \ {<<f, facts[f].text>>}
  BY DEF FtsDelete
<1>5. IndexMatches'
  BY <1>1, <1>3, <1>4 DEF MemoryInv, IndexMatches
<1>6. QED BY <1>2, <1>5

(* A decision applies one of the three, or leaves the facts alone; it       *)
(* changes a text only where the proposal was made for it.                  *)
LEMMA DecideKeeps ==
  ASSUME MemoryInv, NEW p \in ProposalIds, NEW apply \in BOOLEAN, DecideProposal(p, apply)
  PROVE  MemoryInv'
<1>1. DraftsInv'
  <2>1. PICK s \in {"applied", "rejected"} : proposals' = [proposals EXCEPT ![p].status = s]
    BY DEF DecideProposal
  <2>2. \A q \in ProposalIds : /\ proposals'[q] \in Proposal /\ proposals'[q].action = proposals[q].action
                               /\ proposals'[q].target = proposals[q].target /\ proposals'[q].sources = proposals[q].sources
    BY <2>1 DEF MemoryInv, DraftsInv, Proposal
  <2>3. proposals' \in [ProposalIds -> Proposal]
    BY <2>1, <2>2 DEF MemoryInv, DraftsInv
  <2>4. QED BY <2>2, <2>3 DEF MemoryInv, DraftsInv, DraftOk, IsOf
<1>2. facts' \in [FactIds -> Fact] /\ IndexMatches'
  <2>1. CASE ~apply
    BY <2>1 DEF DecideProposal, MemoryInv, IndexMatches
  <2>2. CASE apply /\ proposals[p].action = "add" /\ \E f \in FactIds : Insert(ProposalOwner[p], f)
    BY <2>2, InsertKeeps
  <2>3. CASE /\ proposals[p].action = "update" /\ BindTarget(p) /\ facts[proposals[p].target].revision < MaxRevision
             /\ FtsReplace(proposals[p].target, facts[proposals[p].target].revision + 1)
             /\ facts' = [facts EXCEPT ![proposals[p].target] = Updated(proposals[p].target)]
    BY <2>3, UpdateKeeps DEF BindTarget, MemoryInv, DraftsInv, DraftOk
  <2>4. CASE /\ proposals[p].action = "deactivate" /\ BindTarget(p) /\ facts[proposals[p].target].revision < MaxRevision
             /\ FtsDelete(proposals[p].target)
             /\ facts' = [facts EXCEPT ![proposals[p].target] = Deactivated(proposals[p].target)]
    BY <2>4, DeactivateKeeps DEF BindTarget, MemoryInv, DraftsInv, DraftOk
  <2>5. QED BY <2>1, <2>2, <2>3, <2>4 DEF DecideProposal, ApplyPending
<1>3. QED BY <1>1, <1>2 DEF MemoryInv

(* Another draft in the table.                                              *)
LEMMA DraftKeeps ==
  ASSUME MemoryInv, NEW p \in ProposalIds, NEW d, DraftOk(d, ProposalOwner[p]),
         proposals' = [proposals EXCEPT ![p] = d], UNCHANGED <<facts, ftsEntries>>
  PROVE  MemoryInv'
<1>1. proposals' \in [ProposalIds -> Proposal]
  BY DEF MemoryInv, DraftsInv, DraftOk
<1>2. \A q \in ProposalIds : proposals'[q] = IF q = p THEN d ELSE proposals[q]
  BY DEF MemoryInv, DraftsInv
<1>3. DraftsInv'
  <2>1. \A q \in ProposalIds : DraftOk(proposals'[q], ProposalOwner[q])
    BY <1>2 DEF MemoryInv, DraftsInv
  <2>2. QED BY <1>1, <2>1 DEF DraftsInv, DraftOk, IsOf
<1>4. QED BY <1>3 DEF MemoryInv, IndexMatches

(* What a request drafts, and what the consolidator's candidates become.    *)
LEMMA DraftsAreOk ==
  ASSUME MemoryInv, NEW o \in Owners, NEW d \in Drafts(o)
  PROVE  DraftOk(d, o)
<1>1. CASE \E s \in SUBSET OwnersRows(o, episodes) :
             d = [status |-> "pending", action |-> "add", target |-> NoTarget, expected |-> 0, sources |-> s]
  BY <1>1, MemoryLimitAssumption DEF DraftOk, Proposal, Actions, OwnersRows, IsOf
<1>2. CASE \E a \in {"update", "deactivate"}, f \in FactsOf(o), r \in 1..MaxRevision, s \in SUBSET OwnersRows(o, episodes) :
             d = [status |-> "pending", action |-> a, target |-> f, expected |-> r, sources |-> s]
  BY <1>2, MemoryLimitAssumption DEF DraftOk, Proposal, Actions, OwnersRows, IsOf, FactsOf
<1>3. QED BY <1>1, <1>2 DEF Drafts

(* What a consolidation binds is a draft about its owner's rows.            *)
LEMMA BoundIsOk ==
  ASSUME MemoryInv, NEW o \in Owners, NEW c \in Candidates(o), Bindable(c), NEW seen \in 1..MaxRevision
  PROVE  DraftOk(BindOne(c, seen), o)
<1>1. /\ c.action \in Actions /\ c.target \in FactIds \cup {NoTarget} /\ c.repeats \in FactIds \cup {NoTarget}
      /\ c.sources \subseteq EpisodeIds /\ \A e \in c.sources : IsOf(o, e)
  BY DEF Candidates, FactsOf, OwnersRows
<1>2. /\ 0 \in 0..MaxRevision /\ seen \in 0..MaxRevision
  BY MemoryLimitAssumption
<1>3. CASE c.action = "add" /\ c.repeats # NoTarget
  <2>1. BindOne(c, seen) = [status |-> "pending", action |-> "update", target |-> c.repeats, expected |-> seen, sources |-> c.sources]
    BY <1>3 DEF BindOne
  <2>2. QED BY <1>1, <1>2, <1>3, <2>1 DEF DraftOk, Proposal, Actions
<1>4. CASE ~(c.action = "add" /\ c.repeats # NoTarget)
  <2>1. PICK x \in 0..MaxRevision :
          BindOne(c, seen) = [status |-> "pending", action |-> c.action, target |-> c.target, expected |-> x, sources |-> c.sources]
    BY <1>2, <1>4 DEF BindOne
  <2>2. c.action # "add" => c.target \in FactIds
    BY <1>1, <1>4 DEF Bindable
  <2>3. QED BY <1>1, <2>1, <2>2 DEF DraftOk, Proposal
<1>5. QED BY <1>3, <1>4

(* Deleting episodes takes their references along.                          *)
LEMMA ForgetKeeps ==
  ASSUME MemoryInv, NEW eps, NEW gone, NEW sums, Forget(eps, gone, sums)
  PROVE  MemoryInv'
<1>1. \A p \in ProposalIds : proposals'[p] = [proposals[p] EXCEPT !.sources = @ \ gone]
  BY DEF Forget
<1>2. ASSUME NEW p \in ProposalIds
      PROVE  /\ proposals'[p] \in Proposal /\ proposals'[p].action = proposals[p].action
             /\ proposals'[p].target = proposals[p].target
             /\ proposals'[p].sources = proposals[p].sources \ gone
  <2>1. proposals[p] \in Proposal
    BY DEF MemoryInv, DraftsInv
  <2>2. proposals[p].sources \ gone \in SUBSET EpisodeIds
    BY <2>1 DEF Proposal
  <2>3. proposals'[p] \in Proposal
    BY <1>1, <2>1, <2>2 DEF Proposal
  <2>4. proposals'[p].action = proposals[p].action /\ proposals'[p].target = proposals[p].target
    BY <1>1, <2>1 DEF Proposal
  <2>5. proposals'[p].sources = proposals[p].sources \ gone
    BY <1>1, <2>1 DEF Proposal
  <2>6. QED BY <2>3, <2>4, <2>5
<1>3. proposals' \in [ProposalIds -> Proposal]
  BY <1>2 DEF Forget
<1>4. DraftsInv'
  BY <1>2, <1>3 DEF MemoryInv, DraftsInv, DraftOk, IsOf
<1>5. QED BY <1>4 DEF Forget, MemoryInv, IndexMatches

(* Purging an owner empties its rows and leaves the others as they were.    *)
LEMMA PurgeKeeps ==
  ASSUME MemoryInv, NEW o \in Owners, PurgeOwner(o)
  PROVE  MemoryInv'
<1> DEFINE purged == FactsOf(o)
<1>1. NoFact \in Fact /\ NoFact.status = "absent"
  BY MemoryLimitAssumption DEF NoFact, Fact
<1>2. NoProposal \in Proposal /\ NoProposal.action = "add" /\ NoProposal.sources = {}
  BY MemoryLimitAssumption DEF NoProposal, Proposal, Actions
<1>3. /\ facts' = [f \in FactIds |-> IF f \in purged THEN NoFact ELSE facts[f]]
      /\ ftsEntries' = ftsEntries \ {<<f, facts[f].text>> : f \in purged}
      /\ proposals' = [p \in ProposalIds |-> IF ProposalOwner[p] = o THEN NoProposal ELSE proposals[p]]
  BY DEF PurgeOwner
<1>4. facts' \in [FactIds -> Fact]
  BY <1>1, <1>3 DEF MemoryInv
<1>5. DraftsInv'
  <2>1. proposals' \in [ProposalIds -> Proposal]
    BY <1>2, <1>3 DEF MemoryInv, DraftsInv
  <2>2. \A p \in ProposalIds : DraftOk(proposals'[p], ProposalOwner[p])
    BY <1>2, <1>3 DEF MemoryInv, DraftsInv, DraftOk
  <2>3. QED BY <2>1, <2>2 DEF DraftsInv, DraftOk, IsOf
<1>6. IndexMatches'
  <2>1. purged \subseteq FactIds
    BY DEF FactsOf
  <2>2. \A f \in FactIds : facts'[f] = IF f \in purged THEN NoFact ELSE facts[f]
    BY <1>3
  <2> HIDE DEF purged
  <2>3. QED BY <1>1, <1>3, <2>1, <2>2 DEF MemoryInv, IndexMatches
<1>7. QED BY <1>4, <1>5, <1>6 DEF MemoryInv

(* Every step of the database keeps the invariant.                          *)
LEMMA MemoryStep == MemoryInv /\ [MemoryNext]_memoryVars => MemoryInv'
<1> SUFFICES ASSUME MemoryInv, [MemoryNext]_memoryVars PROVE MemoryInv'
  OBVIOUS
<1>1. CASE UNCHANGED memoryVars
  BY <1>1 DEF memoryVars, MemoryInv, DraftsInv, DraftOk, IsOf, IndexMatches
<1>2. CASE FactRoutes
  <2>1. ASSUME NEW o \in Owners, AddFact(o) PROVE MemoryInv'
    <3>1. facts' \in [FactIds -> Fact] /\ IndexMatches'
      BY <2>1, InsertKeeps DEF AddFact
    <3>2. DraftsInv'
      BY <2>1 DEF AddFact, MemoryInv, DraftsInv, DraftOk, IsOf
    <3>3. QED BY <3>1, <3>2 DEF MemoryInv
  <2>2. ASSUME NEW f \in FactIds, NEW r \in 1..MaxRevision, DeactivateFact(f, r) PROVE MemoryInv'
    <3>1. facts' \in [FactIds -> Fact] /\ IndexMatches'
      BY <2>2, DeactivateKeeps DEF DeactivateFact
    <3>2. DraftsInv'
      BY <2>2 DEF DeactivateFact, MemoryInv, DraftsInv, DraftOk, IsOf
    <3>3. QED BY <3>1, <3>2 DEF MemoryInv
  <2>3. QED BY <1>2, <2>1, <2>2 DEF FactRoutes
<1>3. CASE ProposalRoutes
  <2>1. ASSUME NEW o \in Owners, CreateProposal(o) PROVE MemoryInv'
    <3>1. PICK p \in ProposalIds, d \in Drafts(o) : ProposalOwner[p] = o /\ proposals' = [proposals EXCEPT ![p] = d]
      BY <2>1 DEF CreateProposal
    <3>2. DraftOk(d, ProposalOwner[p])
      BY <3>1, DraftsAreOk
    <3>3. QED BY <2>1, <3>1, <3>2, DraftKeeps DEF CreateProposal
  <2>2. ASSUME NEW o \in Owners, FinishConsolidation(o) PROVE MemoryInv'
    <3>1. PICK c \in Candidates(o), seen \in 1..MaxRevision, p \in ProposalIds :
            Bindable(c) /\ ProposalOwner[p] = o /\ proposals' = [proposals EXCEPT ![p] = BindOne(c, seen)]
      BY <2>2 DEF FinishConsolidation
    <3>2. DraftOk(BindOne(c, seen), ProposalOwner[p])
      BY <3>1, BoundIsOk
    <3>3. QED BY <2>2, <3>1, <3>2, DraftKeeps DEF FinishConsolidation
  <2>3. QED BY <1>3, <2>1, <2>2, DecideKeeps DEF ProposalRoutes
<1>4. CASE EpisodeRoutes
  BY <1>4, ForgetKeeps, PurgeKeeps DEF EpisodeRoutes, SetEpisodeSummary, DeleteEpisode, PurgeExpired, DeleteUnreferenced
<1>5. CASE RebuildFts
  BY <1>5 DEF RebuildFts, MemoryInv, DraftsInv, DraftOk, IsOf, IndexMatches
<1>6. ASSUME NEW e \in EpisodeIds, StageEpisode(e) PROVE MemoryInv'
  BY <1>6, ForgetKeeps DEF StageEpisode
<1>7. ASSUME NEW e \in EpisodeIds, Expire(e) PROVE MemoryInv'
  BY <1>7 DEF Expire, MemoryInv, DraftsInv, DraftOk, IsOf, IndexMatches
<1>8. QED BY <1>1, <1>2, <1>3, <1>4, <1>5, <1>6, <1>7 DEF MemoryNext

(* What a step may do to a text, and to the evidence of a pending proposal. *)
TextStep ==
  \A f \in FactIds :
    (facts[f].status # "absent" /\ facts'[f].status # "absent" /\ facts'[f].text # facts[f].text)
      => \E p \in ProposalIds :
           /\ proposals[p].status = "pending" /\ proposals'[p].status = "applied"
           /\ proposals[p].action = "update" /\ proposals[p].target = f
           /\ proposals[p].expected = facts[f].revision
EvidenceStep ==
  \A p \in ProposalIds :
    (proposals[p].status = "pending" /\ proposals'[p].status = "pending")
      => proposals'[p].sources = proposals[p].sources

(* A decision rewrites the text of its target alone, which is at the        *)
(* revision the proposal was made for.                                      *)
LEMMA DecideReviewed ==
  ASSUME MemoryInv, NEW p \in ProposalIds, NEW apply \in BOOLEAN, DecideProposal(p, apply)
  PROVE  TextStep
<1> DEFINE t == proposals[p].target
<1>1. CASE ~apply
  BY <1>1 DEF DecideProposal, TextStep
<1>2. CASE apply /\ proposals[p].action = "add" /\ \E f \in FactIds : Insert(ProposalOwner[p], f)
  BY <1>2 DEF Insert, MemoryInv, TextStep
<1>3. CASE apply /\ proposals[p].action = "update" /\ BindTarget(p) /\ facts' = [facts EXCEPT ![t] = Updated(t)]
  <2>1. proposals[p].status = "pending" /\ proposals'[p].status = "applied"
    BY <1>3 DEF DecideProposal, MemoryInv, DraftsInv, Proposal
  <2>2. facts[t].revision = proposals[p].expected
    BY <1>3 DEF BindTarget
  <2>3. \A f \in FactIds : f # t => facts'[f] = facts[f]
    BY <1>3 DEF MemoryInv
  <2>4. QED BY <1>3, <2>1, <2>2, <2>3 DEF TextStep
<1>4. CASE proposals[p].action = "deactivate" /\ facts' = [facts EXCEPT ![t] = Deactivated(t)]
  <2>1. \A f \in FactIds : facts'[f] = IF f = t THEN Deactivated(t) ELSE facts[f]
    BY <1>4 DEF MemoryInv
  <2>2. t \in FactIds => Deactivated(t).text = facts[t].text
    BY DEF Deactivated, MemoryInv, Fact
  <2>3. QED BY <2>1, <2>2 DEF TextStep
<1>5. QED BY <1>1, <1>2, <1>3, <1>4 DEF DecideProposal, ApplyPending

(* A text changes only by the proposal reviewed at its revision.            *)
LEMMA TextsAreReviewed == MemoryInv /\ [MemoryNext]_memoryVars => TextStep
<1> SUFFICES ASSUME MemoryInv, [MemoryNext]_memoryVars PROVE TextStep
  OBVIOUS
<1>1. facts' = facts => TextStep
  BY DEF TextStep
<1>2. ASSUME NEW o \in Owners, AddFact(o) PROVE TextStep
  BY <1>2 DEF AddFact, Insert, MemoryInv, TextStep
<1>3. ASSUME NEW f \in FactIds, NEW r \in 1..MaxRevision, DeactivateFact(f, r) PROVE TextStep
  <2>1. Deactivated(f).text = facts[f].text
    BY DEF Deactivated, MemoryInv, Fact
  <2>2. QED BY <1>3, <2>1 DEF DeactivateFact, MemoryInv, TextStep
<1>4. ASSUME NEW o \in Owners, PurgeOwner(o) PROVE TextStep
  <2>1. \A f \in FactIds : facts'[f] = IF f \in FactsOf(o) THEN NoFact ELSE facts[f]
    BY <1>4 DEF PurgeOwner
  <2>2. NoFact.status = "absent"
    BY DEF NoFact
  <2>3. QED BY <2>1, <2>2 DEF TextStep
<1>5. FactRoutes \/ ProposalRoutes \/ (\E o \in Owners : PurgeOwner(o)) \/ facts' = facts
  BY DEF MemoryNext, memoryVars, EpisodeRoutes, SetEpisodeSummary, DeleteEpisode, PurgeExpired, DeleteUnreferenced,
         RebuildFts, StageEpisode, Expire, Forget
<1>6. FactRoutes => TextStep
  BY <1>2, <1>3 DEF FactRoutes
<1>7. ProposalRoutes => TextStep
  BY <1>1, DecideReviewed DEF ProposalRoutes, CreateProposal, FinishConsolidation
<1>8. QED BY <1>1, <1>4, <1>5, <1>6, <1>7

(* Episodes that no pending proposal of their owner cites are cited by no   *)
(* pending proposal at all.                                                 *)
LEMMA ForgetSpares ==
  ASSUME MemoryInv, NEW o \in Owners, NEW eps, NEW gone, NEW sums, Forget(eps, gone, sums),
         \A e \in gone : IsOf(o, e) /\ e \notin ReferencedPending(o)
  PROVE  EvidenceStep
<1> SUFFICES ASSUME NEW p \in ProposalIds, proposals[p].status = "pending"
             PROVE  proposals'[p].sources = proposals[p].sources
  BY DEF EvidenceStep
<1>1. proposals[p] \in Proposal /\ \A e \in proposals[p].sources : IsOf(ProposalOwner[p], e)
  BY DEF MemoryInv, DraftsInv, DraftOk
<1>2. \A e \in proposals[p].sources : e \notin gone
  <2>1. SUFFICES ASSUME NEW e \in proposals[p].sources, e \in gone PROVE FALSE
    OBVIOUS
  <2>2. ProposalOwner[p] = o
    BY <1>1, <2>1 DEF IsOf
  <2>3. QED BY <2>1, <2>2 DEF ReferencedPending, PendingOf
<1>3. proposals'[p].sources = proposals[p].sources \ gone
  BY <1>1 DEF Forget, Proposal
<1>4. QED BY <1>2, <1>3

(* The rows a pruning deletes are rows it may delete.                       *)
LEMMA VictimsArePrunable ==
  ASSUME NEW o, NEW eps, NEW sums, NEW e \in Victims(o, eps, sums)
  PROVE  IsOf(o, e) /\ e \notin ReferencedPending(o)
BY DEF Victims, Oldest, Prunable, OwnersRows

(* No step takes evidence from a pending proposal.                          *)
LEMMA EvidenceIsKept == MemoryInv /\ [MemoryNext]_memoryVars => EvidenceStep
<1> SUFFICES ASSUME MemoryInv, [MemoryNext]_memoryVars PROVE EvidenceStep
  OBVIOUS
<1>1. proposals' = proposals => EvidenceStep
  BY DEF EvidenceStep
<1>2. ASSUME NEW o \in Owners, CreateProposal(o) PROVE EvidenceStep
  BY <1>2 DEF CreateProposal, MemoryInv, DraftsInv, EvidenceStep
<1>3. ASSUME NEW o \in Owners, FinishConsolidation(o) PROVE EvidenceStep
  BY <1>3 DEF FinishConsolidation, MemoryInv, DraftsInv, EvidenceStep
<1>4. ASSUME NEW p \in ProposalIds, NEW apply \in BOOLEAN, DecideProposal(p, apply) PROVE EvidenceStep
  <2>1. PICK s \in {"applied", "rejected"} : proposals' = [proposals EXCEPT ![p].status = s]
    BY <1>4 DEF DecideProposal
  <2>2. \A q \in ProposalIds : q # p => proposals'[q] = proposals[q]
    BY <2>1 DEF MemoryInv, DraftsInv
  <2>3. proposals'[p].status = s
    BY <2>1 DEF MemoryInv, DraftsInv, Proposal
  <2>4. QED BY <2>2, <2>3 DEF EvidenceStep
<1>5. ASSUME NEW e \in EpisodeIds, SetEpisodeSummary(e) \/ DeleteEpisode(e) \/ StageEpisode(e) PROVE EvidenceStep
  <2>1. EpisodeOwner[e] \in Owners
    BY MemoryOwnerAssumption
  <2>2. CASE SetEpisodeSummary(e)
    BY <2>1, <2>2, ForgetSpares, VictimsArePrunable DEF SetEpisodeSummary
  <2>3. CASE DeleteEpisode(e)
    BY <2>1, <2>3, ForgetSpares DEF DeleteEpisode, IsOf
  <2>4. CASE StageEpisode(e)
    BY <2>1, <2>4, ForgetSpares, VictimsArePrunable DEF StageEpisode
  <2>5. QED BY <1>5, <2>2, <2>3, <2>4
<1>6. ASSUME NEW o \in Owners, PurgeExpired(o) \/ DeleteUnreferenced(o) PROVE EvidenceStep
  BY <1>6, ForgetSpares DEF PurgeExpired, DeleteUnreferenced, Prunable, OwnersRows
<1>7. ASSUME NEW o \in Owners, PurgeOwner(o) PROVE EvidenceStep
  <2>1. \A p \in ProposalIds : proposals'[p] = IF ProposalOwner[p] = o THEN NoProposal ELSE proposals[p]
    BY <1>7 DEF PurgeOwner
  <2>2. NoProposal.status = "absent"
    BY DEF NoProposal
  <2>3. QED BY <2>1, <2>2 DEF EvidenceStep
<1>8. FactRoutes \/ RebuildFts \/ (\E e \in EpisodeIds : Expire(e)) \/ UNCHANGED memoryVars => proposals' = proposals
  BY DEF FactRoutes, AddFact, DeactivateFact, RebuildFts, Expire, memoryVars
<1>9. ProposalRoutes => EvidenceStep
  BY <1>2, <1>3, <1>4 DEF ProposalRoutes
<1>10. EpisodeRoutes => EvidenceStep
  BY <1>5, <1>6, <1>7 DEF EpisodeRoutes
<1>11. QED BY <1>1, <1>5, <1>8, <1>9, <1>10 DEF MemoryNext

(* For any owners, rows and limits, and whatever is added, decided, pruned, *)
(* purged or rebuilt in between: search finds exactly the active texts, a   *)
(* text changes only by a proposal reviewed at the revision it replaces,    *)
(* and no pruning takes evidence from a pending proposal                    *)
(* (structured_memory.rs decide_proposal, prune_owner_episodes).            *)
THEOREM MemoryIsConsistent == MemorySpec => []IndexMatches /\ DecidedAsReviewed /\ PendingEvidenceKept
<1>1. MemoryInv => IndexMatches
  BY DEF MemoryInv
<1>2. MemorySpec => []MemoryInv
  BY MemoryStarts, MemoryStep, PTL DEF MemorySpec
<1>3. MemorySpec => [][TextStep]_memoryVars
  BY <1>2, TextsAreReviewed, PTL DEF MemorySpec
<1>4. MemorySpec => [][EvidenceStep]_memoryVars
  BY <1>2, EvidenceIsKept, PTL DEF MemorySpec
<1>5. QED BY <1>1, <1>2, <1>3, <1>4, PTL DEF DecidedAsReviewed, PendingEvidenceKept, TextStep, EvidenceStep

-----------------------------------------------------------------------------
(* The persona: for any documents, proposals and bounds.                    *)

SoulOpsAll ==
  [pc : {"idle", "recover", "unmark", "save", "propose", "decide", "replace", "status", "done"},
   kind : {"none", "read", "startup", "save", "propose", "decide"}, text : Documents, base : Documents,
   id : PersonaIds \cup {"none"}, apply : BOOLEAN]
SoulEdits == [status : {"none", "pending", "applied", "rejected", "interrupted"}, base : Documents, content : Documents]
PersonaTypes ==
  /\ soul \in Documents /\ marker \in PersonaIds \cup {"none"} /\ replacedBy \subseteq PersonaIds
  /\ soulProposals \in [PersonaIds -> SoulEdits] /\ soulOp \in SoulOpsAll

(* What is about to be replaced is in the history.                          *)
KeptInv == soulOp.pc = "replace" => soul \in backups \cup {Missing}

(* A proposal's status is true; while the marker names it, soul.md still    *)
(* tells recovery whether it was replaced.                                  *)
Telling(i) == i \notin disturbed /\ soulProposals[i].content # soulProposals[i].base
Honest(i) == Telling(i) => (soulProposals[i].status = "applied" <=> i \in replacedBy)
MarkerInv ==
  marker # "none" =>
    /\ Recoverable
    /\ Telling(marker) => soul = IF marker \in replacedBy THEN soulProposals[marker].content ELSE soulProposals[marker].base
RecordsInv ==
  \A i \in PersonaIds : /\ i # marker => Honest(i)
                        /\ i \in replacedBy => soulProposals[i].status # "none"

(* What the operation under EDIT_LOCK has established at each of its steps. *)
SoulOpInv ==
  /\ soulOp.pc # "idle" => soulOp.kind # "none"
  /\ soulOp.kind = "decide" => soulOp.id \in PersonaIds
  /\ soulOp.pc = "recover" => marker # "none"
  /\ soulOp.pc = "unmark" => marker # "none" /\ Honest(marker)
  /\ soulOp.pc \in {"propose", "decide"} => marker = "none" /\ soulOp.kind = soulOp.pc
  /\ soulOp.pc \in {"save", "replace"} =>
       /\ soulOp.kind \in {"save", "decide"}
       /\ IF soulOp.kind = "save" THEN marker = "none"
          ELSE marker = soulOp.id /\ soulOp.apply /\ soulOp.text = soulProposals[soulOp.id].content
  /\ soulOp.pc = "status" =>
       /\ soulOp.kind = "decide"
       /\ IF soulOp.apply THEN marker = soulOp.id /\ soulOp.id \in replacedBy
          ELSE marker = "none" /\ soulProposals[soulOp.id].status = "pending"
  /\ soulOp.pc = "done" =>
       /\ soulOp.kind = "decide" /\ marker = soulOp.id
       /\ soulOp.id \in replacedBy /\ soulProposals[soulOp.id].status = "applied"

PersonaInv == PersonaTypes /\ KeptInv /\ MarkerInv /\ RecordsInv /\ SoulOpInv

(* A new home satisfies the invariant, and no operation is in the way of it. *)
LEMMA PersonaStarts == PersonaInit => PersonaInv
<1> SUFFICES ASSUME PersonaInit PROVE PersonaInv
  OBVIOUS
<1>1. SoulIdle \in SoulOpsAll /\ SoulIdle.pc = "idle" /\ SoulIdle.kind = "none"
  BY DEF SoulIdle, SoulOpsAll, Documents
<1>2. NoSoulEdit \in SoulEdits /\ NoSoulEdit.base = Missing /\ NoSoulEdit.content = Missing
  BY DEF NoSoulEdit, SoulEdits, Documents
<1>3. PersonaTypes
  BY <1>1, <1>2 DEF PersonaInit, PersonaTypes, Documents
<1>4. KeptInv /\ MarkerInv /\ SoulOpInv
  BY <1>1 DEF PersonaInit, KeptInv, MarkerInv, SoulOpInv
<1>5. RecordsInv
  BY <1>2 DEF PersonaInit, RecordsInv, Honest, Telling
<1>6. QED BY <1>3, <1>4, <1>5 DEF PersonaInv

(* An operation that ends without touching a file leaves the rest.          *)
LEMMA SoulIdles ==
  ASSUME PersonaInv, soulOp' = SoulIdle, FilesKept, UNCHANGED <<replacedBy, disturbed>>
  PROVE  PersonaInv'
<1>1. SoulIdle \in SoulOpsAll /\ SoulIdle.pc = "idle" /\ SoulIdle.kind = "none"
  BY DEF SoulIdle, SoulOpsAll, Documents
<1>2. QED BY <1>1 DEF FilesKept, PersonaInv, PersonaTypes, KeptInv, MarkerInv, RecordsInv, SoulOpInv, Honest, Telling, Recoverable

(* Every operation starts with the recovery of a marker, if any.            *)
LEMMA BeginKeeps ==
  ASSUME PersonaInv, NEW kind \in {"read", "save", "propose", "decide"}, NEW text \in Documents, NEW base \in Documents,
         NEW id \in PersonaIds \cup {"none"}, NEW apply \in BOOLEAN, BeginSoul(kind, text, base, id, apply),
         kind = "decide" => id \in PersonaIds, kind = "read" => marker # "none"
  PROVE  PersonaInv'
<1>1. /\ soulOp' \in SoulOpsAll /\ soulOp'.kind = kind /\ soulOp'.id = id
      /\ soulOp'.pc = IF marker = "none" THEN kind ELSE "recover"
  BY DEF BeginSoul, SoulOpsAll
<1>2. UNCHANGED <<soul, backups, soulProposals, marker, replacedBy, disturbed>>
  BY DEF BeginSoul, FilesKept, Histories
<1>3. PersonaTypes' /\ MarkerInv' /\ RecordsInv' /\ KeptInv'
  BY <1>1, <1>2 DEF PersonaInv, PersonaTypes, MarkerInv, RecordsInv, KeptInv, Honest, Telling, Recoverable
<1>4. SoulOpInv'
  BY <1>1, <1>2 DEF SoulOpInv
<1>5. QED BY <1>3, <1>4 DEF PersonaInv

(* Recovery gives the marked proposal the status that is true of it.        *)
LEMMA RecoverKeeps ==
  ASSUME PersonaInv, RecoverRecord \/ RecoverUnmark
  PROVE  PersonaInv'
<1>1. CASE RecoverRecord /\ ~Recoverable
  BY <1>1, SoulIdles DEF RecoverRecord, Refuse, Histories
<1>2. CASE RecoverRecord /\ Recoverable
  <2> DEFINE st == RecoveredStatus(soulProposals[marker])
  <2>1. marker \in PersonaIds /\ marker # "none" /\ soulOp.pc = "recover"
    BY <1>2 DEF RecoverRecord, PersonaInv, SoulOpInv, PersonaTypes
  <2>2. /\ soulProposals' = [soulProposals EXCEPT ![marker].status = st]
        /\ UNCHANGED <<soul, backups, marker, replacedBy, disturbed>>
        /\ soulOp' = [soulOp EXCEPT !.pc = "unmark"]
    BY <1>2 DEF RecoverRecord, Go, Histories
  <2>3. st \in {"pending", "applied", "interrupted"}
    BY DEF RecoveredStatus
  <2>4. /\ soulOp' \in SoulOpsAll /\ soulOp'.pc = "unmark" /\ soulOp'.kind = soulOp.kind /\ soulOp'.id = soulOp.id
    BY <2>2 DEF PersonaInv, PersonaTypes, SoulOpsAll
  <2>5. soulProposals[marker] \in SoulEdits
    BY <2>1 DEF PersonaInv, PersonaTypes
  <2>6. /\ soulProposals'[marker] \in SoulEdits /\ soulProposals'[marker].status = st
        /\ soulProposals'[marker].base = soulProposals[marker].base
        /\ soulProposals'[marker].content = soulProposals[marker].content
    BY <2>1, <2>2, <2>3, <2>5 DEF PersonaInv, PersonaTypes, SoulEdits
  <2>7. \A i \in PersonaIds : i # marker => soulProposals'[i] = soulProposals[i]
    BY <2>2 DEF PersonaInv, PersonaTypes
  <2>8. PersonaTypes'
    <3>1. soulProposals' \in [PersonaIds -> SoulEdits]
      BY <2>2, <2>6, <2>7 DEF PersonaInv, PersonaTypes
    <3>2. QED BY <2>2, <2>4, <3>1 DEF PersonaInv, PersonaTypes
  <2>9. Telling(marker) => (st = "applied" <=> marker \in replacedBy)
    BY <2>1 DEF PersonaInv, MarkerInv, Telling, RecoveredStatus
  <2> HIDE DEF st
  <2>10. MarkerInv' /\ Honest(marker)'
    BY <2>1, <2>2, <2>3, <2>6, <2>9 DEF PersonaInv, MarkerInv, Honest, Telling, Recoverable
  <2>11. RecordsInv'
    BY <2>1, <2>2, <2>3, <2>6, <2>7 DEF PersonaInv, RecordsInv, Honest, Telling
  <2>12. SoulOpInv' /\ KeptInv'
    BY <2>1, <2>2, <2>4, <2>10 DEF PersonaInv, SoulOpInv, KeptInv
  <2>13. QED BY <2>8, <2>10, <2>11, <2>12 DEF PersonaInv
<1>3. CASE RecoverUnmark
  <2>1. /\ soulOp.pc = "unmark" /\ marker' = "none" /\ marker # "none" /\ Honest(marker) /\ soulOp.kind # "none"
        /\ UNCHANGED <<soul, backups, soulProposals, replacedBy, disturbed>>
    BY <1>3 DEF RecoverUnmark, Histories, PersonaInv, SoulOpInv
  <2>2. RecordsInv' /\ MarkerInv'
    BY <2>1 DEF PersonaInv, PersonaTypes, RecordsInv, MarkerInv, Honest, Telling
  <2>3. CASE soulOp.kind \in {"read", "startup"}
    <3>1. soulOp' = SoulIdle
      BY <1>3, <2>3 DEF RecoverUnmark
    <3>2. SoulIdle \in SoulOpsAll /\ SoulIdle.pc = "idle" /\ SoulIdle.kind = "none"
      BY DEF SoulIdle, SoulOpsAll, Documents
    <3>3. QED BY <2>1, <2>2, <3>1, <3>2 DEF PersonaInv, PersonaTypes, KeptInv, SoulOpInv
  <2>4. CASE soulOp.kind \in {"save", "propose", "decide"}
    <3>1. soulOp' = [soulOp EXCEPT !.pc = soulOp.kind]
      BY <1>3, <2>4 DEF RecoverUnmark, Go
    <3>2. soulOp' \in SoulOpsAll /\ soulOp'.pc = soulOp.kind /\ soulOp'.kind = soulOp.kind /\ soulOp'.id = soulOp.id
      BY <2>4, <3>1 DEF PersonaInv, PersonaTypes, SoulOpsAll
    <3>3. PersonaTypes' /\ KeptInv'
      BY <2>1, <2>4, <3>2 DEF PersonaInv, PersonaTypes, KeptInv
    <3>4. SoulOpInv'
      BY <2>1, <2>4, <3>2 DEF PersonaInv, SoulOpInv
    <3>5. QED BY <2>2, <3>3, <3>4 DEF PersonaInv
  <2>5. soulOp.kind \in {"read", "startup"} \cup {"save", "propose", "decide"}
    BY <2>1 DEF PersonaInv, PersonaTypes, SoulOpsAll
  <2>6. QED BY <2>3, <2>4, <2>5
<1>4. QED BY <1>1, <1>2, <1>3

(* The text about to be replaced is in the history, or there is none.       *)
LEMMA SaveKeeps ==
  ASSUME PersonaInv, SaveBackup
  PROVE  PersonaInv'
<1>1. CASE ~SaveAllowed \/ BackUp = "full"
  BY <1>1, SoulIdles DEF SaveBackup, Refuse, Histories
<1>2. CASE ~(~SaveAllowed \/ BackUp = "full")
  <2>1. /\ backups' = IF BackUp = "write" THEN backups \cup {soul} ELSE backups
        /\ soulOp' = [soulOp EXCEPT !.pc = "replace"] /\ soulOp.pc = "save"
        /\ UNCHANGED <<soul, soulProposals, marker, replacedBy, disturbed>>
    BY <1>2 DEF SaveBackup, Go, Histories
  <2>2. soul \in backups' \cup {Missing}
    BY <1>2, <2>1 DEF BackUp
  <2>3. /\ soulOp' \in SoulOpsAll /\ soulOp'.pc = "replace" /\ soulOp'.kind = soulOp.kind /\ soulOp'.id = soulOp.id
        /\ soulOp'.text = soulOp.text /\ soulOp'.apply = soulOp.apply
    BY <2>1 DEF PersonaInv, PersonaTypes, SoulOpsAll
  <2>4. PersonaTypes' /\ MarkerInv' /\ RecordsInv' /\ KeptInv'
    BY <2>1, <2>2, <2>3 DEF PersonaInv, PersonaTypes, MarkerInv, RecordsInv, KeptInv, Honest, Telling, Recoverable
  <2>5. SoulOpInv'
    BY <2>1, <2>3 DEF PersonaInv, SoulOpInv
  <2>6. QED BY <2>4, <2>5 DEF PersonaInv
<1>3. QED BY <1>1, <1>2

(* The replaced text was saved to the history one step before.              *)
LEMMA ReplaceKeeps ==
  ASSUME PersonaInv, ReplaceSoul
  PROVE  PersonaInv'
<1>1. /\ soulOp.pc = "replace" /\ soul' = soulOp.text /\ UNCHANGED <<soulProposals, marker, disturbed>>
      /\ soulOp.kind \in {"save", "decide"}
  BY DEF ReplaceSoul, PersonaInv, SoulOpInv
<1>2. soul' \in Documents
  BY <1>1 DEF PersonaInv, PersonaTypes, SoulOpsAll
<1>3. CASE soulOp.kind = "save"
  <2>1. soulOp' = SoulIdle /\ UNCHANGED replacedBy /\ marker = "none"
    BY <1>1, <1>3 DEF ReplaceSoul, PersonaInv, SoulOpInv
  <2>2. SoulIdle \in SoulOpsAll /\ SoulIdle.pc = "idle" /\ SoulIdle.kind = "none"
    BY DEF SoulIdle, SoulOpsAll, Documents
  <2>3. QED BY <1>1, <1>2, <2>1, <2>2 DEF PersonaInv, PersonaTypes, KeptInv, MarkerInv, RecordsInv, SoulOpInv, Honest, Telling
<1>4. CASE soulOp.kind = "decide"
  <2>1. /\ soulOp' = [soulOp EXCEPT !.pc = "status"] /\ replacedBy' = replacedBy \cup {soulOp.id}
        /\ marker = soulOp.id /\ soulOp.text = soulProposals[soulOp.id].content /\ soulOp.id \in PersonaIds
    BY <1>1, <1>4 DEF ReplaceSoul, Go, PersonaInv, SoulOpInv
  <2>2. marker # "none" /\ soulProposals[marker].status # "none"
    BY <2>1, PersonaAssumption DEF PersonaInv, MarkerInv, Recoverable
  <2>3. /\ soulOp' \in SoulOpsAll /\ soulOp'.pc = "status" /\ soulOp'.kind = soulOp.kind /\ soulOp'.id = soulOp.id
        /\ soulOp'.apply = soulOp.apply
    BY <2>1 DEF PersonaInv, PersonaTypes, SoulOpsAll
  <2>4. PersonaTypes' /\ KeptInv'
    BY <1>1, <1>2, <2>1, <2>3 DEF PersonaInv, PersonaTypes, KeptInv
  <2>5. MarkerInv' /\ RecordsInv'
    BY <1>1, <2>1, <2>2 DEF PersonaInv, MarkerInv, RecordsInv, Honest, Telling, Recoverable
  <2>6. soulOp.apply
    BY <1>1, <1>4 DEF PersonaInv, SoulOpInv
  <2>7. SoulOpInv'
    BY <1>1, <1>4, <2>1, <2>3, <2>6 DEF SoulOpInv
  <2>8. QED BY <2>4, <2>5, <2>7 DEF PersonaInv
<1>5. QED BY <1>1, <1>3, <1>4

(* A new proposal is pending, and no apply has replaced soul.md for it.     *)
LEMMA ProposeKeeps ==
  ASSUME PersonaInv, Propose
  PROVE  PersonaInv'
<1>1. CASE ~(SaveAllowed /\ SoulRecords < MaxSoulRecords)
  BY <1>1, SoulIdles DEF Propose, Refuse, Histories
<1>2. CASE SaveAllowed /\ SoulRecords < MaxSoulRecords
  <2> DEFINE new == [status |-> "pending", base |-> soulOp.base, content |-> soulOp.text]
  <2>1. PICK i \in PersonaIds :
          /\ soulProposals[i].status = "none" /\ soulProposals' = [soulProposals EXCEPT ![i] = new]
          /\ soulOp' = SoulIdle /\ soulOp.pc = "propose" /\ UNCHANGED <<soul, backups, marker, replacedBy, disturbed>>
    BY <1>2 DEF Propose, Histories
  <2>2. marker = "none" /\ i \notin replacedBy
    BY <2>1 DEF PersonaInv, SoulOpInv, RecordsInv
  <2>3. new \in SoulEdits /\ new.status = "pending"
    BY DEF PersonaInv, PersonaTypes, SoulOpsAll, SoulEdits
  <2>4. SoulIdle \in SoulOpsAll /\ SoulIdle.pc = "idle" /\ SoulIdle.kind = "none"
    BY DEF SoulIdle, SoulOpsAll, Documents
  <2> HIDE DEF new
  <2>5. \A j \in PersonaIds : soulProposals'[j] = IF j = i THEN new ELSE soulProposals[j]
    BY <2>1 DEF PersonaInv, PersonaTypes
  <2>6. PersonaTypes'
    BY <2>1, <2>3, <2>4 DEF PersonaInv, PersonaTypes
  <2>7. RecordsInv'
    BY <2>1, <2>2, <2>3, <2>5 DEF PersonaInv, RecordsInv, Honest, Telling
  <2>8. MarkerInv' /\ KeptInv' /\ SoulOpInv'
    BY <2>1, <2>2, <2>4 DEF MarkerInv, KeptInv, SoulOpInv
  <2>9. QED BY <2>6, <2>7, <2>8 DEF PersonaInv
<1>3. QED BY <1>1, <1>2

(* The marker is set while soul.md is still the proposal's base.            *)
LEMMA DecideSoulKeeps ==
  ASSUME PersonaInv, Decide
  PROVE  PersonaInv'
<1>1. CASE ~Reviewed \/ (soulOp.apply /\ ~ApplyAllowed)
  BY <1>1, SoulIdles DEF Decide, Refuse, Histories
<1>2. CASE ~(~Reviewed \/ (soulOp.apply /\ ~ApplyAllowed))
  <2> DEFINE to == IF soulOp.apply THEN "save" ELSE "status"
  <2>1. /\ soulOp.pc = "decide" /\ soulOp.kind = "decide" /\ soulOp.id \in PersonaIds /\ marker = "none"
        /\ soulProposals[soulOp.id].status = "pending" /\ soulProposals[soulOp.id].content = soulOp.text
        /\ soulOp.apply => soulProposals[soulOp.id].base = soul
    BY <1>2 DEF Decide, Reviewed, ApplyAllowed, PersonaInv, SoulOpInv
  <2>2. /\ soulOp' = [soulOp EXCEPT !.pc = to, !.base = soulProposals[soulOp.id].base]
        /\ marker' = IF soulOp.apply THEN soulOp.id ELSE marker
        /\ UNCHANGED <<soul, backups, soulProposals, replacedBy, disturbed>>
    BY <1>2 DEF Decide, Histories
  <2>3. soulProposals[soulOp.id].base \in Documents
    BY <2>1 DEF PersonaInv, PersonaTypes, SoulEdits
  <2>4. /\ soulOp' \in SoulOpsAll /\ soulOp'.kind = soulOp.kind /\ soulOp'.id = soulOp.id
        /\ soulOp'.text = soulOp.text /\ soulOp'.apply = soulOp.apply /\ soulOp'.pc = to
    BY <2>2, <2>3 DEF PersonaInv, PersonaTypes, SoulOpsAll
  <2>5. PersonaTypes' /\ KeptInv'
    BY <2>1, <2>2, <2>4 DEF PersonaInv, PersonaTypes, KeptInv
  <2>6. Telling(soulOp.id) => soulOp.id \notin replacedBy
    BY <2>1, PersonaAssumption DEF PersonaInv, RecordsInv, Honest
  <2>7. MarkerInv'
    BY <2>1, <2>2, <2>6 DEF MarkerInv, Telling, Recoverable
  <2>8. RecordsInv'
    BY <2>1, <2>2, PersonaAssumption DEF PersonaInv, RecordsInv, Honest, Telling
  <2>9. SoulOpInv'
    BY <2>1, <2>2, <2>4 DEF SoulOpInv
  <2>10. QED BY <2>5, <2>7, <2>8, <2>9 DEF PersonaInv
<1>3. QED BY <1>1, <1>2

(* The decision recorded is the one whose apply has finished.               *)
LEMMA RecordKeeps ==
  ASSUME PersonaInv, RecordDecision
  PROVE  PersonaInv'
<1> DEFINE st == IF soulOp.apply THEN "applied" ELSE "rejected"
           i == soulOp.id
<1>1. /\ soulOp.pc = "status" /\ soulOp.kind = "decide" /\ i \in PersonaIds
      /\ soulProposals' = [soulProposals EXCEPT ![i].status = st]
      /\ UNCHANGED <<soul, backups, marker, replacedBy, disturbed>>
      /\ soulOp' = IF soulOp.apply THEN [soulOp EXCEPT !.pc = "done"] ELSE SoulIdle
  BY DEF RecordDecision, Go, Histories, PersonaInv, SoulOpInv
<1>2. IF soulOp.apply THEN marker = i /\ i \in replacedBy ELSE marker = "none" /\ soulProposals[i].status = "pending"
  BY <1>1 DEF PersonaInv, SoulOpInv
<1>3. soulProposals[i] \in SoulEdits
  BY <1>1 DEF PersonaInv, PersonaTypes
<1>4. /\ soulProposals'[i] \in SoulEdits /\ soulProposals'[i].status = st
      /\ soulProposals'[i].base = soulProposals[i].base /\ soulProposals'[i].content = soulProposals[i].content
  BY <1>1, <1>3 DEF PersonaInv, PersonaTypes, SoulEdits
<1>5. \A j \in PersonaIds : j # i => soulProposals'[j] = soulProposals[j]
  BY <1>1 DEF PersonaInv, PersonaTypes
<1>6. soulProposals' \in [PersonaIds -> SoulEdits]
  BY <1>1, <1>4, <1>5 DEF PersonaInv, PersonaTypes
<1>7. SoulIdle \in SoulOpsAll /\ SoulIdle.pc = "idle" /\ SoulIdle.kind = "none"
  BY DEF SoulIdle, SoulOpsAll, Documents
<1>8. CASE soulOp.apply
  <2>1. soulOp' \in SoulOpsAll /\ soulOp'.pc = "done" /\ soulOp'.kind = "decide" /\ soulOp'.id = i
    BY <1>1, <1>8 DEF PersonaInv, PersonaTypes, SoulOpsAll
  <2>2. PersonaTypes' /\ KeptInv'
    BY <1>1, <1>6, <2>1 DEF PersonaInv, PersonaTypes, KeptInv
  <2>3. marker = i /\ i \in replacedBy /\ soulProposals'[i].status = "applied"
    BY <1>2, <1>4, <1>8
  <2>4. MarkerInv' /\ RecordsInv'
    BY <1>1, <1>4, <1>5, <2>3 DEF PersonaInv, MarkerInv, RecordsInv, Honest, Telling, Recoverable
  <2>5. SoulOpInv'
    BY <1>1, <2>1, <2>3 DEF SoulOpInv
  <2>6. QED BY <2>2, <2>4, <2>5 DEF PersonaInv
<1>9. CASE ~soulOp.apply
  <2>1. marker = "none" /\ soulProposals[i].status = "pending" /\ soulProposals'[i].status = "rejected" /\ soulOp' = SoulIdle
    BY <1>1, <1>2, <1>4, <1>9
  <2>2. PersonaTypes' /\ KeptInv' /\ SoulOpInv' /\ MarkerInv'
    BY <1>1, <1>6, <1>7, <2>1 DEF PersonaInv, PersonaTypes, KeptInv, SoulOpInv, MarkerInv
  <2>3. RecordsInv'
    BY <1>1, <1>4, <1>5, <2>1, PersonaAssumption DEF PersonaInv, RecordsInv, Honest, Telling
  <2>4. QED BY <2>2, <2>3 DEF PersonaInv
<1>10. QED BY <1>8, <1>9

(* Every step of the persona's files keeps the invariant.                   *)
LEMMA PersonaStep == PersonaInv /\ [PersonaNext]_personaVars => PersonaInv'
<1> SUFFICES ASSUME PersonaInv, [PersonaNext]_personaVars PROVE PersonaInv'
  OBVIOUS
<1> USE DEF PersonaInv
<1>0. SoulIdle \in SoulOpsAll /\ SoulIdle.pc = "idle" /\ SoulIdle.kind = "none"
  BY DEF SoulIdle, SoulOpsAll, Documents
<1>1. CASE UNCHANGED personaVars
  BY <1>1 DEF personaVars, PersonaTypes, KeptInv, MarkerInv, RecordsInv, SoulOpInv, Honest, Telling, Recoverable
<1>2. CASE EditSoul \/ ProposeSoul \/ DecideSoul \/ ReviewSoul
  BY <1>2, BeginKeeps DEF EditSoul, ProposeSoul, DecideSoul, ReviewSoul, Documents
<1>3. CASE RemoveMarker
  <2>1. /\ soulOp.pc = "done" /\ marker' = "none" /\ soulOp' = SoulIdle
        /\ UNCHANGED <<soul, backups, soulProposals, replacedBy, disturbed>>
    BY <1>3 DEF RemoveMarker, Histories
  <2>2. marker \in replacedBy /\ soulProposals[marker].status = "applied"
    BY <2>1 DEF SoulOpInv
  <2>3. RecordsInv'
    BY <2>1, <2>2 DEF RecordsInv, Honest, Telling
  <2>4. QED BY <1>0, <2>1, <2>3 DEF PersonaTypes, KeptInv, MarkerInv, SoulOpInv
<1>4. CASE SoulIoFails \/ SoulCrash
  BY <1>4, SoulIdles DEF SoulIoFails, SoulCrash, Histories
<1>5. CASE SoulRestart
  <2>1. /\ soulOp.pc = "idle" /\ UNCHANGED <<soul, backups, soulProposals, marker, replacedBy, disturbed>>
        /\ IF marker = "none" THEN soulOp' = soulOp ELSE soulOp' = [SoulIdle EXCEPT !.pc = "recover", !.kind = "startup"]
    BY <1>5 DEF SoulRestart, FilesKept, Histories
  <2>2. CASE marker = "none"
    BY <2>1, <2>2 DEF PersonaTypes, KeptInv, MarkerInv, RecordsInv, SoulOpInv, Honest, Telling, Recoverable
  <2>3. CASE marker # "none"
    <3>1. soulOp' \in SoulOpsAll /\ soulOp'.pc = "recover" /\ soulOp'.kind = "startup"
      BY <2>1, <2>3 DEF SoulIdle, SoulOpsAll, Documents
    <3>2. QED BY <2>1, <2>3, <3>1 DEF PersonaTypes, KeptInv, MarkerInv, RecordsInv, SoulOpInv, Honest, Telling, Recoverable
  <2>4. QED BY <2>2, <2>3
<1>6. CASE HandEdit
  <2>1. /\ soulOp.pc = "idle" /\ soul' \in Documents /\ disturbed' = IF marker = "none" THEN disturbed ELSE disturbed \cup {marker}
        /\ UNCHANGED <<backups, soulProposals, marker, soulOp, replacedBy>>
    BY <1>6 DEF HandEdit
  <2>2. MarkerInv' /\ RecordsInv'
    BY <2>1 DEF MarkerInv, RecordsInv, Honest, Telling, Recoverable
  <2>3. QED BY <2>1, <2>2 DEF PersonaTypes, KeptInv, SoulOpInv
<1>7. QED BY <1>1, <1>2, <1>3, <1>4, <1>5, <1>6, RecoverKeeps, SaveKeeps, ReplaceKeeps, ProposeKeeps, DecideSoulKeeps,
             RecordKeeps DEF PersonaNext

(* What the invariant says of the files between operations, and of a step   *)
(* that replaces soul.md.                                                   *)
LEMMA PersonaPromise == PersonaInv => OutcomeIsTrue
<1> SUFFICES ASSUME PersonaInv PROVE OutcomeIsTrue
  OBVIOUS
<1>1. marker # "none" => Recoverable
  BY DEF PersonaInv, MarkerInv
<1>2. ASSUME marker = "none", NEW i \in PersonaIds, i \notin disturbed, soulProposals[i].content # soulProposals[i].base
      PROVE  soulProposals[i].status = "applied" <=> i \in replacedBy
  BY <1>2, PersonaAssumption DEF PersonaInv, RecordsInv, Honest, Telling
<1>3. QED BY <1>1, <1>2 DEF OutcomeIsTrue

SoulReplaceStep == soul' # soul /\ soulOp.pc # "idle" => soul \in backups \cup {Missing}
(* Only the replace step of an operation changes soul.md under it.          *)
LEMMA ReplacesKept == PersonaInv /\ [PersonaNext]_personaVars => SoulReplaceStep
<1> SUFFICES ASSUME PersonaInv, [PersonaNext]_personaVars, soul' # soul, soulOp.pc # "idle" PROVE soulOp.pc = "replace"
  BY DEF SoulReplaceStep, PersonaInv, KeptInv
<1>1. PersonaNext
  BY DEF personaVars
<1>2. QED BY <1>1 DEF PersonaNext, EditSoul, ProposeSoul, DecideSoul, ReviewSoul, BeginSoul, RecoverRecord, RecoverUnmark,
        SaveBackup, ReplaceSoul, Propose, Decide, RecordDecision, RemoveMarker, SoulIoFails, SoulCrash, SoulRestart, HandEdit,
        FilesKept, Refuse

(* Whatever write fails and wherever the process ends, a recovered proposal *)
(* says applied exactly when its apply replaced soul.md, the marker never   *)
(* names a record recovery would refuse, and no text is replaced before it  *)
(* is in the history (persona.rs save, decide, recover_apply).              *)
THEOREM PersonaIsRecoverable == PersonaSpec => []OutcomeIsTrue /\ ReplacedIsKept
<1>1. PersonaSpec => []PersonaInv
  BY PersonaStarts, PersonaStep, PTL DEF PersonaSpec
<1>2. PersonaSpec => [][SoulReplaceStep]_personaVars
  BY <1>1, ReplacesKept, PTL DEF PersonaSpec
<1>3. QED BY <1>1, <1>2, PersonaPromise, PTL DEF ReplacedIsKept, SoulReplaceStep

-----------------------------------------------------------------------------
(* The provider keys: for any names, values and bounds.                     *)

KeyOpsAll ==
  [pc : {"off", "ready", "migrate", "verify", "strip", "stripped", "load", "render", "replace", "prior", "apply",
         "check", "undo", "refused"},
   todo : SUBSET KeyNames, at : KeyNames \cup {Unset}, done : SUBSET KeyNames, failed : SUBSET KeyNames, down : BOOLEAN,
   want : KeyMaps, prior : KeyMaps, broken : BOOLEAN, read : KeyMaps]
KeyTypes ==
  /\ envFile \in KeyMaps /\ osKeys \in KeyMaps /\ keyOp \in KeyOpsAll
  /\ staged \in [on : BOOLEAN, synced : BOOLEAN, keys : KeyMaps]

(* A file is published only once it is synced, so a crash leaves it whole.  *)
StageInv == staged.on \/ staged = NoStage \/ staged.synced

(* What the migration has verified is stored, and only that leaves the      *)
(* file; the console rewrites the file only under the opt-in.               *)
MigrationInv ==
  /\ keyOp.pc \in {"migrate", "verify", "strip"} =>
       \A n \in keyOp.done : n \notin keyOp.todo /\ osKeys[n] = envFile[n]
  /\ keyOp.pc = "verify" =>
       keyOp.at \in KeyNames /\ keyOp.at \notin keyOp.done \cup keyOp.todo /\ osKeys[keyOp.at] = envFile[keyOp.at]
  /\ keyOp.pc = "strip" => staged.keys = Stripped(keyOp.done)
  /\ keyOp.pc \in {"render", "replace"} => keyMode

(* The names an update has not touched, or has restored, hold what it read. *)
AsRead(touched) == \A n \in KeyNames \ touched : keyOp.prior[n] # Unset => osKeys[n] = keyOp.prior[n]
RollbackInv ==
  /\ keyOp.pc = "prior" => AsRead({})
  /\ keyOp.pc = "apply" => AsRead(keyOp.done)
  /\ keyOp.pc = "check" => keyOp.at \in KeyNames /\ AsRead(keyOp.done \cup {keyOp.at})
  /\ keyOp.pc = "undo" /\ ~keyOp.broken => AsRead(keyOp.done \cup {keyOp.at})
  /\ keyOp.pc = "refused" /\ ~keyOp.broken => AsRead({keyOp.at})

KeyStoreInv == KeyTypes /\ StageInv /\ MigrationInv /\ RollbackInv

(* A stopped process and an idle one are places of the key operations.      *)
LEMMA OffIsOp ==
  /\ NoKeys \in KeyMaps /\ NoStage \in [on : BOOLEAN, synced : BOOLEAN, keys : KeyMaps]
  /\ Off \in KeyOpsAll /\ Off.pc = "off" /\ Off.done = {} /\ Off.todo = {} /\ Off.prior = NoKeys
  /\ Ready \in KeyOpsAll /\ Ready.pc = "ready"
<1>1. NoKeys \in KeyMaps
  BY DEF NoKeys, KeyMaps
<1>2. Off \in KeyOpsAll /\ Off.pc = "off" /\ Off.done = {} /\ Off.todo = {} /\ Off.prior = NoKeys
  BY <1>1 DEF Off, KeyOpsAll
<1>3. Ready \in KeyOpsAll /\ Ready.pc = "ready"
  BY <1>2 DEF Ready, KeyOpsAll
<1>4. QED BY <1>1, <1>2, <1>3 DEF NoStage

(* A home before its first start.                                           *)
LEMMA KeyStoreStarts == KeyStoreInit => KeyStoreInv
BY OffIsOp DEF KeyStoreInit, KeyStoreInv, KeyTypes, StageInv, MigrationInv, RollbackInv

(* An operation that ends, or has not begun, promises nothing.              *)
LEMMA KeyOpEnds ==
  ASSUME KeyStoreInv, keyOp' \in {Off, Ready}, osKeys' = osKeys, envFile' \in KeyMaps,
         staged' \in [on : BOOLEAN, synced : BOOLEAN, keys : KeyMaps], StageInv'
  PROVE  KeyStoreInv'
<1>1. keyOp' \in KeyOpsAll /\ keyOp'.pc \in {"off", "ready"}
  BY OffIsOp
<1>2. QED BY <1>1 DEF KeyStoreInv, KeyTypes, MigrationInv, RollbackInv

(* The same of a step that only moves to a stage without promises.          *)
LEMMA KeyOpMoves ==
  ASSUME KeyStoreInv, keyOp' \in KeyOpsAll, keyOp'.pc \in {"stripped", "load"}, osKeys' = osKeys, envFile' \in KeyMaps,
         staged' \in [on : BOOLEAN, synced : BOOLEAN, keys : KeyMaps], StageInv'
  PROVE  KeyStoreInv'
BY DEF KeyStoreInv, KeyTypes, MigrationInv, RollbackInv

(* Migration: a name is added to done only when the store was read back.    *)
LEMMA MigrateKeeps ==
  ASSUME KeyStoreInv, NEW n \in KeyNames, MigrateSet(n)
  PROVE  KeyStoreInv'
<1> DEFINE next == [keyOp EXCEPT !.todo = @ \ {n}, !.at = n]
           refused == [next EXCEPT !.failed = @ \cup {n}]
<1>1. /\ keyOp.pc = "migrate" /\ n \in keyOp.todo /\ n \notin keyOp.done
      /\ UNCHANGED <<envFile, staged, keyMode>>
  BY DEF MigrateSet, Untouched, KeyStoreInv, MigrationInv
<1>2. /\ next \in KeyOpsAll /\ next.pc = "migrate" /\ next.todo = keyOp.todo \ {n} /\ next.at = n /\ next.done = keyOp.done
  BY <1>1 DEF KeyStoreInv, KeyTypes, KeyOpsAll
<1>3. /\ refused \in KeyOpsAll /\ refused.pc = "migrate" /\ refused.todo = keyOp.todo \ {n} /\ refused.done = keyOp.done
  <2> HIDE DEF next
  <2>1. QED BY <1>2 DEF KeyOpsAll
<1>4. \/ Put(n, envFile[n], [next EXCEPT !.pc = "verify"])
      \/ Keep(refused) \/ Keep([refused EXCEPT !.down = TRUE])
  BY DEF MigrateSet, StoreCall
<1> HIDE DEF next, refused
<1>5. CASE Put(n, envFile[n], [next EXCEPT !.pc = "verify"])
  <2>1. /\ keyOp' \in KeyOpsAll /\ keyOp'.pc = "verify" /\ keyOp'.todo = keyOp.todo \ {n} /\ keyOp'.at = n
        /\ keyOp'.done = keyOp.done
    BY <1>2, <1>5 DEF Put, KeyOpsAll
  <2>2. osKeys' = [osKeys EXCEPT ![n] = envFile[n]] /\ osKeys' \in KeyMaps /\ osKeys'[n] = envFile[n]
    BY <1>5 DEF Put, KeyStoreInv, KeyTypes, KeyMaps
  <2>3. \A m \in keyOp.done : osKeys'[m] = osKeys[m]
    BY <1>1, <2>2 DEF KeyStoreInv, KeyTypes, KeyOpsAll, KeyMaps
  <2>4. MigrationInv' /\ RollbackInv'
    BY <1>1, <2>1, <2>2, <2>3 DEF KeyStoreInv, MigrationInv, RollbackInv
  <2>5. QED BY <1>1, <2>1, <2>2, <2>4 DEF KeyStoreInv, KeyTypes, StageInv
<1>6. CASE Keep(refused) \/ Keep([refused EXCEPT !.down = TRUE])
  <2>1. /\ keyOp' \in KeyOpsAll /\ keyOp'.pc = "migrate" /\ keyOp'.todo = keyOp.todo \ {n}
        /\ keyOp'.done = keyOp.done
    BY <1>3, <1>6 DEF Keep, KeyOpsAll
  <2>2. osKeys' = osKeys
    BY <1>6 DEF Keep
  <2>3. MigrationInv' /\ RollbackInv'
    BY <1>1, <2>1, <2>2 DEF KeyStoreInv, MigrationInv, RollbackInv
  <2>4. QED BY <1>1, <2>1, <2>2, <2>3 DEF KeyStoreInv, KeyTypes, StageInv
<1>7. QED BY <1>4, <1>5, <1>6

(* A verified name may leave the file: the store has its value.             *)
LEMMA VerifyKeeps ==
  ASSUME KeyStoreInv, MigrateVerify
  PROVE  KeyStoreInv'
<1> DEFINE n == keyOp.at
           vf == VerifyFails(keyOp)
<1>1. /\ keyOp.pc = "verify" /\ n \in KeyNames /\ n \notin keyOp.done \cup keyOp.todo /\ osKeys[n] = envFile[n]
      /\ UNCHANGED <<envFile, staged, keyMode>>
  BY DEF MigrateVerify, Untouched, KeyStoreInv, MigrationInv
<1>2. vf \in KeyOpsAll /\ vf.pc = "migrate" /\ vf.todo = keyOp.todo /\ vf.done = keyOp.done
  BY <1>1 DEF VerifyFails, KeyStoreInv, KeyTypes, KeyOpsAll
<1>3. \/ Keep([keyOp EXCEPT !.pc = "migrate", !.done = @ \cup {n}])
      \/ /\ osKeys' = [osKeys EXCEPT ![n] = Unset] \/ osKeys' = osKeys
         /\ keyOp' = vf
      \/ Keep([vf EXCEPT !.down = TRUE])
  BY DEF MigrateVerify, StoreCall, Deleted
<1> HIDE DEF vf
<1>4. CASE Keep([keyOp EXCEPT !.pc = "migrate", !.done = @ \cup {n}])
  <2>1. keyOp' \in KeyOpsAll /\ keyOp'.pc = "migrate" /\ keyOp'.todo = keyOp.todo /\ keyOp'.done = keyOp.done \cup {n}
    BY <1>1, <1>4 DEF Keep, KeyStoreInv, KeyTypes, KeyOpsAll
  <2>2. osKeys' = osKeys
    BY <1>4 DEF Keep
  <2>3. MigrationInv' /\ RollbackInv'
    BY <1>1, <2>1, <2>2 DEF KeyStoreInv, MigrationInv, RollbackInv
  <2>4. QED BY <1>1, <2>1, <2>2, <2>3 DEF KeyStoreInv, KeyTypes, StageInv
<1>5. CASE \/ /\ osKeys' = [osKeys EXCEPT ![n] = Unset] \/ osKeys' = osKeys
              /\ keyOp' = vf
           \/ Keep([vf EXCEPT !.down = TRUE])
  <2>1. keyOp' \in KeyOpsAll /\ keyOp'.pc = "migrate" /\ keyOp'.todo = keyOp.todo /\ keyOp'.done = keyOp.done
    BY <1>2, <1>5 DEF Keep, KeyOpsAll
  <2>2. osKeys' \in KeyMaps
    BY <1>5 DEF Keep, KeyStoreInv, KeyTypes, KeyMaps
  <2>3. \A m \in keyOp.done : osKeys'[m] = osKeys[m]
    BY <1>1, <1>5 DEF Keep, KeyStoreInv, KeyTypes, KeyOpsAll, KeyMaps
  <2>4. MigrationInv' /\ RollbackInv'
    BY <1>1, <2>1, <2>3 DEF KeyStoreInv, MigrationInv, RollbackInv
  <2>5. QED BY <1>1, <2>1, <2>2, <2>4 DEF KeyStoreInv, KeyTypes, StageInv
<1>6. QED BY <1>3, <1>4, <1>5

(* The file: staged, synced, and put in place.                              *)
LEMMA StripKeeps ==
  ASSUME KeyStoreInv, StripFile \/ FileStripped \/ BeginLoad
  PROVE  KeyStoreInv'
<1>1. ASSUME NEW b \in SUBSET KeyNames, keyOp' = [keyOp EXCEPT !.pc = "load", !.todo = b]
      PROVE  keyOp' \in KeyOpsAll /\ keyOp'.pc = "load"
  BY <1>1 DEF KeyStoreInv, KeyTypes, KeyOpsAll
<1>2. CASE StripFile /\ keyOp.done = {}
  <2>1. keyOp' = [keyOp EXCEPT !.pc = "load", !.todo = KeyNames \ keyOp.failed] /\ UNCHANGED <<envFile, osKeys, staged>>
    BY <1>2 DEF StripFile, KeyStep
  <2>2. keyOp' \in KeyOpsAll /\ keyOp'.pc = "load"
    BY <1>1, <2>1
  <2>3. QED BY <2>1, <2>2, KeyOpMoves DEF KeyStoreInv, KeyTypes, StageInv
<1>3. CASE StripFile /\ keyOp.done # {}
  <2>1. /\ staged' = [on |-> TRUE, synced |-> FALSE, keys |-> Stripped(keyOp.done)] /\ keyOp' = [keyOp EXCEPT !.pc = "strip"]
        /\ keyOp.pc = "migrate" /\ UNCHANGED <<envFile, osKeys, keyMode>>
    BY <1>3 DEF StripFile, Stage, PrivateStage
  <2>2. Stripped(keyOp.done) \in KeyMaps
    BY DEF Stripped, KeyStoreInv, KeyTypes, KeyMaps
  <2>3. /\ keyOp' \in KeyOpsAll /\ keyOp'.pc = "strip" /\ keyOp'.todo = keyOp.todo /\ keyOp'.done = keyOp.done
    BY <2>1 DEF KeyStoreInv, KeyTypes, KeyOpsAll
  <2>4. /\ staged' \in [on : BOOLEAN, synced : BOOLEAN, keys : KeyMaps] /\ staged'.on /\ staged'.keys = Stripped(keyOp.done)
    BY <2>1, <2>2
  <2>5. MigrationInv' /\ RollbackInv'
    BY <2>1, <2>3, <2>4 DEF KeyStoreInv, MigrationInv, RollbackInv, Stripped
  <2>6. QED BY <2>1, <2>3, <2>4, <2>5 DEF KeyStoreInv, KeyTypes, StageInv
<1>4. CASE FileStripped
  <2>1. keyOp' = [keyOp EXCEPT !.pc = "stripped"] /\ UNCHANGED osKeys
    BY <1>4 DEF FileStripped, Persist, WriteFails
  <2>2. keyOp' \in KeyOpsAll /\ keyOp'.pc = "stripped"
    BY <2>1 DEF KeyStoreInv, KeyTypes, KeyOpsAll
  <2>3. CASE Persist("stripped")
    <3>1. /\ envFile' = staged.keys /\ staged' = [staged EXCEPT !.on = FALSE] /\ staged.synced
      BY <2>3 DEF Persist, MayPublish
    <3>2. /\ staged' \in [on : BOOLEAN, synced : BOOLEAN, keys : KeyMaps] /\ staged'.synced /\ envFile' \in KeyMaps
      BY <3>1 DEF KeyStoreInv, KeyTypes
    <3>3. QED BY <2>1, <2>2, <3>2, KeyOpMoves DEF StageInv
  <2>4. CASE WriteFails("stripped")
    <3>1. staged' = NoStage /\ envFile' \in KeyMaps
      BY <2>4 DEF WriteFails, KeyStoreInv, KeyTypes
    <3>2. QED BY <2>1, <2>2, <3>1, KeyOpMoves, OffIsOp DEF StageInv, NoStage, NoKeys
  <2>5. QED BY <1>4, <2>3, <2>4 DEF FileStripped
<1>5. CASE BeginLoad
  <2>1. keyOp' = [keyOp EXCEPT !.pc = "load", !.todo = KeyNames \ keyOp.failed] /\ UNCHANGED <<envFile, osKeys, staged>>
    BY <1>5 DEF BeginLoad, KeyStep
  <2>2. keyOp' \in KeyOpsAll /\ keyOp'.pc = "load"
    BY <1>1, <2>1
  <2>3. QED BY <2>1, <2>2, KeyOpMoves DEF KeyStoreInv, KeyTypes, StageInv
<1>6. QED BY <1>2, <1>3, <1>4, <1>5

(* Loading, and the updates of the plaintext file.                          *)
LEMMA LoadKeeps ==
  ASSUME KeyStoreInv, NEW n \in KeyNames, LoadKey(n)
  PROVE  KeyStoreInv'
<1> DEFINE moved == [keyOp EXCEPT !.todo = @ \ {n}]
<1>1. moved \in KeyOpsAll /\ moved.pc = "load"
  BY DEF LoadKey, KeyStoreInv, KeyTypes, KeyOpsAll
<1>2. osKeys[n] \in KeyValues \cup {Unset}
  BY DEF KeyStoreInv, KeyTypes, KeyMaps
<1>3. /\ osKeys' = osKeys /\ UNCHANGED <<envFile, staged>>
      /\ \/ keyOp' = [moved EXCEPT !.read[n] = osKeys[n]] \/ keyOp' = moved \/ keyOp' = [moved EXCEPT !.todo = {}, !.down = TRUE]
  BY DEF LoadKey, StoreCall, Keep, Untouched
<1> HIDE DEF moved
<1>4. keyOp' \in KeyOpsAll /\ keyOp'.pc = "load"
  <2>1. CASE keyOp' = [moved EXCEPT !.read[n] = osKeys[n]]
    <3>1. [moved.read EXCEPT ![n] = osKeys[n]] \in KeyMaps
      BY <1>1, <1>2 DEF KeyOpsAll, KeyMaps
    <3>2. QED BY <1>1, <2>1, <3>1 DEF KeyOpsAll
  <2>2. CASE keyOp' = [moved EXCEPT !.todo = {}, !.down = TRUE]
    BY <1>1, <2>2 DEF KeyOpsAll
  <2>3. QED BY <1>1, <1>3, <2>1, <2>2
<1>5. QED BY <1>3, <1>4, KeyOpMoves DEF KeyStoreInv, KeyTypes, StageInv

(* In file mode the file is rewritten as a whole.                           *)
LEMMA RenderKeeps ==
  ASSUME KeyStoreInv, RenderFile \/ FileReplaced
  PROVE  KeyStoreInv'
<1>1. CASE RenderFile /\ ~ReadsPrivately
  <2>1. keyOp' = Ready /\ UNCHANGED <<envFile, osKeys, staged>>
    BY <1>1 DEF RenderFile, KeyStep
  <2>2. QED BY <2>1, KeyOpEnds DEF KeyStoreInv, KeyTypes, StageInv
<1>2. CASE RenderFile /\ ReadsPrivately
  <2> DEFINE lines == [n \in KeyNames |-> IF n \in keyOp.todo THEN keyOp.want[n] ELSE envFile[n]]
  <2>1. /\ staged' = [on |-> TRUE, synced |-> FALSE, keys |-> lines] /\ keyOp' = [keyOp EXCEPT !.pc = "replace"]
        /\ keyMode /\ UNCHANGED <<envFile, osKeys, keyMode>>
    BY <1>2 DEF RenderFile, Stage, PrivateStage, KeyStoreInv, MigrationInv
  <2>2. lines \in KeyMaps
    BY DEF KeyStoreInv, KeyTypes, KeyMaps, KeyOpsAll
  <2> HIDE DEF lines
  <2>3. keyOp' \in KeyOpsAll /\ keyOp'.pc = "replace"
    BY <2>1 DEF KeyStoreInv, KeyTypes, KeyOpsAll
  <2>4. staged' \in [on : BOOLEAN, synced : BOOLEAN, keys : KeyMaps] /\ staged'.on
    BY <2>1, <2>2
  <2>5. QED BY <2>1, <2>3, <2>4 DEF KeyStoreInv, KeyTypes, StageInv, MigrationInv, RollbackInv
<1>3. CASE FileReplaced
  <2>1. keyOp' = Ready /\ UNCHANGED osKeys
    BY <1>3 DEF FileReplaced, Persist, WriteFails
  <2>2. CASE Persist("ready")
    <3>1. /\ envFile' = staged.keys /\ staged' = [staged EXCEPT !.on = FALSE] /\ staged.synced
      BY <2>2 DEF Persist, MayPublish
    <3>2. /\ staged' \in [on : BOOLEAN, synced : BOOLEAN, keys : KeyMaps] /\ staged'.synced /\ envFile' \in KeyMaps
      BY <3>1 DEF KeyStoreInv, KeyTypes
    <3>3. QED BY <2>1, <3>2, KeyOpEnds DEF StageInv
  <2>3. CASE WriteFails("ready")
    <3>1. staged' = NoStage /\ envFile' \in KeyMaps
      BY <2>3 DEF WriteFails, KeyStoreInv, KeyTypes
    <3>2. QED BY <2>1, <3>1, KeyOpEnds, OffIsOp DEF StageInv, NoStage, NoKeys
  <2>4. QED BY <1>3, <2>2, <2>3 DEF FileReplaced
<1>4. QED BY <1>1, <1>2, <1>3

(* An update: the prior values are read before anything changes.            *)
LEMMA PriorKeeps ==
  ASSUME KeyStoreInv, NEW n \in KeyNames, ReadPrior(n)
  PROVE  KeyStoreInv'
<1> DEFINE moved == [keyOp EXCEPT !.todo = @ \ {n}, !.prior[n] = osKeys[n]]
<1>1. /\ keyOp.pc = "prior" /\ osKeys' = osKeys /\ (keyOp' = moved \/ keyOp' = Ready) /\ UNCHANGED <<envFile, staged>>
  BY DEF ReadPrior, StoreCall, Keep, Untouched
<1>2. CASE keyOp' = moved
  <2>1. [keyOp.prior EXCEPT ![n] = osKeys[n]] \in KeyMaps
    BY DEF KeyStoreInv, KeyTypes, KeyOpsAll, KeyMaps
  <2>2. keyOp' \in KeyOpsAll /\ keyOp'.pc = "prior" /\ keyOp'.prior = [keyOp.prior EXCEPT ![n] = osKeys[n]]
    BY <1>1, <1>2, <2>1 DEF KeyStoreInv, KeyTypes, KeyOpsAll
  <2>3. \A m \in KeyNames : keyOp'.prior[m] = IF m = n THEN osKeys[n] ELSE keyOp.prior[m]
    BY <2>2 DEF KeyStoreInv, KeyTypes, KeyOpsAll, KeyMaps
  <2>4. MigrationInv' /\ RollbackInv'
    BY <1>1, <2>2, <2>3 DEF KeyStoreInv, MigrationInv, RollbackInv, AsRead
  <2>5. QED BY <1>1, <2>2, <2>4 DEF KeyStoreInv, KeyTypes, StageInv
<1>3. CASE keyOp' = Ready
  BY <1>1, <1>3, KeyOpEnds DEF KeyStoreInv, KeyTypes, StageInv
<1>4. QED BY <1>1, <1>2, <1>3

(* One name is written; on a refusal the names written so far are undone.   *)
LEMMA ApplyKeeps ==
  ASSUME KeyStoreInv, NEW n \in KeyNames, Apply(n)
  PROVE  KeyStoreInv'
<1> DEFINE moved == [keyOp EXCEPT !.todo = @ \ {n}, !.at = n]
           after == IF keyOp.want[n] = Unset THEN [moved EXCEPT !.done = @ \cup {n}] ELSE [moved EXCEPT !.pc = "check"]
<1>1. /\ keyOp.pc = "apply" /\ AsRead(keyOp.done) /\ UNCHANGED <<envFile, staged>>
      /\ Put(n, keyOp.want[n], after) \/ Keep(Undo(moved)) \/ Keep([Undo(moved) EXCEPT !.down = TRUE])
  BY DEF Apply, StoreCall, Untouched, KeyStoreInv, RollbackInv
<1>2. moved \in KeyOpsAll /\ moved.pc = "apply" /\ moved.at = n /\ moved.done = keyOp.done /\ moved.prior = keyOp.prior
  BY <1>1 DEF KeyStoreInv, KeyTypes, KeyOpsAll
<1> HIDE DEF moved
<1>3. CASE Put(n, keyOp.want[n], after)
  <2>1. osKeys' = [osKeys EXCEPT ![n] = keyOp.want[n]] /\ osKeys' \in KeyMaps
    BY <1>3 DEF Put, KeyStoreInv, KeyTypes, KeyOpsAll, KeyMaps
  <2>2. \A m \in KeyNames : m # n => osKeys'[m] = osKeys[m]
    BY <2>1 DEF KeyStoreInv, KeyTypes, KeyMaps
  <2>3. CASE keyOp.want[n] = Unset
    <3>1. keyOp' \in KeyOpsAll /\ keyOp'.pc = "apply" /\ keyOp'.done = keyOp.done \cup {n} /\ keyOp'.prior = keyOp.prior
      BY <1>2, <1>3, <2>3 DEF Put, KeyOpsAll
    <3>2. MigrationInv' /\ RollbackInv'
      BY <1>1, <2>2, <3>1 DEF MigrationInv, RollbackInv, AsRead
    <3>3. QED BY <1>1, <2>1, <3>1, <3>2 DEF KeyStoreInv, KeyTypes, StageInv
  <2>4. CASE keyOp.want[n] # Unset
    <3>1. keyOp' \in KeyOpsAll /\ keyOp'.pc = "check" /\ keyOp'.at = n /\ keyOp'.done = keyOp.done /\ keyOp'.prior = keyOp.prior
      BY <1>2, <1>3, <2>4 DEF Put, KeyOpsAll
    <3>2. MigrationInv' /\ RollbackInv'
      BY <1>1, <2>2, <3>1 DEF MigrationInv, RollbackInv, AsRead
    <3>3. QED BY <1>1, <2>1, <3>1, <3>2 DEF KeyStoreInv, KeyTypes, StageInv
  <2>5. QED BY <2>3, <2>4
<1>4. CASE Keep(Undo(moved)) \/ Keep([Undo(moved) EXCEPT !.down = TRUE])
  <2>1. /\ Undo(moved) \in KeyOpsAll /\ Undo(moved).pc = "undo" /\ Undo(moved).at = n /\ Undo(moved).done = keyOp.done
        /\ Undo(moved).prior = keyOp.prior
    BY <1>2 DEF Undo, KeyOpsAll
  <2>2. keyOp' \in KeyOpsAll /\ keyOp'.pc = "undo" /\ keyOp'.at = n /\ keyOp'.done = keyOp.done /\ keyOp'.prior = keyOp.prior
    BY <1>4, <2>1 DEF Keep, KeyOpsAll
  <2>3. osKeys' = osKeys
    BY <1>4 DEF Keep
  <2>4. MigrationInv' /\ RollbackInv'
    BY <1>1, <2>2, <2>3 DEF MigrationInv, RollbackInv, AsRead
  <2>5. QED BY <1>1, <2>2, <2>3, <2>4 DEF KeyStoreInv, KeyTypes, StageInv
<1>5. QED BY <1>1, <1>3, <1>4

(* A checked name is stored; a failed check starts the rollback.            *)
LEMMA CheckKeeps ==
  ASSUME KeyStoreInv, CheckApplied
  PROVE  KeyStoreInv'
<1> DEFINE n == keyOp.at
<1>1. /\ keyOp.pc = "check" /\ n \in KeyNames /\ UNCHANGED <<envFile, staged>>
      /\ AsRead(keyOp.done \cup {n})
      /\ \/ Keep([keyOp EXCEPT !.pc = "apply", !.done = @ \cup {n}])
         \/ /\ osKeys' = osKeys \/ osKeys' = [osKeys EXCEPT ![n] = Unset]
            /\ keyOp' = Undo(keyOp)
         \/ Keep([Undo(keyOp) EXCEPT !.down = TRUE])
  BY DEF CheckApplied, StoreCall, Deleted, Keep, Untouched, KeyStoreInv, RollbackInv
<1>2. /\ Undo(keyOp) \in KeyOpsAll /\ Undo(keyOp).pc = "undo" /\ Undo(keyOp).at = n /\ Undo(keyOp).done = keyOp.done
      /\ Undo(keyOp).prior = keyOp.prior /\ Undo(keyOp).broken = keyOp.broken
  BY DEF Undo, KeyStoreInv, KeyTypes, KeyOpsAll
<1>3. CASE Keep([keyOp EXCEPT !.pc = "apply", !.done = @ \cup {n}])
  <2>1. keyOp' \in KeyOpsAll /\ keyOp'.pc = "apply" /\ keyOp'.done = keyOp.done \cup {n} /\ keyOp'.prior = keyOp.prior
    BY <1>1, <1>3 DEF Keep, KeyStoreInv, KeyTypes, KeyOpsAll
  <2>2. osKeys' = osKeys
    BY <1>3 DEF Keep
  <2>3. MigrationInv' /\ RollbackInv'
    BY <1>1, <2>1, <2>2 DEF MigrationInv, RollbackInv, AsRead
  <2>4. QED BY <1>1, <2>1, <2>2, <2>3 DEF KeyStoreInv, KeyTypes, StageInv
<1>4. CASE ~Keep([keyOp EXCEPT !.pc = "apply", !.done = @ \cup {n}])
  <2>1. /\ keyOp' \in KeyOpsAll /\ keyOp'.pc = "undo" /\ keyOp'.at = n /\ keyOp'.done = keyOp.done
        /\ keyOp'.prior = keyOp.prior /\ keyOp'.broken = keyOp.broken
    BY <1>1, <1>2, <1>4 DEF Keep, KeyOpsAll
  <2>2. osKeys' \in KeyMaps /\ \A m \in KeyNames : m # n => osKeys'[m] = osKeys[m]
    BY <1>1, <1>4 DEF Keep, KeyStoreInv, KeyTypes, KeyMaps
  <2>3. MigrationInv' /\ RollbackInv'
    BY <1>1, <2>1, <2>2 DEF MigrationInv, RollbackInv, AsRead
  <2>4. QED BY <1>1, <2>1, <2>2, <2>3 DEF KeyStoreInv, KeyTypes, StageInv
<1>5. QED BY <1>3, <1>4

(* A name that is undone holds its prior value again.                       *)
LEMMA UndoKeeps ==
  ASSUME KeyStoreInv, NEW n \in KeyNames, UndoOne(n)
  PROVE  KeyStoreInv'
<1> DEFINE moved == [keyOp EXCEPT !.done = @ \ {n}]
<1>1. /\ keyOp.pc = "undo" /\ UNCHANGED <<envFile, staged>>
      /\ ~keyOp.broken => AsRead(keyOp.done \cup {keyOp.at})
      /\ Put(n, keyOp.prior[n], moved) \/ Keep([moved EXCEPT !.broken = TRUE]) \/ Keep([moved EXCEPT !.broken = TRUE, !.down = TRUE])
  BY DEF UndoOne, StoreCall, Restored, Untouched, KeyStoreInv, RollbackInv
<1>2. /\ moved \in KeyOpsAll /\ moved.pc = "undo" /\ moved.at = keyOp.at /\ moved.done = keyOp.done \ {n} /\ moved.prior = keyOp.prior
      /\ moved.broken = keyOp.broken
  BY <1>1 DEF KeyStoreInv, KeyTypes, KeyOpsAll
<1> HIDE DEF moved
<1>3. CASE Put(n, keyOp.prior[n], moved)
  <2>1. osKeys' \in KeyMaps /\ \A m \in KeyNames : osKeys'[m] = IF m = n THEN keyOp.prior[n] ELSE osKeys[m]
    BY <1>3 DEF Put, KeyStoreInv, KeyTypes, KeyOpsAll, KeyMaps
  <2>2. keyOp' = moved
    BY <1>3 DEF Put
  <2>3. MigrationInv' /\ RollbackInv'
    BY <1>1, <1>2, <2>1, <2>2 DEF MigrationInv, RollbackInv, AsRead
  <2>4. QED BY <1>1, <1>2, <2>1, <2>2, <2>3 DEF KeyStoreInv, KeyTypes, StageInv
<1>4. CASE Keep([moved EXCEPT !.broken = TRUE]) \/ Keep([moved EXCEPT !.broken = TRUE, !.down = TRUE])
  <2>1. keyOp' \in KeyOpsAll /\ keyOp'.pc = "undo" /\ keyOp'.broken /\ osKeys' = osKeys
    BY <1>2, <1>4 DEF Keep, KeyOpsAll
  <2>2. MigrationInv' /\ RollbackInv'
    BY <2>1 DEF MigrationInv, RollbackInv
  <2>3. QED BY <1>1, <2>1, <2>2 DEF KeyStoreInv, KeyTypes, StageInv
<1>5. QED BY <1>1, <1>3, <1>4

(* An update reads what it will replace before it replaces it.              *)
LEMMA UpdateBegins ==
  ASSUME KeyStoreInv, NEW names \in SUBSET KeyNames, NEW v \in KeyValues \cup {Unset}, UpdateKeys(names, v)
  PROVE  KeyStoreInv'
<1> DEFINE wanted == [n \in KeyNames |-> IF n \in names THEN v ELSE Unset]
           to == IF keyMode THEN "render" ELSE "prior"
<1>1. wanted \in KeyMaps
  BY DEF KeyMaps
<1>2. /\ keyOp' = [Off EXCEPT !.pc = to, !.todo = names, !.done = names, !.want = wanted]
      /\ UNCHANGED <<envFile, osKeys, staged, keyMode>>
  BY DEF UpdateKeys
<1> HIDE DEF wanted
<1>3. keyOp' \in KeyOpsAll /\ keyOp'.pc = to /\ keyOp'.prior = NoKeys
  BY <1>1, <1>2, OffIsOp DEF KeyOpsAll
<1>4. MigrationInv' /\ RollbackInv'
  BY <1>2, <1>3 DEF MigrationInv, RollbackInv, AsRead, NoKeys
<1>5. QED BY <1>2, <1>3, <1>4 DEF KeyStoreInv, KeyTypes, StageInv

(* Between the phases of an update no key changes.                          *)
LEMMA UpdateMoves ==
  ASSUME KeyStoreInv, BeginApply \/ UpdateRefused \/ FinishUpdate
  PROVE  KeyStoreInv'
<1>1. UNCHANGED <<envFile, osKeys, staged>>
  BY DEF BeginApply, UpdateRefused, FinishUpdate, KeyStep
<1>2. CASE BeginApply
  <2>1. keyOp.pc = "prior" /\ AsRead({}) /\ keyOp' = [keyOp EXCEPT !.pc = "apply", !.todo = keyOp.done, !.done = {}]
    BY <1>2 DEF BeginApply, KeyStep, KeyStoreInv, RollbackInv
  <2>2. keyOp' \in KeyOpsAll /\ keyOp'.pc = "apply" /\ keyOp'.done = {} /\ keyOp'.prior = keyOp.prior
    BY <2>1 DEF KeyStoreInv, KeyTypes, KeyOpsAll
  <2>3. MigrationInv' /\ RollbackInv'
    BY <1>1, <2>1, <2>2 DEF MigrationInv, RollbackInv, AsRead
  <2>4. QED BY <1>1, <2>2, <2>3 DEF KeyStoreInv, KeyTypes, StageInv
<1>3. CASE UpdateRefused
  <2>1. keyOp.pc = "undo" /\ keyOp.done = {} /\ keyOp' = [keyOp EXCEPT !.pc = "refused"]
    BY <1>3 DEF UpdateRefused, KeyStep
  <2>2. /\ keyOp' \in KeyOpsAll /\ keyOp'.pc = "refused" /\ keyOp'.at = keyOp.at /\ keyOp'.prior = keyOp.prior
        /\ keyOp'.broken = keyOp.broken
    BY <2>1 DEF KeyStoreInv, KeyTypes, KeyOpsAll
  <2>3. MigrationInv' /\ RollbackInv'
    BY <1>1, <2>1, <2>2 DEF KeyStoreInv, MigrationInv, RollbackInv, AsRead
  <2>4. QED BY <1>1, <2>2, <2>3 DEF KeyStoreInv, KeyTypes, StageInv
<1>4. CASE FinishUpdate
  BY <1>1, <1>4, KeyOpEnds DEF FinishUpdate, KeyStep, KeyStoreInv, KeyTypes, StageInv
<1>5. QED BY <1>2, <1>3, <1>4

(* Starting and stopping change no key, a staged file may be lost.          *)
LEMMA ProcessMoves ==
  ASSUME KeyStoreInv, StartServer \/ ServeKeys \/ SyncStage \/ StopServer
  PROVE  KeyStoreInv'
<1>1. CASE StartServer /\ keyMode
  BY <1>1, KeyOpEnds DEF StartServer, KeyStoreInv, KeyTypes, StageInv
<1>2. CASE StartServer /\ ~keyMode
  <2>1. keyOp' = [Off EXCEPT !.pc = "migrate", !.todo = Held(envFile)] /\ UNCHANGED <<envFile, osKeys, staged>>
    BY <1>2 DEF StartServer, KeyStep
  <2>2. keyOp' \in KeyOpsAll /\ keyOp'.pc = "migrate" /\ keyOp'.done = {}
    BY <2>1, OffIsOp DEF KeyOpsAll, Held
  <2>3. QED BY <2>1, <2>2 DEF KeyStoreInv, KeyTypes, StageInv, MigrationInv, RollbackInv
<1>3. CASE ServeKeys
  BY <1>3, KeyOpEnds DEF ServeKeys, KeyStoreInv, KeyTypes, StageInv
<1>4. CASE SyncStage
  <2>1. staged' = [staged EXCEPT !.synced = TRUE] /\ staged.on /\ UNCHANGED <<envFile, osKeys, keyOp, keyMode>>
    BY <1>4 DEF SyncStage
  <2>2. staged' \in [on : BOOLEAN, synced : BOOLEAN, keys : KeyMaps] /\ staged'.on /\ staged'.keys = staged.keys
    BY <2>1 DEF KeyStoreInv, KeyTypes
  <2>3. MigrationInv' /\ RollbackInv'
    BY <2>1, <2>2 DEF KeyStoreInv, MigrationInv, RollbackInv, AsRead, Stripped
  <2>4. QED BY <2>1, <2>2, <2>3 DEF KeyStoreInv, KeyTypes, StageInv
<1>5. CASE StopServer
  BY <1>5, KeyOpEnds, OffIsOp DEF StopServer, KeyStoreInv, KeyTypes, StageInv, NoStage, NoKeys
<1>6. QED BY <1>1, <1>2, <1>3, <1>4, <1>5

(* Every step of the key store keeps the invariant.                         *)
LEMMA KeyStoreStep == KeyStoreInv /\ [KeyStoreNext]_keyStoreVars => KeyStoreInv'
<1> SUFFICES ASSUME KeyStoreInv, [KeyStoreNext]_keyStoreVars PROVE KeyStoreInv'
  OBVIOUS
<1>1. CASE UNCHANGED keyStoreVars
  BY <1>1 DEF keyStoreVars, KeyStoreInv, KeyTypes, StageInv, MigrationInv, RollbackInv, AsRead, Stripped
<1>2. ASSUME NEW keys \in KeyMaps, NEW safe, NEW mode, EditFile(keys, safe, mode) PROVE KeyStoreInv'
  <2>1. keyOp.pc = "off" /\ envFile' = keys /\ UNCHANGED <<osKeys, staged, keyOp>>
    BY <1>2 DEF EditFile
  <2>2. QED BY <2>1 DEF KeyStoreInv, KeyTypes, StageInv, MigrationInv, RollbackInv
<1>3. QED BY <1>1, <1>2, MigrateKeeps, VerifyKeeps, StripKeeps, LoadKeeps, RenderKeeps, PriorKeeps, ApplyKeeps, CheckKeeps,
             UndoKeeps, UpdateBegins, UpdateMoves, ProcessMoves DEF KeyStoreNext

(* A key leaves the file only when the store holds it.                      *)
KeyLeavesStep ==
  ~keyMode /\ keyOp.pc # "off" =>
    \A n \in KeyNames : envFile[n] # Unset /\ envFile'[n] # envFile[n] => osKeys[n] = envFile[n]
(* Only the stripped file drops keys, and those were verified.              *)
LEMMA KeyLeaves == KeyStoreInv /\ [KeyStoreNext]_keyStoreVars => KeyLeavesStep
<1> SUFFICES ASSUME KeyStoreInv, [KeyStoreNext]_keyStoreVars, ~keyMode, keyOp.pc # "off",
                    NEW n \in KeyNames, envFile'[n] # envFile[n]
             PROVE  osKeys[n] = envFile[n]
  BY DEF KeyLeavesStep
<1>1. FileStripped /\ Persist("stripped")
  <2>1. ~StopServer
    BY DEF StopServer, KeyStoreInv, StageInv
  <2>2. ~FileReplaced
    BY DEF FileReplaced, KeyStoreInv, MigrationInv
  <2>3. ~UNCHANGED envFile
    OBVIOUS
  <2>4. ASSUME NEW m \in KeyNames
        PROVE  MigrateSet(m) \/ LoadKey(m) \/ ReadPrior(m) \/ Apply(m) \/ UndoOne(m) => UNCHANGED envFile
    BY DEF MigrateSet, LoadKey, ReadPrior, Apply, UndoOne, Untouched
  <2>5. ASSUME NEW names, NEW v PROVE UpdateKeys(names, v) => UNCHANGED envFile
    BY DEF UpdateKeys
  <2>6. StartServer \/ MigrateVerify \/ StripFile \/ BeginLoad \/ ServeKeys \/ SyncStage \/ RenderFile \/ BeginApply
          \/ CheckApplied \/ UpdateRefused \/ FinishUpdate => UNCHANGED envFile
    BY DEF StartServer, MigrateVerify, StripFile, BeginLoad, ServeKeys, SyncStage, RenderFile, BeginApply, CheckApplied,
           UpdateRefused, FinishUpdate, KeyStep, Untouched, Stage
  <2>7. FileStripped
    BY <2>1, <2>2, <2>3, <2>4, <2>5, <2>6 DEF KeyStoreNext, keyStoreVars, EditFile
  <2>8. QED BY <2>3, <2>7 DEF FileStripped, WriteFails
<1>2. keyOp.pc = "strip" /\ envFile' = staged.keys
  BY <1>1 DEF FileStripped, Persist
<1>3. n \in keyOp.done
  BY <1>2 DEF KeyStoreInv, MigrationInv, Stripped
<1>4. QED BY <1>2, <1>3 DEF KeyStoreInv, MigrationInv

(* For any keys, whatever call of the store fails and wherever the process  *)
(* stops: a key leaves the file only when the store holds it, and a refused *)
(* update gives every other name its value back unless the store refused    *)
(* that too (env_keys.rs, credential_store.rs).                             *)
THEOREM KeysAreNeverLost == KeyStoreSpec => []RefusedUpdateRollsBack /\ MigratedIsStored
<1>1. KeyStoreSpec => []KeyStoreInv
  BY KeyStoreStarts, KeyStoreStep, PTL DEF KeyStoreSpec
<1>2. KeyStoreSpec => [][KeyLeavesStep]_keyStoreVars
  BY <1>1, KeyLeaves, PTL DEF KeyStoreSpec
<1>3. KeyStoreInv => RefusedUpdateRollsBack
  BY DEF KeyStoreInv, RollbackInv, AsRead, RefusedUpdateRollsBack
<1>4. QED BY <1>1, <1>2, <1>3, PTL DEF MigratedIsStored, KeyLeavesStep

-----------------------------------------------------------------------------
(* The skill registry: for any number of processes, names and bodies.       *)

SkillStates ==
  [at : Places, spec : Specs \cup {[name |-> NoBody, body |-> NoBody]}, data : Registries, version : Nat]
SkillTypes ==
  /\ skillProc \in [SkillProcs -> SkillStates] /\ skillFile \in Registries
  /\ lockDir \in [made : BOOLEAN, pid : SkillProcs \cup {NoPid}, old : BOOLEAN] /\ reclaimGuard \in BOOLEAN

(* One process is inside the lock, and the directory is its own; one looks  *)
(* at a lock it may remove, and when it has decided to, nobody is inside.   *)
Guards(p) == skillProc[p].at \in {"guarding", "removing", "remaking", "remade", "guarded", "unguarding"}
OneInLock == \A p, q \in SkillProcs : InLock(p) /\ InLock(q) => p = q
LockIsHeld ==
  \A p \in SkillProcs : InLock(p) => lockDir.made /\ lockDir.pid \in {NoPid, p} /\ (lockDir.pid = NoPid => ~lockDir.old)
OneGuards == \A p \in SkillProcs : Guards(p) => reclaimGuard /\ \A q \in SkillProcs : Guards(q) => p = q
RemovesDead ==
  \A p \in SkillProcs : skillProc[p].at = "removing" => lockDir.made /\ \A q \in SkillProcs : ~InLock(q)
LockInv == OneInLock /\ LockIsHeld /\ OneGuards /\ RemovesDead

(* What was loaded under the lock is the file until it is written.          *)
LoadedInv ==
  \A p \in SkillProcs : /\ skillProc[p].at = "loaded" => skillProc[p].data = skillFile
                        /\ IF skillProc[p].at = "new" THEN skillProc[p].version = 0 ELSE skillProc[p].spec \in Specs
SkillInv == SkillTypes /\ LockInv /\ LoadedInv /\ AppliedIsKept

(* Nobody holds the lock of an empty registry.                              *)
LEMMA SkillStarts == SkillInit => SkillInv
<1> SUFFICES ASSUME SkillInit PROVE SkillInv
  OBVIOUS
<1>1. EmptyRegistry \in Registries /\ EmptyRegistry.version = 0 /\ EmptyRegistry.history = <<>>
  BY DEF EmptyRegistry, Registries
<1>2. \A p \in SkillProcs : /\ skillProc[p].at = "new" /\ skillProc[p].version = 0
  BY DEF SkillInit
<1>3. SkillTypes
  BY <1>1 DEF SkillInit, SkillTypes, SkillStates, Places
<1>4. LockInv /\ LoadedInv
  BY <1>2 DEF LockInv, LoadedInv, OneInLock, LockIsHeld, OneGuards, RemovesDead, InLock, Guards
<1>5. AppliedIsKept
  BY <1>1, <1>2 DEF SkillInit, AppliedIsKept
<1>6. QED BY <1>3, <1>4, <1>5 DEF SkillInv

(* A process moves: only its place changes.                                 *)
LEMMA SkillMoves ==
  ASSUME SkillInv, NEW p \in SkillProcs, NEW place \in Places, SkillGoes(p, place)
  PROVE  /\ skillProc' \in [SkillProcs -> SkillStates]
         /\ \A q \in SkillProcs : /\ skillProc'[q].at = IF q = p THEN place ELSE skillProc[q].at
                                  /\ skillProc'[q].spec = skillProc[q].spec /\ skillProc'[q].data = skillProc[q].data
                                  /\ skillProc'[q].version = skillProc[q].version
BY DEF SkillGoes, SkillInv, SkillTypes, SkillStates

(* A step that leaves the file, and every process's data, alone.            *)
LEMMA RegistryStands ==
  ASSUME SkillInv, skillFile' = skillFile,
         \A q \in SkillProcs : /\ skillProc'[q].at = skillProc[q].at \/ (skillProc'[q].at \notin {"loaded", "new"} /\ skillProc[q].at # "new")
                               /\ skillProc'[q].spec = skillProc[q].spec /\ skillProc'[q].data = skillProc[q].data
                               /\ skillProc'[q].version = skillProc[q].version
  PROVE  LoadedInv' /\ AppliedIsKept'
<1>1. LoadedInv'
  BY DEF SkillInv, LoadedInv
<1>2. AppliedIsKept'
  BY DEF SkillInv, AppliedIsKept
<1>3. QED BY <1>1, <1>2

(* Taking the lock: whoever makes the directory is alone inside.            *)
LEMMA MakeKeeps ==
  ASSUME SkillInv, NEW p \in SkillProcs, MakeLock(p) \/ RemakeLock(p)
  PROVE  SkillInv'
<1> DEFINE x == IF MakeLock(p) THEN IF lockDir.made THEN "contending" ELSE "made"
                ELSE IF lockDir.made THEN "unguarding" ELSE "remade"
<1>1. /\ SkillGoes(p, x) /\ x \in Places /\ skillProc[p].at = IF MakeLock(p) THEN "cleared" ELSE "remaking"
      /\ lockDir' = IF lockDir.made THEN lockDir ELSE [made |-> TRUE, pid |-> NoPid, old |-> FALSE]
      /\ UNCHANGED <<skillFile, reclaimGuard>>
  BY DEF MakeLock, RemakeLock, RegistryKept, Places
<1>2. x = "made" \/ x = "remade" => ~lockDir.made
  OBVIOUS
<1>3. x \in {"contending", "made", "unguarding", "remade"} /\ (x \in {"unguarding", "remade"} => Guards(p))
  BY <1>1 DEF Guards
<1> HIDE DEF x
<1>4. /\ skillProc' \in [SkillProcs -> SkillStates]
      /\ \A q \in SkillProcs : /\ skillProc'[q].at = IF q = p THEN x ELSE skillProc[q].at
                               /\ skillProc'[q].spec = skillProc[q].spec /\ skillProc'[q].data = skillProc[q].data
                               /\ skillProc'[q].version = skillProc[q].version
  BY <1>1, SkillMoves
<1>5. LoadedInv' /\ AppliedIsKept'
  BY <1>1, <1>3, <1>4, RegistryStands
<1>6. SkillTypes'
  BY <1>1, <1>4 DEF SkillInv, SkillTypes
<1>7. CASE lockDir.made
  <2>1. lockDir' = lockDir /\ x \notin {"made", "remade"}
    BY <1>1, <1>2, <1>7
  <2>2. LockInv'
    BY <1>1, <1>3, <1>4, <2>1 DEF SkillInv, LockInv, OneInLock, LockIsHeld, OneGuards, RemovesDead, InLock, Guards
  <2>3. QED BY <1>5, <1>6, <2>2 DEF SkillInv
<1>8. CASE ~lockDir.made
  <2>1. lockDir'.made /\ lockDir'.pid = NoPid /\ ~lockDir'.old
    BY <1>1, <1>8
  <2>2. \A q \in SkillProcs : ~InLock(q) /\ skillProc[q].at # "removing"
    BY <1>8 DEF SkillInv, LockInv, LockIsHeld, RemovesDead
  <2>3. OneInLock' /\ LockIsHeld' /\ RemovesDead'
    BY <1>3, <1>4, <2>1, <2>2 DEF OneInLock, LockIsHeld, RemovesDead, InLock
  <2>4. OneGuards'
    BY <1>1, <1>3, <1>4 DEF SkillInv, LockInv, OneGuards, Guards
  <2>5. QED BY <1>5, <1>6, <2>3, <2>4 DEF SkillInv, LockInv
<1>9. QED BY <1>7, <1>8

(* A token is written by the process that made the directory.               *)
LEMMA TokenKeeps ==
  ASSUME SkillInv, NEW p \in SkillProcs, WriteToken(p)
  PROVE  SkillInv'
<1> DEFINE x == IF skillProc[p].at = "made" THEN "held" ELSE "guarded"
<1>1. /\ SkillGoes(p, x) /\ x \in Places /\ skillProc[p].at \in {"made", "remade"}
      /\ lockDir' = lockDir \/ lockDir' = [lockDir EXCEPT !.pid = p, !.old = FALSE]
      /\ UNCHANGED <<skillFile, reclaimGuard>>
  BY DEF WriteToken, RegistryKept, Places
<1>2. InLock(p) /\ x \in {"held", "guarded"} /\ (x = "guarded" => Guards(p))
  BY <1>1 DEF InLock, Guards
<1> HIDE DEF x
<1>3. /\ skillProc' \in [SkillProcs -> SkillStates]
      /\ \A q \in SkillProcs : /\ skillProc'[q].at = IF q = p THEN x ELSE skillProc[q].at
                               /\ skillProc'[q].spec = skillProc[q].spec /\ skillProc'[q].data = skillProc[q].data
                               /\ skillProc'[q].version = skillProc[q].version
  BY <1>1, SkillMoves
<1>4. LoadedInv' /\ AppliedIsKept'
  BY <1>1, <1>2, <1>3, RegistryStands
<1>5. /\ lockDir' \in [made : BOOLEAN, pid : SkillProcs \cup {NoPid}, old : BOOLEAN] /\ lockDir'.made
      /\ lockDir'.pid \in {NoPid, p} /\ (lockDir'.pid = NoPid => ~lockDir'.old)
  <2>1. lockDir.made /\ lockDir.pid \in {NoPid, p} /\ (lockDir.pid = NoPid => ~lockDir.old)
    BY <1>2 DEF SkillInv, LockInv, LockIsHeld
  <2>2. QED BY <1>1, <2>1, SkillAssumption DEF SkillInv, SkillTypes
<1>6. \A q \in SkillProcs : q # p => ~InLock(q)
  BY <1>2 DEF SkillInv, LockInv, OneInLock
<1>7. OneInLock' /\ LockIsHeld'
  BY <1>3, <1>5, <1>6 DEF OneInLock, LockIsHeld, InLock
<1>8. RemovesDead'
  BY <1>2, <1>3 DEF SkillInv, LockInv, RemovesDead
<1>9. OneGuards'
  BY <1>1, <1>2, <1>3 DEF SkillInv, LockInv, OneGuards, Guards
<1>10. QED BY <1>1, <1>3, <1>4, <1>5, <1>7, <1>8, <1>9 DEF SkillInv, SkillTypes, LockInv

(* Reclaiming: a lock is removed only when nobody alive is inside.          *)
LEMMA ReclaimKeeps ==
  ASSUME SkillInv, NEW p \in SkillProcs, TakeGuard(p) \/ InspectLock(p) \/ RemoveLock(p) \/ DropGuard(p)
  PROVE  SkillInv'
<1>1. UNCHANGED skillFile
  BY DEF TakeGuard, InspectLock, RemoveLock, DropGuard, RegistryKept
<1>2. ASSUME NEW x \in Places \ {"new", "loaded"}, SkillGoes(p, x), skillProc[p].at # "new",
             lockDir' \in [made : BOOLEAN, pid : SkillProcs \cup {NoPid}, old : BOOLEAN], reclaimGuard' \in BOOLEAN, LockInv'
      PROVE  SkillInv'
  <2>1. LoadedInv' /\ AppliedIsKept'
    BY <1>1, <1>2, SkillMoves, RegistryStands
  <2>2. QED BY <1>1, <1>2, <2>1, SkillMoves DEF SkillInv, SkillTypes
<1>3. CASE TakeGuard(p)
  <2> DEFINE x == IF reclaimGuard THEN "refused" ELSE "guarding"
  <2>1. SkillGoes(p, x) /\ skillProc[p].at = "contending" /\ reclaimGuard' = TRUE /\ lockDir' = lockDir
    BY <1>3 DEF TakeGuard
  <2>2. x \in Places \ {"new", "loaded"} /\ x \in {"refused", "guarding"} /\ (x = "guarding" => ~reclaimGuard)
    BY DEF Places
  <2> HIDE DEF x
  <2>3. \A q \in SkillProcs : skillProc'[q].at = IF q = p THEN x ELSE skillProc[q].at
    BY <2>1, <2>2, SkillMoves
  <2>4. OneInLock' /\ LockIsHeld' /\ RemovesDead'
    BY <2>1, <2>2, <2>3 DEF SkillInv, LockInv, OneInLock, LockIsHeld, RemovesDead, InLock
  <2>5. OneGuards'
    BY <2>1, <2>2, <2>3 DEF SkillInv, LockInv, OneGuards, Guards
  <2>6. QED BY <1>2, <2>1, <2>2, <2>4, <2>5 DEF LockInv, SkillInv, SkillTypes
<1>4. CASE InspectLock(p)
  <2> DEFINE x == IF ~lockDir.made THEN "remaking" ELSE IF CanReclaim THEN "removing" ELSE "unguarding"
  <2>1. SkillGoes(p, x) /\ skillProc[p].at = "guarding" /\ UNCHANGED <<lockDir, reclaimGuard>>
    BY <1>4 DEF InspectLock
  <2>2. x \in Places \ {"new", "loaded"} /\ x \in {"remaking", "removing", "unguarding"}
    BY DEF Places
  <2>3. x = "removing" => lockDir.made /\ \A q \in SkillProcs : ~InLock(q)
    <3> SUFFICES ASSUME lockDir.made, CanReclaim, NEW q \in SkillProcs, InLock(q) PROVE FALSE
      OBVIOUS
    <3>1. PidAlive(q)
      BY SkillAssumption DEF InLock, PidAlive
    <3>2. QED BY <3>1 DEF CanReclaim, SkillInv, LockInv, LockIsHeld
  <2> HIDE DEF x
  <2>4. \A q \in SkillProcs : skillProc'[q].at = IF q = p THEN x ELSE skillProc[q].at
    BY <2>1, <2>2, SkillMoves
  <2>5. OneInLock' /\ LockIsHeld' /\ RemovesDead'
    BY <2>1, <2>2, <2>3, <2>4 DEF SkillInv, LockInv, OneInLock, LockIsHeld, RemovesDead, InLock
  <2>6. OneGuards'
    BY <2>1, <2>2, <2>4 DEF SkillInv, LockInv, OneGuards, Guards
  <2>7. QED BY <1>2, <2>1, <2>2, <2>5, <2>6 DEF LockInv, SkillInv, SkillTypes
<1>5. CASE RemoveLock(p)
  <2>1. /\ SkillGoes(p, "remaking") /\ skillProc[p].at = "removing" /\ UNCHANGED reclaimGuard
        /\ lockDir' = [made |-> FALSE, pid |-> NoPid, old |-> FALSE]
    BY <1>5 DEF RemoveLock
  <2>2. "remaking" \in Places \ {"new", "loaded"}
    BY DEF Places
  <2>3. \A q \in SkillProcs : skillProc'[q].at = IF q = p THEN "remaking" ELSE skillProc[q].at
    BY <2>1, <2>2, SkillMoves
  <2>4. \A q \in SkillProcs : ~InLock(q) /\ (skillProc[q].at = "removing" => q = p)
    BY <2>1 DEF SkillInv, LockInv, RemovesDead, OneGuards, Guards
  <2>5. OneInLock' /\ LockIsHeld' /\ RemovesDead'
    BY <2>3, <2>4 DEF OneInLock, LockIsHeld, RemovesDead, InLock
  <2>6. OneGuards'
    BY <2>1, <2>3 DEF SkillInv, LockInv, OneGuards, Guards
  <2>7. QED BY <1>2, <2>1, <2>2, <2>5, <2>6 DEF LockInv, SkillInv, SkillTypes
<1>6. CASE DropGuard(p)
  <2> DEFINE x == IF skillProc[p].at = "guarded" THEN "held" ELSE "refused"
  <2>1. SkillGoes(p, x) /\ skillProc[p].at \in {"guarded", "unguarding"} /\ reclaimGuard' = FALSE /\ lockDir' = lockDir
    BY <1>6 DEF DropGuard
  <2>2. x \in Places \ {"new", "loaded"} /\ x \in {"held", "refused"} /\ (x = "held" => InLock(p))
    BY DEF Places, InLock
  <2> HIDE DEF x
  <2>3. \A q \in SkillProcs : skillProc'[q].at = IF q = p THEN x ELSE skillProc[q].at
    BY <2>1, <2>2, SkillMoves
  <2>4. OneInLock' /\ LockIsHeld' /\ RemovesDead'
    BY <2>1, <2>2, <2>3 DEF SkillInv, LockInv, OneInLock, LockIsHeld, RemovesDead, InLock
  <2>5. \A q \in SkillProcs : Guards(q) => q = p
    BY <2>1 DEF SkillInv, LockInv, OneGuards, Guards
  <2>6. OneGuards'
    BY <2>2, <2>3, <2>5 DEF OneGuards, Guards
  <2>7. QED BY <1>2, <2>1, <2>2, <2>4, <2>6 DEF LockInv, SkillInv, SkillTypes
<1>7. QED BY <1>3, <1>4, <1>5, <1>6

(* A step after which every process is where it was or at a place outside   *)
(* the lock and the guard keeps the lock's invariant.                       *)
LEMMA LeavesLock ==
  ASSUME SkillInv, NEW p \in SkillProcs, UNCHANGED <<lockDir, reclaimGuard>>,
         skillProc'[p].at \in {"cleared", "refused", "done", "crashed"} \/ (InLock(p) /\ ~Guards(p) /\ skillProc'[p].at \in {"loaded", "releasing", "unlinking"}),
         \A q \in SkillProcs \ {p} : skillProc'[q].at = skillProc[q].at
  PROVE  LockInv'
<1>1. /\ InLock(p)' => InLock(p)
      /\ ~Guards(p)' /\ skillProc'[p].at # "removing"
  BY DEF InLock, Guards
<1>2. \A q \in SkillProcs : (InLock(q)' => InLock(q)) /\ (Guards(q)' => Guards(q)) /\ (skillProc'[q].at = "removing" => skillProc[q].at = "removing")
  BY <1>1 DEF InLock, Guards
<1>3. QED BY <1>2 DEF SkillInv, LockInv, OneInLock, LockIsHeld, OneGuards, RemovesDead, InLock, Guards

(* Checks before the lock read the registry and change nothing.             *)
LEMMA OpenApplyKeeps ==
  ASSUME SkillInv, NEW p \in SkillProcs, OpenForApply(p) \/ ProposeSkill(p)
  PROVE  SkillInv'
<1>1. PICK spec \in Specs, x \in {"cleared", "refused", "done"} :
        skillProc' = [skillProc EXCEPT ![p].at = x, ![p].spec = spec, ![p].data = skillFile]
  BY DEF OpenForApply, ProposeSkill
<1>2. skillProc[p].at = "new" /\ UNCHANGED <<lockDir, reclaimGuard, skillFile>>
  BY DEF OpenForApply, ProposeSkill, RegistryKept
<1>3. skillProc[p] \in SkillStates /\ skillFile \in Registries /\ skillProc[p].version = 0
  BY <1>2 DEF SkillInv, SkillTypes, LoadedInv
<1>4. /\ skillProc'[p] \in SkillStates /\ skillProc'[p].at = x /\ skillProc'[p].spec = spec /\ skillProc'[p].version = 0
  BY <1>1, <1>3 DEF SkillInv, SkillTypes, SkillStates, Places
<1>5. \A q \in SkillProcs \ {p} : skillProc'[q] = skillProc[q]
  BY <1>1 DEF SkillInv, SkillTypes
<1>6. skillProc' \in [SkillProcs -> SkillStates]
  BY <1>1, <1>4, <1>5 DEF SkillInv, SkillTypes
<1>7. LockInv'
  BY <1>2, <1>4, <1>5, LeavesLock
<1>8. LoadedInv'
  BY <1>2, <1>4, <1>5 DEF SkillInv, LoadedInv
<1>9. AppliedIsKept'
  BY <1>2, <1>3, <1>4, <1>5 DEF SkillInv, AppliedIsKept
<1>10. QED BY <1>2, <1>6, <1>7, <1>8, <1>9 DEF SkillInv, SkillTypes

(* Under the lock the registry is read as it is.                            *)
LEMMA LoadLatestKeeps ==
  ASSUME SkillInv, NEW p \in SkillProcs, LoadLatest(p)
  PROVE  SkillInv'
<1>1. /\ skillProc' = [skillProc EXCEPT ![p].at = "loaded", ![p].data = skillFile] /\ skillProc[p].at = "held"
      /\ UNCHANGED <<lockDir, reclaimGuard, skillFile>>
  BY DEF LoadLatest, RegistryKept
<1>2. skillProc[p] \in SkillStates /\ skillFile \in Registries
  BY DEF SkillInv, SkillTypes
<1>3. /\ skillProc'[p] \in SkillStates /\ skillProc'[p].at = "loaded" /\ skillProc'[p].data = skillFile
      /\ skillProc'[p].spec = skillProc[p].spec /\ skillProc'[p].version = skillProc[p].version
  BY <1>1, <1>2 DEF SkillInv, SkillTypes, SkillStates, Places
<1>4. \A q \in SkillProcs \ {p} : skillProc'[q] = skillProc[q]
  BY <1>1 DEF SkillInv, SkillTypes
<1>5. skillProc' \in [SkillProcs -> SkillStates]
  BY <1>1, <1>3, <1>4 DEF SkillInv, SkillTypes
<1>6. LockInv'
  BY <1>1, <1>3, <1>4, LeavesLock DEF InLock, Guards
<1>7. LoadedInv'
  BY <1>1, <1>3, <1>4 DEF SkillInv, LoadedInv
<1>8. AppliedIsKept'
  <2>1. \A q \in SkillProcs : skillProc'[q].version = skillProc[q].version /\ skillProc'[q].spec = skillProc[q].spec
    BY <1>3, <1>4
  <2>2. skillFile' = skillFile
    BY <1>1
  <2>3. QED BY <2>1, <2>2 DEF SkillInv, AppliedIsKept
<1>9. QED BY <1>1, <1>5, <1>6, <1>7, <1>8 DEF SkillInv, SkillTypes

(* What is written follows the file as it is, so it is one more version and *)
(* the earlier ones stay.                                                   *)
LEMMA WriteKeeps ==
  ASSUME SkillInv, NEW p \in SkillProcs, WriteRegistry(p)
  PROVE  SkillInv'
<1> DEFINE new == WithSkill(skillProc[p].data, skillProc[p].spec)
<1>1. /\ skillProc[p].at = "loaded" /\ skillProc[p].data = skillFile /\ skillProc[p].spec \in Specs
      /\ UNCHANGED <<lockDir, reclaimGuard>> /\ InLock(p) /\ ~Guards(p)
  BY DEF WriteRegistry, SkillInv, LoadedInv, InLock, Guards
<1>2. CASE SkillGoes(p, "releasing") /\ UNCHANGED skillFile
  <2>1. "releasing" \in Places
    BY DEF Places
  <2>2. /\ skillProc' \in [SkillProcs -> SkillStates]
        /\ \A q \in SkillProcs : /\ skillProc'[q].at = IF q = p THEN "releasing" ELSE skillProc[q].at
                                 /\ skillProc'[q].spec = skillProc[q].spec /\ skillProc'[q].data = skillProc[q].data
                                 /\ skillProc'[q].version = skillProc[q].version
    BY <1>2, <2>1, SkillMoves
  <2>3. LoadedInv' /\ AppliedIsKept'
    BY <1>1, <1>2, <2>2, RegistryStands
  <2>4. LockInv'
    BY <1>1, <2>2, LeavesLock
  <2>5. QED BY <1>1, <1>2, <2>2, <2>3, <2>4 DEF SkillInv, SkillTypes
<1>3. CASE skillFile' = new /\ skillProc' = [skillProc EXCEPT ![p].at = "releasing", ![p].version = new.version]
  <2>1. skillFile \in Registries /\ skillProc[p] \in SkillStates
    BY DEF SkillInv, SkillTypes
  <2>2. /\ new.version = skillFile.version + 1 /\ new.history = Append(skillFile.history, skillProc[p].spec)
        /\ new.skills = [skillFile.skills EXCEPT ![skillProc[p].spec.name] = skillProc[p].spec.body]
        /\ new = [version |-> new.version, skills |-> new.skills, history |-> new.history]
    BY <1>1 DEF WithSkill
  <2>3. new \in Registries
    <3>1. new.version \in Nat
      BY <2>1, <2>2 DEF Registries
    <3>2. new.skills \in [SkillNames -> SkillBodies \cup {NoBody}]
      BY <1>1, <2>1, <2>2 DEF Registries, Specs
    <3>3. new.history \in Seq(Specs)
      BY <1>1, <2>1, <2>2 DEF Registries
    <3> HIDE DEF new
    <3>4. QED BY <2>2, <3>1, <3>2, <3>3 DEF Registries
  <2> HIDE DEF new
  <2>4. /\ skillProc'[p] \in SkillStates /\ skillProc'[p].at = "releasing" /\ skillProc'[p].spec = skillProc[p].spec
        /\ skillProc'[p].version = new.version
    BY <1>3, <2>1, <2>3 DEF SkillInv, SkillTypes, SkillStates, Places, Registries
  <2>5. \A q \in SkillProcs \ {p} : skillProc'[q] = skillProc[q]
    BY <1>3 DEF SkillInv, SkillTypes
  <2>6. skillProc' \in [SkillProcs -> SkillStates]
    BY <1>3, <2>4, <2>5 DEF SkillInv, SkillTypes
  <2>7. LockInv'
    BY <1>1, <2>4, <2>5, LeavesLock
  <2>8. LoadedInv'
    <3>1. \A q \in SkillProcs \ {p} : skillProc[q].at # "loaded"
      BY <1>1 DEF SkillInv, LockInv, OneInLock, InLock
    <3>2. QED BY <1>1, <2>4, <2>5, <3>1 DEF SkillInv, LoadedInv
  <2>9. AppliedIsKept'
    <3>1. /\ skillFile.version \in Nat /\ skillFile.history \in Seq(Specs) /\ skillFile.version = Len(skillFile.history)
      BY <2>1 DEF Registries, SkillInv, AppliedIsKept
    <3>2. /\ Len(new.history) = skillFile.version + 1 /\ new.history[skillFile.version + 1] = skillProc[p].spec
          /\ \A i \in 1..skillFile.version : new.history[i] = skillFile.history[i]
      BY <1>1, <2>2, <3>1
    <3>3. \A q \in SkillProcs : skillProc[q].version \in Nat
      BY DEF SkillInv, SkillTypes, SkillStates
    <3>4. \A q \in SkillProcs \ {p} : skillProc[q].version > 0 => 
            /\ skillProc[q].version <= skillFile.version /\ skillProc[q].version # new.version
            /\ new.history[skillProc[q].version] = skillProc[q].spec
      BY <2>2, <3>1, <3>2, <3>3 DEF SkillInv, AppliedIsKept
    <3>5. skillFile'.version = Len(skillFile'.history)
      BY <1>3, <2>2, <3>2
    <3>6. ASSUME NEW q \in SkillProcs, skillProc'[q].version > 0
          PROVE  /\ skillProc'[q].version <= skillFile'.version
                 /\ skillFile'.history[skillProc'[q].version] = skillProc'[q].spec
                 /\ \A r \in SkillProcs \ {q} : skillProc'[r].version # skillProc'[q].version
      <4>1. CASE q = p
        <5>1. skillProc'[q].version = skillFile.version + 1 /\ skillProc'[q].spec = skillProc[p].spec
          BY <2>2, <2>4, <4>1
        <5>2. skillProc'[q].version <= skillFile'.version /\ skillFile'.history[skillProc'[q].version] = skillProc'[q].spec
          BY <1>3, <2>2, <3>1, <3>2, <5>1
        <5>3. \A r \in SkillProcs \ {q} : skillProc'[r].version # skillProc'[q].version
          BY <2>2, <2>5, <3>1, <3>3, <3>4, <4>1, <5>1
        <5>4. QED BY <5>2, <5>3
      <4>2. CASE q # p
        <5>1. skillProc'[q].version = skillProc[q].version /\ skillProc'[q].spec = skillProc[q].spec
          BY <2>5, <4>2
        <5>2. skillProc[q].version <= skillFile'.version /\ skillFile'.history[skillProc[q].version] = skillProc[q].spec
          BY <1>3, <2>2, <3>1, <3>3, <3>4, <3>6, <4>2, <5>1
        <5>3. \A r \in SkillProcs \ {q} : skillProc'[r].version # skillProc[q].version
          BY <2>4, <2>5, <3>4, <3>6, <4>2, <5>1 DEF SkillInv, AppliedIsKept
        <5>4. QED BY <5>1, <5>2, <5>3
      <4>3. QED BY <4>1, <4>2
    <3>7. QED BY <3>5, <3>6 DEF AppliedIsKept
  <2>10. QED BY <1>1, <1>3, <2>3, <2>6, <2>7, <2>8, <2>9 DEF SkillInv, SkillTypes
<1>4. QED BY <1>2, <1>3 DEF WriteRegistry

(* Releasing, dying and ageing: the one inside leaves.                      *)
LEMMA ReleaseKeeps ==
  ASSUME SkillInv, NEW p \in SkillProcs, ReleaseToken(p) \/ ReleaseDir(p)
  PROVE  SkillInv'
<1>1. PICK x \in {"unlinking", "done", "refused"} : SkillGoes(p, x)
  BY DEF ReleaseToken, ReleaseDir, Ended
<1>2. /\ skillProc[p].at \in {"releasing", "unlinking"} /\ UNCHANGED <<skillFile, reclaimGuard>>
      /\ \/ lockDir' = lockDir \/ lockDir' = [lockDir EXCEPT !.pid = NoPid, !.old = FALSE]
         \/ lockDir' = [made |-> FALSE, pid |-> NoPid, old |-> FALSE] /\ x # "unlinking"
  BY <1>1 DEF ReleaseToken, ReleaseDir, RegistryKept, Ended, SkillGoes, SkillInv, SkillTypes, SkillStates
<1>3. x \in Places
  BY DEF Places
<1>4. /\ skillProc' \in [SkillProcs -> SkillStates]
      /\ \A q \in SkillProcs : /\ skillProc'[q].at = IF q = p THEN x ELSE skillProc[q].at
                               /\ skillProc'[q].spec = skillProc[q].spec /\ skillProc'[q].data = skillProc[q].data
                               /\ skillProc'[q].version = skillProc[q].version
  BY <1>1, <1>3, SkillMoves
<1>5. LoadedInv' /\ AppliedIsKept'
  BY <1>2, <1>4, RegistryStands
<1>6. \A q \in SkillProcs : (q # p => ~InLock(q)) /\ skillProc[q].at # "removing"
  BY <1>2 DEF SkillInv, LockInv, OneInLock, RemovesDead, InLock
<1>7. lockDir.made /\ lockDir.pid \in {NoPid, p} /\ (lockDir.pid = NoPid => ~lockDir.old)
  BY <1>2 DEF SkillInv, LockInv, LockIsHeld, InLock
<1>8. /\ lockDir' \in [made : BOOLEAN, pid : SkillProcs \cup {NoPid}, old : BOOLEAN]
      /\ x = "unlinking" => lockDir'.made /\ lockDir'.pid \in {NoPid, p} /\ (lockDir'.pid = NoPid => ~lockDir'.old)
  <2>1. CASE lockDir' = lockDir
    BY <1>7, <2>1 DEF SkillInv, SkillTypes
  <2>2. CASE lockDir' = [lockDir EXCEPT !.pid = NoPid, !.old = FALSE]
    BY <1>7, <2>2 DEF SkillInv, SkillTypes
  <2>3. CASE lockDir' = [made |-> FALSE, pid |-> NoPid, old |-> FALSE] /\ x # "unlinking"
    BY <2>3
  <2>4. QED BY <1>2, <2>1, <2>2, <2>3
<1>9. OneInLock' /\ LockIsHeld' /\ RemovesDead'
  BY <1>4, <1>6, <1>8 DEF OneInLock, LockIsHeld, RemovesDead, InLock
<1>10. OneGuards'
  BY <1>2, <1>4 DEF SkillInv, LockInv, OneGuards, Guards
<1>11. QED BY <1>2, <1>4, <1>5, <1>8, <1>9, <1>10 DEF SkillInv, SkillTypes, LockInv

(* A dead process leaves its lock behind, and holds nothing.                *)
LEMMA DieKeeps ==
  ASSUME SkillInv, NEW p \in SkillProcs, DieApplying(p)
  PROVE  SkillInv'
<1>1. SkillGoes(p, "crashed") /\ skillProc[p].at # "new" /\ UNCHANGED <<lockDir, reclaimGuard, skillFile>> /\ "crashed" \in Places
  BY DEF DieApplying, RegistryKept, PidAlive, Places
<1>2. /\ skillProc' \in [SkillProcs -> SkillStates]
      /\ \A q \in SkillProcs : /\ skillProc'[q].at = IF q = p THEN "crashed" ELSE skillProc[q].at
                               /\ skillProc'[q].spec = skillProc[q].spec /\ skillProc'[q].data = skillProc[q].data
                               /\ skillProc'[q].version = skillProc[q].version
  BY <1>1, SkillMoves
<1>3. LoadedInv' /\ AppliedIsKept'
  BY <1>1, <1>2, RegistryStands
<1>4. LockInv'
  BY <1>1, <1>2, LeavesLock
<1>5. QED BY <1>1, <1>2, <1>3, <1>4 DEF SkillInv, SkillTypes

(* A lock without a token grows old only when its maker is gone.            *)
LEMMA AgesKeeps ==
  ASSUME SkillInv, LockAges
  PROVE  SkillInv'
<1>1. /\ lockDir' = [lockDir EXCEPT !.old = TRUE] /\ UNCHANGED <<reclaimGuard, skillProc, skillFile>>
      /\ lockDir.pid = NoPid => \A p \in SkillProcs : ~InLock(p)
  BY DEF LockAges, RegistryKept
<1>2. /\ lockDir' \in [made : BOOLEAN, pid : SkillProcs \cup {NoPid}, old : BOOLEAN]
      /\ lockDir'.made = lockDir.made /\ lockDir'.pid = lockDir.pid
  BY <1>1 DEF SkillInv, SkillTypes
<1>3. LockInv'
  BY <1>1, <1>2 DEF SkillInv, LockInv, OneInLock, LockIsHeld, OneGuards, RemovesDead, InLock, Guards
<1>4. LoadedInv' /\ AppliedIsKept'
  BY <1>1, RegistryStands
<1>5. QED BY <1>1, <1>2, <1>3, <1>4 DEF SkillInv, SkillTypes

(* Every step of the registry's processes keeps the invariant.              *)
LEMMA SkillStep == SkillInv /\ [SkillNext]_skillVars => SkillInv'
<1> SUFFICES ASSUME SkillInv, [SkillNext]_skillVars PROVE SkillInv'
  OBVIOUS
<1>1. CASE UNCHANGED skillVars \/ EditWritePolicy
  <2>1. UNCHANGED <<skillFile, lockDir, reclaimGuard, skillProc>>
    BY <1>1 DEF skillVars, EditWritePolicy
  <2>2. LoadedInv' /\ AppliedIsKept'
    BY <2>1, RegistryStands
  <2>3. QED BY <2>1, <2>2 DEF SkillInv, SkillTypes, LockInv, OneInLock, LockIsHeld, OneGuards, RemovesDead, InLock, Guards
<1>2. QED BY <1>1, MakeKeeps, TokenKeeps, ReclaimKeeps, OpenApplyKeeps, LoadLatestKeeps, WriteKeeps, ReleaseKeeps, DieKeeps,
             AgesKeeps DEF SkillNext, ApplyStep

(* However many processes apply skills at once, whichever of them die and   *)
(* whoever reclaims their locks: no update is lost and no version is given  *)
(* twice (registry.rs with_registry_lock, reclaim_lock).                    *)
THEOREM AppliedStays == SkillSpec => []AppliedIsKept
<1>1. SkillInv => AppliedIsKept
  BY DEF SkillInv
<1>2. QED BY <1>1, SkillStarts, SkillStep, PTL DEF SkillSpec

-----------------------------------------------------------------------------
(* A child run: for any descendants, budgets and bounds.                    *)

CallShape ==
  op = [pc |-> op.pc, action |-> op.action, planner |-> op.planner, iterations |-> op.iterations, checks |-> op.checks,
        budget |-> op.budget, temps |-> op.temps]
WorkerShape == worker = [pc |-> worker.pc, since |-> worker.since, result |-> worker.result]

(* Until the child is reaped its number is its own, and it is reaped only   *)
(* after its group was killed.                                              *)
GroupInv ==
  /\ ~strayKill
  /\ worker.pc \in {"none", "queued", "loop", "clean", "abandon", "reap", "drop", "ended"}
  /\ worker.pc \in {"loop", "clean", "abandon"} => childState \in {"running", "zombie"} /\ pidOwner = "child"
  /\ worker.pc \in {"reap", "drop"} => childState = "zombie" /\ alive = {}
  /\ worker.pc \in {"none", "queued"} => childState = "none" /\ alive = {}
  /\ worker.pc = "ended" => childState \in {"none", "reaped"} /\ alive = {}
ChildInv == CallShape /\ WorkerShape /\ GroupInv /\ BudgetCoversRun

(* Saturating sums and products lose nothing below the ceiling.             *)
LEMMA SaturatedBelow ==
  ASSUME NEW n \in Nat
  PROVE  Saturated(n) \in Nat /\ (Saturated(n) < MaxU64 => Saturated(n) = n)
BY ShimAssumption DEF Saturated

(* The saturating budget covers every iteration, or is the ceiling.         *)
LEMMA BudgetCovers ==
  ASSUME NEW p \in Nat, NEW n \in Nat, NEW c \in Nat
  PROVE  LET b == TimeoutFor("real-repo-run", p, n, c) IN
         \/ b = MaxTimeoutSec
         \/ b >= EffectiveIterations(n) * (EffectivePlanner(p) + EffectiveChecks(c) * CheckSec) + OverheadSec
<1> DEFINE i == EffectiveIterations(n)
           pl == EffectivePlanner(p)
           ch == EffectiveChecks(c)
<1>1. i \in Nat /\ pl \in Nat /\ ch \in Nat
  BY ShimAssumption DEF EffectiveIterations, EffectivePlanner, EffectiveChecks
<1>2. CheckSec \in Nat /\ OverheadSec \in Nat /\ MaxTimeoutSec \in Nat /\ MaxU64 \in Nat /\ MaxTimeoutSec <= MaxU64 /\ OverheadSec > 0
      /\ CheckSec > 0
  BY ShimAssumption
<1>3. TimeoutFor("real-repo-run", p, n, c) = IF RunBudget(p, n, c) < MaxTimeoutSec THEN RunBudget(p, n, c) ELSE MaxTimeoutSec
  BY DEF TimeoutFor
<1>4. RunBudget(p, n, c) = Saturated(Saturated(Saturated(i * pl) + Saturated(Saturated(i * ch) * CheckSec)) + OverheadSec)
  BY DEF RunBudget
<1> HIDE DEF i, pl, ch
<1> SUFFICES ASSUME RunBudget(p, n, c) < MaxTimeoutSec
             PROVE  RunBudget(p, n, c) = i * (pl + ch * CheckSec) + OverheadSec
  BY <1>1, <1>2, <1>3 DEF i, pl, ch
<1> DEFINE a == i * pl
           u == i * ch
           b == Saturated(u) * CheckSec
           d == Saturated(a) + Saturated(b)
<1>5. a \in Nat /\ u \in Nat
  BY <1>1
<1>6. Saturated(a) \in Nat /\ Saturated(u) \in Nat
  BY <1>5, SaturatedBelow
<1>7. b \in Nat /\ Saturated(b) \in Nat /\ d \in Nat /\ Saturated(d) \in Nat
  <2>1. b \in Nat
    BY <1>2, <1>6
  <2>2. Saturated(b) \in Nat
    BY <2>1, SaturatedBelow
  <2>3. d \in Nat
    BY <1>6, <2>2
  <2>4. QED BY <2>1, <2>2, <2>3, SaturatedBelow
<1>8. RunBudget(p, n, c) = Saturated(Saturated(d) + OverheadSec)
  BY <1>4
<1>9. Saturated(b) \in Nat /\ (Saturated(u) < MaxU64 => Saturated(u) = u) /\ (Saturated(u) >= MaxU64 => b >= MaxU64)
  <2>1. Saturated(u) >= MaxU64 => b >= MaxU64
    <3>1. Saturated(u) * CheckSec >= Saturated(u)
      BY <1>2, <1>6
    <3>2. QED BY <1>2, <1>6, <1>7, <3>1
  <2>2. QED BY <1>5, <1>7, <2>1, SaturatedBelow
<1> HIDE DEF a, u, b, d
<1>10. RunBudget(p, n, c) = Saturated(d) + OverheadSec /\ Saturated(d) < MaxU64
  <2>1. Saturated(d) + OverheadSec \in Nat
    BY <1>2, <1>7
  <2>2. RunBudget(p, n, c) < MaxU64
    BY <1>2, <1>8, <2>1, SaturatedBelow
  <2>3. RunBudget(p, n, c) = Saturated(d) + OverheadSec
    BY <1>8, <2>1, <2>2, SaturatedBelow
  <2>4. QED BY <1>2, <1>7, <2>2, <2>3
<1>11. Saturated(d) = Saturated(a) + Saturated(b) /\ Saturated(a) < MaxU64 /\ Saturated(b) < MaxU64
  <2>1. Saturated(d) = d
    BY <1>7, <1>10, SaturatedBelow
  <2>2. QED BY <1>2, <1>6, <1>7, <1>10, <2>1 DEF d
<1>12. Saturated(a) = a /\ Saturated(b) = b
  BY <1>5, <1>7, <1>11, SaturatedBelow
<1>13. Saturated(u) = u
  BY <1>2, <1>6, <1>7, <1>9, <1>11, <1>12
<1>14. RunBudget(p, n, c) = i * pl + (i * ch) * CheckSec + OverheadSec
  BY <1>10, <1>11, <1>12, <1>13 DEF a, u, b
<1>15. i * pl + (i * ch) * CheckSec = i * (pl + ch * CheckSec)
  BY <1>1, <1>2
<1>16. QED BY <1>14, <1>15

(* Before the first operation there is no worker and no group.              *)
LEMMA ChildStarts == ShimInit => ChildInv
BY DEF ShimInit, ChildInv, CallShape, WorkerShape, GroupInv, BudgetCoversRun, NoOp, NoShimWorker

(* The request's budget stands while it waits.                              *)
LEMMA CallStands ==
  ASSUME ChildInv, op' = op
  PROVE  CallShape' /\ BudgetCoversRun'
BY DEF ChildInv, CallShape, BudgetCoversRun

(* An accepted operation gets the budget of its own settings.               *)
LEMMA BeginChildKeeps ==
  ASSUME ChildInv, NEW s \in Accepted, Begin(s)
  PROVE  ChildInv'
<1>1. s.planner \in Nat /\ s.iterations \in Nat /\ s.checks \in Nat
  BY ShimAssumption DEF Accepted, Shapes
<1>2. /\ op' = [pc |-> "waiting", action |-> s.action, planner |-> s.planner, iterations |-> s.iterations, checks |-> s.checks,
                budget |-> TimeoutFor(s.action, s.planner, s.iterations, s.checks), temps |-> s.temps]
      /\ worker' = [NoShimWorker EXCEPT !.pc = "queued"] /\ worker.pc = "none"
      /\ UNCHANGED <<childState, alive, pidOwner, strayKill>>
  BY DEF Begin, processVars
<1>3. CallShape' /\ BudgetCoversRun'
  <2>1. op'.action = s.action /\ op'.planner = s.planner /\ op'.iterations = s.iterations /\ op'.checks = s.checks
        /\ op'.budget = TimeoutFor(s.action, s.planner, s.iterations, s.checks)
    BY <1>2
  <2>2. CallShape'
    BY <1>2 DEF CallShape
  <2>3. BudgetCoversRun'
    <3>1. CASE s.action = "real-repo-run"
      BY <1>1, <2>1, <3>1, BudgetCovers DEF BudgetCoversRun
    <3>2. CASE s.action # "real-repo-run"
      BY <2>1, <3>2 DEF BudgetCoversRun
    <3>3. QED BY <3>1, <3>2
  <2>4. QED BY <2>2, <2>3
<1>4. WorkerShape' /\ worker'.pc = "queued"
  BY <1>2 DEF WorkerShape, NoShimWorker
<1>5. GroupInv'
  BY <1>2, <1>4 DEF ChildInv, GroupInv
<1>6. QED BY <1>3, <1>4, <1>5 DEF ChildInv

(* The worker: spawn, capture, kill the group, and only then wait.          *)
LEMMA ChildWorkerKeeps ==
  ASSUME ChildInv, SpawnChild \/ WorkerTurn \/ (\E pc \in {"clean", "abandon"} : Cleanup(pc)) \/ (\E pc \in {"reap", "drop"} : Reap(pc))
  PROVE  ChildInv'
<1>1. op' = op
  BY DEF SpawnChild, WorkerTurn, Cleanup, Reap, WorkerStep
<1>2. ASSUME WorkerShape', GroupInv' PROVE ChildInv'
  BY <1>1, <1>2, CallStands DEF ChildInv
<1>3. CASE SpawnChild
  <2>1. CASE worker' = [worker EXCEPT !.pc = "loop", !.since = shimClock] /\ OwnSession /\ UNCHANGED strayKill
    <3>1. WorkerShape' /\ worker'.pc = "loop"
      BY <2>1 DEF ChildInv, WorkerShape
    <3>2. QED BY <1>2, <2>1, <3>1 DEF OwnSession, ChildInv, GroupInv
  <2>2. ASSUME NEW r, worker' = [worker EXCEPT !.pc = "ended", !.result = r], UNCHANGED processVars PROVE ChildInv'
    <3>1. WorkerShape' /\ worker'.pc = "ended" /\ worker.pc = "queued"
      BY <1>3, <2>2 DEF ChildInv, WorkerShape, SpawnChild, WorkerStep
    <3>2. QED BY <1>2, <2>2, <3>1 DEF processVars, ChildInv, GroupInv
  <2>3. QED BY <1>3, <2>1, <2>2 DEF SpawnChild
<1>4. CASE WorkerTurn
  <2>1. worker.pc = "loop" /\ UNCHANGED <<childState, alive, pidOwner, strayKill>>
    BY <1>4 DEF WorkerTurn, WorkerStep
  <2>2. worker' = worker \/ \E x \in {"abandon", "clean"}, r \in {"cancelled", "timeout", "overflow", "output"} :
                              worker' = [worker EXCEPT !.pc = x, !.result = r]
    BY <1>4 DEF WorkerTurn
  <2>3. WorkerShape' /\ worker'.pc \in {"loop", "abandon", "clean"}
    BY <2>1, <2>2 DEF ChildInv, WorkerShape
  <2>4. QED BY <1>2, <2>1, <2>3 DEF ChildInv, GroupInv
<1>5. ASSUME NEW pc \in {"clean", "abandon"}, Cleanup(pc) PROVE ChildInv'
  <2>1. worker.pc = pc /\ GroupKilled /\ worker' = [worker EXCEPT !.pc = IF pc = "clean" THEN "reap" ELSE "drop"] /\ UNCHANGED pidOwner
    BY <1>5 DEF Cleanup, WorkerStep
  <2>2. WorkerShape' /\ worker'.pc \in {"reap", "drop"}
    BY <2>1 DEF ChildInv, WorkerShape
  <2>3. childState \in {"running", "zombie"} /\ pidOwner = "child" /\ ~strayKill
    BY <2>1 DEF ChildInv, GroupInv
  <2>4. childState' = "zombie" /\ alive' = {} /\ ~strayKill'
    BY <2>1, <2>3 DEF GroupKilled
  <2>5. QED BY <1>2, <2>2, <2>4 DEF GroupInv
<1>6. ASSUME NEW pc \in {"reap", "drop"}, Reap(pc) PROVE ChildInv'
  <2>1. /\ worker.pc = pc /\ childState' = "reaped" /\ worker' = [worker EXCEPT !.pc = "ended"] /\ UNCHANGED <<alive, strayKill>>
    BY <1>6 DEF Reap, WorkerStep
  <2>2. WorkerShape' /\ worker'.pc = "ended"
    BY <2>1 DEF ChildInv, WorkerShape
  <2>3. QED BY <1>2, <2>1, <2>2 DEF ChildInv, GroupInv
<1>7. QED BY <1>3, <1>4, <1>5, <1>6

(* The end of the request and of the worker.                                *)
LEMMA CallEnds ==
  ASSUME ChildInv, WorkerReports \/ RequestGone \/ LateWorkerEnds
  PROVE  ChildInv'
<1>1. CASE WorkerReports \/ LateWorkerEnds
  <2>1. /\ op' = NoOp /\ worker' = NoShimWorker /\ worker.pc = "ended" /\ childState' = "none"
        /\ UNCHANGED <<alive, strayKill>>
    BY <1>1 DEF WorkerReports, LateWorkerEnds, Ends
  <2>2. CallShape' /\ BudgetCoversRun' /\ WorkerShape' /\ worker'.pc = "none"
    BY <2>1 DEF NoOp, NoShimWorker, CallShape, BudgetCoversRun, WorkerShape
  <2>3. QED BY <2>1, <2>2 DEF ChildInv, GroupInv
<1>2. CASE RequestGone
  <2>1. op' = [op EXCEPT !.pc = "gone"] /\ op.pc = "waiting" /\ UNCHANGED <<worker, childState, alive, pidOwner, strayKill>>
    BY <1>2 DEF RequestGone, processVars
  <2>2. /\ CallShape' /\ op'.action = op.action /\ op'.planner = op.planner /\ op'.iterations = op.iterations
        /\ op'.checks = op.checks /\ op'.budget = op.budget
    BY <2>1 DEF ChildInv, CallShape
  <2>3. BudgetCoversRun'
    BY <2>1, <2>2 DEF ChildInv, BudgetCoversRun
  <2>4. QED BY <2>1, <2>2, <2>3 DEF ChildInv, WorkerShape, GroupInv
<1>3. QED BY <1>1, <1>2

(* The processes themselves, and the clock.                                 *)
LEMMA ProcessesKeep ==
  ASSUME ChildInv, \/ ChildWrites \/ ChildForks \/ ChildExits \/ DescendantExits \/ NumberReused \/ NumberFreed \/ ShimTick
                   \/ UNCHANGED shimVars
  PROVE  ChildInv'
<1>1. UNCHANGED <<op, worker, strayKill>>
  BY DEF ChildWrites, ChildForks, ChildExits, DescendantExits, NumberReused, NumberFreed, ShimTick, shimVars, ChildStep, processVars
<1>2. GroupInv'
  <2>1. CASE ChildWrites \/ ShimTick \/ UNCHANGED shimVars
    BY <1>1, <2>1 DEF ChildWrites, ShimTick, shimVars, processVars, ChildInv, GroupInv
  <2>2. CASE ChildForks
    BY <1>1, <2>2 DEF ChildForks, ChildInv, GroupInv
  <2>3. CASE ChildExits
    BY <1>1, <2>3 DEF ChildExits, ChildInv, GroupInv
  <2>4. CASE DescendantExits
    BY <1>1, <2>4 DEF DescendantExits, ChildInv, GroupInv
  <2>5. CASE NumberReused
    BY <1>1, <2>5 DEF NumberReused, ChildInv, GroupInv
  <2>6. CASE NumberFreed
    BY <1>1, <2>6 DEF NumberFreed, ChildInv, GroupInv
  <2>7. QED BY <2>1, <2>2, <2>3, <2>4, <2>5, <2>6
<1>3. QED BY <1>1, <1>2, CallStands DEF ChildInv, WorkerShape

(* Every step of the shim keeps the invariant.                              *)
LEMMA ChildStepKeeps == ChildInv /\ [ShimNext]_shimVars => ChildInv'
BY BeginChildKeeps, ChildWorkerKeeps, CallEnds, ProcessesKeep DEF ShimNext

(* However an operation ends, its worker leaves no process of the child's   *)
(* group behind and kills no other program; and whatever is configured, the *)
(* budget covers the run or is the ceiling (process/unix.rs cleanup,        *)
(* shim/mod.rs real_repo_run_budget_sec).                                   *)
THEOREM ChildRunsAreContained == ShimSpec => [](GroupEndsOnlyItself /\ BudgetCoversRun)
<1>1. ChildInv => GroupEndsOnlyItself /\ BudgetCoversRun
  BY DEF ChildInv, GroupInv, GroupEndsOnlyItself
<1>2. QED BY <1>1, ChildStarts, ChildStepKeeps, PTL DEF ShimSpec

-----------------------------------------------------------------------------
(* The parts together: a home's other services leave each of them alone.    *)

(* A behaviour of the services is one of each of the stores.                *)
LEMMA ServicesStores ==
  /\ ServicesInit => HomeInit /\ MemoryGatesInit /\ MemoryInit /\ PersonaInit /\ KeyStoreInit
  /\ [ServicesNext]_servicesAll =>
       /\ [HomeNext]_homeVars /\ [MemoryGatesNext]_memoryGateVars /\ [MemoryNext]_memoryVars
       /\ [PersonaNext]_personaVars /\ [KeyStoreNext]_keyStoreVars
<1>1. ServicesInit => HomeInit /\ MemoryGatesInit /\ MemoryInit /\ PersonaInit /\ KeyStoreInit
  BY DEF ServicesInit
<1>2. ASSUME [ServicesNext]_servicesAll
      PROVE  /\ [HomeNext]_homeVars /\ [MemoryGatesNext]_memoryGateVars /\ [MemoryNext]_memoryVars
             /\ [PersonaNext]_personaVars /\ [KeyStoreNext]_keyStoreVars
  <2>1. CASE UNCHANGED servicesAll
    BY <2>1 DEF servicesAll
  <2>2. CASE ServicesNext
    BY <2>2 DEF ServicesNext
  <2>3. QED BY <1>2, <2>1, <2>2
<1>3. QED BY <1>1, <1>2

(* A home with all its services starts and restarts safely (StartsSafely).  *)
THEOREM HomeStartsSafely == ServicesSpec => []StartsSafely
<1>1. HomeInv => StartsSafely
  BY DEF HomeInv, HomeShape, PolicyFirst, StartsSafely
<1>2. HomeInv /\ [ServicesNext]_servicesAll => HomeInv'
  BY HomeStep, ServicesStores
<1>3. ServicesInit => HomeInv
  BY HomeStarts, ServicesStores
<1>4. QED BY <1>1, <1>2, <1>3, PTL DEF ServicesSpec

(* Its memory store is consistent with itself (MemoryStoreHolds).           *)
THEOREM MemoryStoreIsSound == ServicesSpec => []MemoryStoreHolds
<1>1. MemoryInv /\ GatesInv => MemoryStoreHolds
  BY GatesPromise DEF MemoryInv, MemoryStoreHolds
<1>2. MemoryInv /\ GatesInv /\ [ServicesNext]_servicesAll => MemoryInv' /\ GatesInv'
  BY MemoryStep, GatesStep, ServicesStores
<1>3. ServicesInit => MemoryInv /\ GatesInv
  BY MemoryStarts, GatesStart, ServicesStores
<1>4. QED BY <1>1, <1>2, <1>3, PTL DEF ServicesSpec

(* It gives nothing up or replaces it before what follows it is safe        *)
(* (ReplacementsAreSafe).                                                   *)
THEOREM NothingIsLost == ServicesSpec => ReplacementsAreSafe
<1> DEFINE Inv == MemoryInv /\ PersonaInv /\ KeyStoreInv
<1>1. ServicesInit => Inv
  BY MemoryStarts, PersonaStarts, KeyStoreStarts, ServicesStores
<1>2. Inv /\ [ServicesNext]_servicesAll => Inv'
  BY MemoryStep, PersonaStep, KeyStoreStep, ServicesStores
<1>3. Inv /\ [ServicesNext]_servicesAll => TextStep /\ EvidenceStep /\ SoulReplaceStep /\ KeyLeavesStep
  BY TextsAreReviewed, EvidenceIsKept, ReplacesKept, KeyLeaves, ServicesStores
<1> HIDE DEF Inv
<1>4. /\ [TextStep]_servicesAll => [TextStep]_memoryVars
      /\ [EvidenceStep]_servicesAll => [EvidenceStep]_memoryVars
      /\ [SoulReplaceStep]_servicesAll => [SoulReplaceStep]_personaVars
      /\ [KeyLeavesStep]_servicesAll => [KeyLeavesStep]_keyStoreVars
  BY DEF servicesAll
<1>5. ServicesSpec => /\ [][TextStep]_memoryVars /\ [][EvidenceStep]_memoryVars
                      /\ [][SoulReplaceStep]_personaVars /\ [][KeyLeavesStep]_keyStoreVars
  BY <1>1, <1>2, <1>3, <1>4, PTL DEF ServicesSpec
<1>6. QED BY <1>5, PTL DEF ReplacementsAreSafe, MigratedIsStored, ReplacedIsKept, DecidedAsReviewed, PendingEvidenceKept,
             TextStep, EvidenceStep, SoulReplaceStep, KeyLeavesStep
=============================================================================
