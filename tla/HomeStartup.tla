----------------------------- MODULE HomeStartup -----------------------------
(***************************************************************************)
(* One home across processes: the server starting and stopping (serve_blocking  *)
(* and build_app in server/mod.rs, server/desktop.rs), the layout it seeds      *)
(* (common/home.rs), the lock it holds (common/home_lock.rs, file_lease.rs),    *)
(* its TLS bundle (server/transport.rs) and the command-line client that pins   *)
(* that certificate and keeps a saved session (server/client.rs, local_tls.rs). *)
(*                                                                            *)
(* Every file write is atomic; the process may end, or a write may fail and     *)
(* end it, between any two.  TLS is on and its material generated; a            *)
(* certificate is its number, held by the server that loaded it.                *)
(***************************************************************************)
EXTENDS Integers, FiniteSets

CONSTANTS
    LocalModels,     \* values of models.local_llm.model
    CloudModels,     \* configured cloud providers
    SeedModel,       \* the model of the embedded default config
    MaxStarts, MaxCertificates, MaxHomeEdits, MaxCliRuns   \* bounds

NoModel == ""   \* nothing selected, nothing recorded
ASSUME HomeAssumption ==
    /\ SeedModel \in LocalModels /\ LocalModels \cap CloudModels = {}
    /\ NoModel \notin LocalModels \cup CloudModels /\ "missing" \notin LocalModels
    /\ MaxCertificates \in Nat

VARIABLES
    policyFile,     \* tools/web_allowlist.json: "missing", "seeded" or "removed" by the operator
    configYaml,     \* config.yaml: "missing", or the model it names
    registryFile,   \* skills_registry.json and the seeded skills are there
    harnessJson,    \* harness.json: [present, selected, config]
    bundle,         \* tls/server.pem: its certificate, 0 when missing
    homeLock,       \* .server.lock: "none", "server" or "renew"
    server,         \* [pc, entry, cfg, settings, cert, port]
    renewPc,        \* the renewing process
    ports,          \* ports[p]: "free", "server" or "foreign"
    confirmed,      \* cloud providers confirmed since this process started
    cliFile,        \* cli-session.json: [present, port, cert]
    cli,            \* the client: [pc, port, cert, session]
    sentTo,         \* whom this step sent the session cookie to
    starts, homeEdits, cliRuns

homeVars == <<policyFile, configYaml, registryFile, harnessJson, bundle, homeLock, server, renewPc, ports, confirmed, cliFile, cli, sentTo, starts, homeEdits, cliRuns>>
layoutVars == <<policyFile, configYaml, registryFile>>
cliVars == <<cliFile, cli, cliRuns>>

ServePort == 1      \* settings.port, or the override
DesktopPort == 2    \* an ephemeral port
NoSettings == [present |-> FALSE, selected |-> NoModel, config |-> NoModel]
DefaultSettings == [present |-> TRUE, selected |-> NoModel, config |-> NoModel]
StoppedServer == [pc |-> "stopped", entry |-> "serve", cfg |-> NoModel, settings |-> NoSettings, cert |-> 0, port |-> 0]
IdleCli == [pc |-> "idle", port |-> 0, cert |-> 0, session |-> FALSE]

GoServer(pc) == server' = [server EXCEPT !.pc = pc]
Released == IF homeLock = "server" THEN "none" ELSE homeLock
FreedPorts == [p \in DOMAIN ports |-> IF ports[p] = "server" THEN "free" ELSE ports[p]]
Exit == server' = StoppedServer /\ homeLock' = Released /\ ports' = FreedPorts /\ confirmed' = {}
Stay == UNCHANGED <<homeLock, ports, confirmed>>

(* ------------------------------- home and layout ------------------------------- *)
(* HomeLock::acquire: refused at once while any process holds the lease.              *)
HomeFree == homeLock = "none"
AcquireLock(entry) ==
    /\ server.pc = "stopped" /\ HomeFree /\ starts < MaxStarts
    /\ starts' = starts + 1 /\ homeLock' = "server" /\ sentTo' = "none"
    /\ server' = [StoppedServer EXCEPT !.pc = "policy", !.entry = entry]
    /\ UNCHANGED <<harnessJson, bundle, renewPc, ports, confirmed, homeEdits>> /\ UNCHANGED layoutVars /\ UNCHANGED cliVars

Step(pc) == server.pc = pc /\ sentTo' = "none" /\ UNCHANGED <<renewPc, starts, homeEdits>> /\ UNCHANGED cliVars
(* ensure_layout: only a home without a config is new; its policy is written first.   *)
SeedPolicy ==
    /\ Step("policy") /\ Stay /\ GoServer("config")
    /\ policyFile' = IF configYaml = "missing" /\ policyFile # "seeded" THEN "seeded" ELSE policyFile
    /\ UNCHANGED <<configYaml, registryFile, harnessJson, bundle>>
SeedConfig ==
    /\ Step("config") /\ Stay /\ GoServer("registry")
    /\ configYaml' = IF configYaml = "missing" THEN SeedModel ELSE configYaml
    /\ UNCHANGED <<policyFile, registryFile, harnessJson, bundle>>
SeedRegistry ==
    /\ Step("registry") /\ Stay /\ GoServer("settings")
    /\ registryFile' = TRUE /\ UNCHANGED <<policyFile, configYaml, harnessJson, bundle>>

(* ------------------------------------ startup ------------------------------------ *)
(* HarnessSettings::load saves the defaults of a home that has none.                     *)
LoadSettings ==
    /\ Step("settings") /\ Stay
    /\ harnessJson' = IF harnessJson.present THEN harnessJson ELSE DefaultSettings
    /\ server' = [server EXCEPT !.pc = "probe", !.settings = harnessJson']
    /\ UNCHANGED <<bundle>> /\ UNCHANGED layoutVars
(* port_in_use, only where the port is a fixed one; then the config is read.              *)
ProbePort ==
    /\ Step("probe")
    /\ IF server.entry = "serve" /\ ports[ServePort] # "free" THEN Exit
       ELSE server' = [server EXCEPT !.pc = "build", !.cfg = configYaml] /\ Stay
    /\ UNCHANGED <<harnessJson, bundle>> /\ UNCHANGED layoutVars
(* build_app: a saved selection is dropped when it is a cloud one, or was made for         *)
(* another configured model, or by a home that did not record for which.                   *)
CloudReset(s) == s.selected \in CloudModels
SelectionStale(s, configured) ==
    s.selected # NoModel /\ (CloudReset(s) \/ (IF s.config = NoModel THEN s.selected # configured ELSE s.config # configured))
ResetSettings(s, configured) == [s EXCEPT !.selected = IF SelectionStale(s, configured) THEN NoModel ELSE @, !.config = configured]
BuildApp ==
    /\ Step("build") /\ Stay
    /\ server' = [server EXCEPT !.pc = "tls", !.settings = ResetSettings(@, server.cfg)]
    /\ harnessJson' = ResetSettings(server.settings, server.cfg)
    /\ UNCHANGED bundle /\ UNCHANGED layoutVars
(* Transport::load: a missing bundle is generated, as one file; an existing one is read.    *)
LoadTls ==
    /\ Step("tls") /\ Stay /\ (bundle = 0 => bundle < MaxCertificates)
    /\ bundle' = IF bundle = 0 THEN 1 ELSE bundle
    /\ server' = [server EXCEPT !.pc = "bind", !.cert = bundle']
    /\ UNCHANGED harnessJson /\ UNCHANGED layoutVars
(* The listener binds, or another program took the port since the probe.                    *)
Bind ==
    LET p == IF server.entry = "serve" THEN ServePort ELSE DesktopPort IN
    /\ Step("bind")
    /\ IF ports[p] = "free" THEN /\ server' = [server EXCEPT !.pc = "serving", !.port = p] /\ ports' = [ports EXCEPT ![p] = "server"]
                                 /\ UNCHANGED <<homeLock, confirmed>>
       ELSE Exit
    /\ UNCHANGED <<harnessJson, bundle>> /\ UNCHANGED layoutVars

(* The operator selects a model: saved with the configured model it was chosen under;       *)
(* a cloud one is confirmed, or was since this process started.                              *)
SelectModel(m) ==
    /\ Step("serving") /\ UNCHANGED <<homeLock, ports, bundle>> /\ UNCHANGED layoutVars
    /\ \/ m \in LocalModels /\ UNCHANGED confirmed
       \/ m \in CloudModels /\ confirmed' = confirmed \cup {m}
    /\ harnessJson' = [server.settings EXCEPT !.selected = m, !.config = server.cfg]
    /\ server' = [server EXCEPT !.settings = harnessJson']

(* Ctrl-C or SIGTERM; a desktop's shutdown frame or the end of its pipe; a crash, or an      *)
(* error of a startup step.                                                                  *)
Stop == server.pc # "stopped" /\ Step(server.pc) /\ Exit /\ UNCHANGED <<harnessJson, bundle>> /\ UNCHANGED layoutVars

(* tls renew: while it holds the home lock, so never under a server.                         *)
RenewStart ==
    /\ renewPc = "idle" /\ HomeFree /\ configYaml # "missing" /\ bundle < MaxCertificates
    /\ renewPc' = "write" /\ homeLock' = "renew" /\ sentTo' = "none"
    /\ UNCHANGED <<harnessJson, bundle, server, ports, confirmed, starts, homeEdits>> /\ UNCHANGED layoutVars /\ UNCHANGED cliVars
RenewWrite ==
    /\ renewPc = "write" /\ renewPc' = "idle" /\ homeLock' = "none" /\ sentTo' = "none"
    /\ bundle' \in {bundle, bundle + 1}
    /\ UNCHANGED <<harnessJson, server, ports, confirmed, starts, homeEdits>> /\ UNCHANGED layoutVars /\ UNCHANGED cliVars

(* ------------------------------------ the client ------------------------------------ *)
(* Portal::open: the certificate is read from the home and the saved session must be of    *)
(* this origin and certificate.                                                            *)
SessionMatches(port) == cliFile.port = port /\ cliFile.cert = bundle
CliOpen(port, useSession) ==
    /\ cli.pc = "idle" /\ cliRuns < MaxCliRuns /\ configYaml # "missing" /\ bundle # 0
    /\ useSession /\ cliFile.present => SessionMatches(port)
    /\ cliRuns' = cliRuns + 1 /\ sentTo' = "none" /\ UNCHANGED cliFile
    /\ cli' = [pc |-> "page", port |-> port, cert |-> bundle, session |-> useSession /\ cliFile.present]
    /\ UNCHANGED <<harnessJson, bundle, homeLock, server, renewPc, ports, confirmed, starts, homeEdits>> /\ UNCHANGED layoutVars
(* OwnedCertificate: exactly the pinned leaf, whose key the listener must hold.             *)
MutVerifyServer(port, cert) == ports[port] # "free"
VerifyServer(port, cert) == ports[port] = "server" /\ server.port = port /\ server.cert = cert
CliStep(pc) == cli.pc = pc /\ UNCHANGED <<harnessJson, bundle, homeLock, server, renewPc, ports, confirmed, starts, homeEdits, cliRuns>> /\ UNCHANGED layoutVars
CliPage ==
    /\ CliStep("page") /\ UNCHANGED cliFile /\ sentTo' = "none"
    /\ cli' = IF VerifyServer(cli.port, cli.cert) THEN [cli EXCEPT !.pc = "call"] ELSE IdleCli
(* call: with the saved cookie; the reply may set one, or end it, or neither.               *)
CliCall ==
    /\ CliStep("call")
    /\ IF VerifyServer(cli.port, cli.cert)
       THEN /\ sentTo' = IF cli.session THEN ports[cli.port] ELSE "none"
            /\ \/ cli' = [cli EXCEPT !.pc = "save"] /\ UNCHANGED cliFile
               \/ cli' = IdleCli /\ cliFile' \in {cliFile, [cliFile EXCEPT !.present = FALSE]}
       ELSE cli' = IdleCli /\ sentTo' = "none" /\ UNCHANGED cliFile
(* The new cookie is saved with the certificate the home holds by then.                     *)
CliSave ==
    /\ CliStep("save") /\ cli' = IdleCli /\ sentTo' = "none"
    /\ cliFile' = [present |-> TRUE, port |-> cli.port, cert |-> bundle]

(* ---------------------------------- the environment ---------------------------------- *)
Environment == homeEdits < MaxHomeEdits /\ homeEdits' = homeEdits + 1 /\ sentTo' = "none" /\ UNCHANGED <<registryFile, harnessJson, bundle, homeLock, server, renewPc, confirmed, starts>> /\ UNCHANGED cliVars
OperatorEditsConfig == Environment /\ configYaml # "missing" /\ configYaml' \in LocalModels \ {configYaml} /\ UNCHANGED <<policyFile, ports>>
OperatorRemovesPolicy == Environment /\ policyFile = "seeded" /\ policyFile' = "removed" /\ UNCHANGED <<configYaml, ports>>
ForeignBinds == Environment /\ \E p \in DOMAIN ports : ports[p] = "free" /\ ports' = [ports EXCEPT ![p] = "foreign"] /\ UNCHANGED <<policyFile, configYaml>>
ForeignLeaves == Environment /\ \E p \in DOMAIN ports : ports[p] = "foreign" /\ ports' = [ports EXCEPT ![p] = "free"] /\ UNCHANGED <<policyFile, configYaml>>

HomeInit ==
    /\ policyFile = "missing" /\ configYaml = "missing" /\ registryFile = FALSE /\ harnessJson = NoSettings
    /\ bundle = 0 /\ homeLock = "none" /\ server = StoppedServer /\ renewPc = "idle"
    /\ ports = [p \in {ServePort, DesktopPort} |-> "free"] /\ confirmed = {}
    /\ cliFile = [present |-> FALSE, port |-> 0, cert |-> 0] /\ cli = IdleCli /\ sentTo = "none"
    /\ starts = 0 /\ homeEdits = 0 /\ cliRuns = 0
HomeNext ==
    \/ \E entry \in {"serve", "desktop"} : AcquireLock(entry)
    \/ SeedPolicy \/ SeedConfig \/ SeedRegistry \/ LoadSettings \/ ProbePort \/ BuildApp \/ LoadTls \/ Bind \/ Stop
    \/ \E m \in LocalModels \cup CloudModels : SelectModel(m)
    \/ RenewStart \/ RenewWrite
    \/ \E p \in {ServePort, DesktopPort}, u \in BOOLEAN : CliOpen(p, u)
    \/ CliPage \/ CliCall \/ CliSave
    \/ OperatorEditsConfig \/ OperatorRemovesPolicy \/ ForeignBinds \/ ForeignLeaves
HomeSpec == HomeInit /\ [][HomeNext]_homeVars

HomeTypeOK ==
    /\ policyFile \in {"missing", "seeded", "removed"} /\ configYaml \in {"missing"} \cup LocalModels
    /\ bundle \in 0..MaxCertificates /\ homeLock \in {"none", "server", "renew"}
    /\ (server.pc # "stopped") = (homeLock = "server") /\ (renewPc = "write") = (homeLock = "renew")
    /\ sentTo \in {"none", "server", "foreign"}

(* However often seeding was cut short, a home that has its config has the policy that      *)
(* was seeded with it: the next start takes it for an existing home and seeds nothing more  *)
(* (ensure_layout).                                                                         *)
SeedSurvivesCrash == configYaml # "missing" => policyFile # "missing"

(* A server uses a cloud model only if the operator confirmed it since that process          *)
(* started: no saved selection, whatever model it was saved under, brings one back.          *)
CloudNeedsFreshChoice == server.pc \in {"tls", "bind", "serving"} /\ server.settings.selected \in CloudModels => server.settings.selected \in confirmed

(* The saved session cookie reaches no listener but this home's own server, whoever holds    *)
(* the port when the client connects and whenever the certificate was renewed.               *)
CookieStaysHome == sentTo # "foreign"
==============================================================================
