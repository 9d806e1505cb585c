----------------------------- MODULE MCServices -----------------------------
(*****************************************************************************)
(* The stores and services of a home, each part on its own behaviours:       *)
(* accounts, machine keys, credentials, logs, the persona, owners' files,    *)
(* structured memory and its gates, the home's startup, the skill registry,  *)
(* the request gate, and the child processes of the shim.  A behaviour picks *)
(* one part and takes only its steps, so one run asks each part's question   *)
(* without multiplying their states.                                         *)
(*****************************************************************************)
EXTENDS AccountStore, MachineKeys, KeyStore, BoundedLogs, PersonaEdits, OwnerFiles,
        StructuredMemory, MemoryGates, HomeStartup, SkillRegistry, RequestGate, ChildRun

VARIABLE part \* the part whose steps this behaviour takes

MCFactOwner == [f \in FactIds |-> IF f = "f3" THEN "bob" ELSE "alice"]
MCProposalOwner == [p \in ProposalIds |-> "alice"]
MCEpisodeOwner == [e \in EpisodeIds |-> "alice"]
FirstKeys == [n \in KeyNames |-> Unset]

MCTokens(p, m, in, out, ticks) ==
  [provider |-> p, model |-> m, input |-> in, output |-> out, cached |-> 1, reasoning |-> -1, write5m |-> -1,
   write1h |-> 1, written |-> 2, cacheRead |-> -1, ticks |-> ticks]
MCUsage == <<MCTokens("grok", "x", 4, 1, -1), MCTokens("grok", "x", 4, 1, 5), MCTokens("claude", "c", 2, 1, -1)>>
MCUnpriced == -1
MCRates ==
  [m \in {"g", "c"} |-> [input |-> <<2, 4>>, cached |-> <<1, 2>>, output |-> <<3, 6>>, threshold |-> 3, write |-> 2,
                         write1h |-> 4, cacheRead |-> 1]]

MCPart(name, ext, ok, size) ==
  [named |-> name, terminated |-> TRUE, ext |-> ext, genuine |-> ok, size |-> size, data |-> ext]
MCBodies ==
  {[declared |-> 2, size |-> 2, parts |-> <<MCPart(TRUE, "md", TRUE, 1), MCPart(TRUE, "txt", TRUE, 1)>>],
   [declared |-> NoLength, size |-> 1, parts |-> <<MCPart(TRUE, "json", TRUE, 1)>>],
   [declared |-> 3, size |-> 2, parts |-> <<MCPart(TRUE, "md", FALSE, 1), MCPart(FALSE, "md", TRUE, 1)>>]}

MCListener == [scheme |-> "https", host |-> "localhost", port |-> 8765]
MCLinesRow == [min |-> 1, max |-> 2, default |-> 1, keepZero |-> TRUE]
MCUnset == -1
MCMalformed == -2
MCSettings == {MCUnset, 1, 9}

(* The parts that rest start in one state; only the chosen one starts in   *)
(* every initial state it has.                                              *)
ServicesInit ==
  /\ part \in {"accounts", "machine keys", "key store", "logs", "persona", "files",
              "memory", "memory gates", "home", "skills", "gate", "children"}
  /\ AccountInit /\ (part # "accounts" => authFiles = (CHOOSE h \in Homes : TRUE))
  /\ KeysInit
  /\ KeyStoreInit /\ (part # "key store" => envFile = FirstKeys /\ osKeys = FirstKeys /\ ~keyMode /\ keyEnv = {})
  /\ LogsInit
  /\ PersonaInit /\ (part # "persona" => soul = Missing)
  /\ OwnerFilesInit
  /\ MemoryInit
  /\ MemoryGatesInit /\ (part # "memory gates" => gatesFile.version = 2)
  /\ HomeInit
  /\ SkillInit
  /\ GateInit
  /\ ShimInit

ServicesNext ==
  \/ /\ part = "accounts" /\ AccountNext
     /\ UNCHANGED <<part, keyVars, keyStoreVars, logsVars, personaVars, fileVars, memoryVars,
                     memoryGateVars, homeVars, skillVars, gateVars, shimVars>>
  \/ /\ part = "machine keys" /\ KeysNext
     /\ UNCHANGED <<part, accountVars, keyStoreVars, logsVars, personaVars, fileVars,
                     memoryVars, memoryGateVars, homeVars, skillVars, gateVars, shimVars>>
  \/ /\ part = "key store" /\ KeyStoreNext
     /\ UNCHANGED <<part, accountVars, keyVars, logsVars, personaVars, fileVars, memoryVars,
                     memoryGateVars, homeVars, skillVars, gateVars, shimVars>>
  \/ /\ part = "logs" /\ LogsNext
     /\ UNCHANGED <<part, accountVars, keyVars, keyStoreVars, personaVars, fileVars,
                     memoryVars, memoryGateVars, homeVars, skillVars, gateVars, shimVars>>
  \/ /\ part = "persona" /\ PersonaNext
     /\ UNCHANGED <<part, accountVars, keyVars, keyStoreVars, logsVars, fileVars, memoryVars,
                     memoryGateVars, homeVars, skillVars, gateVars, shimVars>>
  \/ /\ part = "files" /\ OwnerFilesNext
     /\ UNCHANGED <<part, accountVars, keyVars, keyStoreVars, logsVars, personaVars,
                     memoryVars, memoryGateVars, homeVars, skillVars, gateVars, shimVars>>
  \/ /\ part = "memory" /\ MemoryNext
     /\ UNCHANGED <<part, accountVars, keyVars, keyStoreVars, logsVars, personaVars, fileVars,
                     memoryGateVars, homeVars, skillVars, gateVars, shimVars>>
  \/ /\ part = "memory gates" /\ MemoryGatesNext
     /\ UNCHANGED <<part, accountVars, keyVars, keyStoreVars, logsVars, personaVars, fileVars,
                     memoryVars, homeVars, skillVars, gateVars, shimVars>>
  \/ /\ part = "home" /\ HomeNext
     /\ UNCHANGED <<part, accountVars, keyVars, keyStoreVars, logsVars, personaVars, fileVars,
                     memoryVars, memoryGateVars, skillVars, gateVars, shimVars>>
  \/ /\ part = "skills" /\ SkillNext
     /\ UNCHANGED <<part, accountVars, keyVars, keyStoreVars, logsVars, personaVars, fileVars,
                     memoryVars, memoryGateVars, homeVars, gateVars, shimVars>>
  \/ /\ part = "gate" /\ GateNext
     /\ UNCHANGED <<part, accountVars, keyVars, keyStoreVars, logsVars, personaVars, fileVars,
                     memoryVars, memoryGateVars, homeVars, skillVars, shimVars>>
  \/ /\ part = "children" /\ ShimNext
     /\ UNCHANGED <<part, accountVars, keyVars, keyStoreVars, logsVars, personaVars, fileVars,
                     memoryVars, memoryGateVars, homeVars, skillVars, gateVars>>

servicesAll == <<part, accountVars, keyVars, keyStoreVars, logsVars, personaVars, fileVars,
  memoryVars, memoryGateVars, homeVars, skillVars, gateVars, shimVars>>

(* Two states that differ only in a resting part are the same state: the    *)
(* resting parts never move.                                                *)
ServicesView ==
  CASE part = "accounts" -> <<part, accountVars>>
    [] part = "machine keys" -> <<part, keyVars>>
    [] part = "key store" -> <<part, keyStoreVars>>
    [] part = "logs" -> <<part, logsVars>>
    [] part = "persona" -> <<part, personaVars>>
    [] part = "files" -> <<part, fileVars>>
    [] part = "memory" -> <<part, memoryVars>>
    [] part = "memory gates" -> <<part, memoryGateVars>>
    [] part = "home" -> <<part, homeVars>>
    [] part = "skills" -> <<part, skillVars>>
    [] part = "gate" -> <<part, gateVars>>
    [] part = "children" -> <<part, shimVars>>

ServicesSpec == ServicesInit /\ [][ServicesNext]_servicesAll

(* Each part keeps to its state space.                                      *)
ServicesTypeOK ==
  /\ part = "accounts" => AccountTypeOK
  /\ part = "machine keys" => KeysTypeOK
  /\ part = "key store" => KeyStoreTypeOK
  /\ part = "logs" => LogsTypeOK
  /\ part = "persona" => PersonaTypeOK
  /\ part = "files" => OwnerFilesTypeOK
  /\ part = "memory" => MemoryTypeOK
  /\ part = "memory gates" => MemoryGatesTypeOK
  /\ part = "home" => HomeTypeOK
  /\ part = "skills" => SkillTypeOK
  /\ part = "gate" => GateTypeOK
  /\ part = "children" => ShimTypeOK

(* Someone can always administer the home, and only live sessions are       *)
(* served: an enabled administrator with a password is left by every        *)
(* update, and every request admitted came within the idle and absolute     *)
(* limits of the account as it was then (auth_store.rs).                    *)
AccountsHold == part = "accounts" => AdminCanSignIn /\ AdmittedIsLive

(* What an operation reports is what is on disk: a refused key update left  *)
(* the keys as they were, a soul edit's outcome is the file's, a listed     *)
(* blob can be read, a spend summary that calls itself complete is, and a   *)
(* skill reported as applied is kept (env_keys.rs, persona.rs,              *)
(* attachments.rs, spend.rs, registry.rs).                                  *)
ReportedIsStored ==
  /\ part = "key store" => RefusedUpdateRollsBack
  /\ part = "persona" => OutcomeIsTrue
  /\ part = "files" => ListedIsReadable
  /\ part = "logs" => SummaryIsHonest
  /\ part = "skills" => AppliedIsKept

(* Rotation never drops the newest rows, and what a child process of the    *)
(* server logs follows what the server had logged before it started it      *)
(* (bounded_log.rs, audit.rs).                                              *)
LogsInOrder == part = "logs" => NewestKept /\ ChildFollowsServer

(* The memory store is consistent with itself: its search index holds       *)
(* exactly the active facts, a database that held facts is never replaced   *)
(* by an empty one without the operator's word, and one consolidation       *)
(* worker runs (structured_memory.rs, structured_memory_auto.rs).           *)
MemoryStoreHolds ==
  /\ part = "memory" => IndexMatches
  /\ part = "memory gates" => NoSilentReset /\ OneAutoWorker

(* Starting and restarting a home is safe: a crash while it is seeded       *)
(* leaves nothing half seeded, a cloud model answers only after a choice    *)
(* made since the file was written, and the CLI's cookie goes to this       *)
(* home's server only (home.rs, mod.rs, local_tls.rs).                      *)
StartsSafely == part = "home" => SeedSurvivesCrash /\ CloudNeedsFreshChoice /\ CookieStaysHome

(* Work stays within its limits: machine keys never start more blocking     *)
(* work than permits exist, a client that waits as Retry-After tells it is  *)
(* admitted, and a child run ends what it started and nothing else, inside  *)
(* a budget that covers it (mcp_server.rs, ratelimit.rs, process/unix.rs,   *)
(* shim/mod.rs).                                                            *)
WorkIsBounded ==
  /\ part = "machine keys" => BlockingWorkBounded
  /\ part = "gate" => RetrySuffices
  /\ part = "children" => GroupEndsOnlyItself /\ BudgetCoversRun

(* Nothing is given up or replaced before what follows it is safe: a key    *)
(* leaves the file only when the credential store holds it, a soul is       *)
(* replaced only when a backup exists, a proposal is decided on the state   *)
(* it was reviewed against, and the evidence of a pending one is not        *)
(* pruned (env_keys.rs, persona.rs, structured_memory.rs).                  *)
ReplacementsAreSafe ==
  /\ MigratedIsStored /\ ReplacedIsKept
  /\ DecidedAsReviewed /\ PendingEvidenceKept
=============================================================================
