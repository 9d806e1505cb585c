------------------------------- MODULE MCTurn -------------------------------
(*****************************************************************************)
(* What serves one console turn, each part on its own behaviours: the chat   *)
(* turn, the web turn with its reads, searches and research jobs, calls to   *)
(* models and the window they must fit, the prompt and its excerpts, the     *)
(* stored sessions with their staged goals, and the runs that take turns of  *)
(* their own.  A behaviour picks one part and takes only its steps, so one   *)
(* run asks each part's question without multiplying their states.           *)
(*****************************************************************************)
EXTENDS ChatTurns, WebTurn, WebAccess, SearchProviders, WebResearch, ModelCalls, ModelWindow,
        PromptParts, TurnExcerpts, SessionGoals, LoopRuns

VARIABLE part \* the part whose steps this behaviour takes

Past == <<"p1", "p2", "p3">>
MCSessionOf == [r \in Runs |-> "s1"]
MCUrls == {"u1", "u2"}
MCPatterns == {"page", "site"}
MCCovers == [p \in MCPatterns |-> IF p = "page" THEN {"u1"} ELSE {"u1", "u2"}]
MCSeedsOf == [p \in MCPatterns |-> IF p = "page" THEN {"u1"} ELSE {}]
MCLinks == [u \in MCUrls |-> IF u = "u1" THEN {"u2"} ELSE {}]
MCOrigin == [u \in MCUrls |-> "o"]
Rules(ps) == {[pattern |-> p, group |-> "docs"] : p \in ps}
MCPolicyFiles == {EmptyPolicy, [EmptyPolicy EXCEPT !.file = "valid", !.rules = Rules({"page"}), !.blocked = {"page"}],
                  [EmptyPolicy EXCEPT !.file = "valid", !.rules = Rules({"page", "site"})]}
MCSavedCaches == {<<>>, <<"u1">>}
MCProviders == {[first |-> f, toSerpapi |-> s, toPublic |-> p] : f \in {"auto", "public", "serpapi", "tavily"}, s, p \in BOOLEAN}
MCSessionOwner == [s1 |-> "ann", s2 |-> "ann"]
MCFileOwner == [f1 |-> "ann", f2 |-> "ann"]
MCBuiltin == [concise |-> 2]

(* The parts that rest start in one state; only the chosen one starts in   *)
(* every initial state it has.                                              *)
TurnInit ==
  /\ part \in {"chat", "web turn", "web access", "search", "research", "calls", "window",
              "prompt", "excerpts", "goals", "loops"}
  /\ ChatInit
  /\ WebTurnInit
  /\ AccessInit /\ (part # "web access" => policy = EmptyPolicy /\ cache = <<>>)
  /\ SearchInit /\ (part # "search" => provider = (CHOOSE p \in Providers : TRUE) /\ savedKey = NoKey)
  /\ ResearchInit
  /\ CallsInit
  /\ WindowInit /\ (part # "window" => chatProvider = ResolveBackend(TRUE, TRUE) /\ webBudget = 4)
  /\ PromptInit /\ (part # "prompt" => soulSize = 0 /\ ~factsOn /\ ~callerAuditor)
  /\ ExcerptInit
  /\ SessionInit /\ (part # "goals" => \A s \in StoredIds : sessionFile[s] = NoStored)
  /\ LoopInit

TurnNext ==
  \/ /\ part = "chat" /\ ChatNext
     /\ UNCHANGED <<part, webVars, accessVars, searchVars, researchVars, callVars, windowVars,
                     promptVars, excerptVars, sessionVars, loopVars>>
  \/ /\ part = "web turn" /\ WebTurnNext
     /\ UNCHANGED <<part, chatVars, accessVars, searchVars, researchVars, callVars, windowVars,
                     promptVars, excerptVars, sessionVars, loopVars>>
  \/ /\ part = "web access" /\ AccessNext
     /\ UNCHANGED <<part, chatVars, webVars, searchVars, researchVars, callVars, windowVars,
                     promptVars, excerptVars, sessionVars, loopVars>>
  \/ /\ part = "search" /\ SearchNext
     /\ UNCHANGED <<part, chatVars, webVars, accessVars, researchVars, callVars, windowVars,
                     promptVars, excerptVars, sessionVars, loopVars>>
  \/ /\ part = "research" /\ ResearchNext
     /\ UNCHANGED <<part, chatVars, webVars, accessVars, searchVars, callVars, windowVars,
                     promptVars, excerptVars, sessionVars, loopVars>>
  \/ /\ part = "calls" /\ CallsNext
     /\ UNCHANGED <<part, chatVars, webVars, accessVars, searchVars, researchVars, windowVars,
                     promptVars, excerptVars, sessionVars, loopVars>>
  \/ /\ part = "window" /\ WindowNext
     /\ UNCHANGED <<part, chatVars, webVars, accessVars, searchVars, researchVars, callVars,
                     promptVars, excerptVars, sessionVars, loopVars>>
  \/ /\ part = "prompt" /\ PromptNext
     /\ UNCHANGED <<part, chatVars, webVars, accessVars, searchVars, researchVars, callVars,
                     windowVars, excerptVars, sessionVars, loopVars>>
  \/ /\ part = "excerpts" /\ ExcerptNext
     /\ UNCHANGED <<part, chatVars, webVars, accessVars, searchVars, researchVars, callVars,
                     windowVars, promptVars, sessionVars, loopVars>>
  \/ /\ part = "goals" /\ SessionNext
     /\ UNCHANGED <<part, chatVars, webVars, accessVars, searchVars, researchVars, callVars,
                     windowVars, promptVars, excerptVars, loopVars>>
  \/ /\ part = "loops" /\ LoopNext
     /\ UNCHANGED <<part, chatVars, webVars, accessVars, searchVars, researchVars, callVars,
                     windowVars, promptVars, excerptVars, sessionVars>>

turnAll == <<part, chatVars, webVars, accessVars, searchVars, researchVars, callVars,
  windowVars, promptVars, excerptVars, sessionVars, loopVars>>

(* Two states that differ only in a resting part are the same state: the    *)
(* resting parts never move.                                                *)
TurnView ==
  CASE part = "chat" -> <<part, chatVars>>
    [] part = "web turn" -> <<part, webVars>>
    [] part = "web access" -> <<part, accessVars>>
    [] part = "search" -> <<part, searchVars>>
    [] part = "research" -> <<part, researchVars>>
    [] part = "calls" -> <<part, callVars>>
    [] part = "window" -> <<part, windowVars>>
    [] part = "prompt" -> <<part, promptVars>>
    [] part = "excerpts" -> <<part, excerptVars>>
    [] part = "goals" -> <<part, sessionVars>>
    [] part = "loops" -> <<part, loopVars>>

TurnSpec == TurnInit /\ [][TurnNext]_turnAll

(* Each part keeps to its state space.                                      *)
TurnTypeOK ==
  /\ part = "chat" => ChatTypeOK
  /\ part = "web turn" => WebTurnTypeOK
  /\ part = "web access" => AccessTypeOK
  /\ part = "search" => SearchTypeOK
  /\ part = "research" => ResearchTypeOK
  /\ part = "calls" => CallsTypeOK
  /\ part = "window" => WindowTypeOK
  /\ part = "prompt" => PromptTypeOK
  /\ part = "excerpts" => ExcerptTypeOK
  /\ part = "goals" => SessionTypeOK
  /\ part = "loops" => LoopTypeOK

(* A chat keeps one account of itself: a reply that comes late is added to  *)
(* what is stored by then, and the prompt sent is the system prompt and     *)
(* whole exchanges in order (sessions.rs record_exchange_inner,             *)
(* compaction.rs compact_messages).                                         *)
HistoryIsWhole == part = "chat" => LateReplyIsAdded /\ PromptWellFormed

(* What a turn spends or carries counts once: a row of spend drained into   *)
(* a session, a model call charged to its budget, a staged excerpt put      *)
(* into a prompt (sessions.rs, cloud_chat.rs, diag_reader.rs for_turn).     *)
OncePerTurn ==
  /\ part = "chat" => SpendOnce
  /\ part = "calls" => BilledOnce
  /\ part = "excerpts" => ExcerptOnce

(* Nothing a turn reads of the web passes its limits: the follow-up prompt  *)
(* always fits, the rounds suffice for the reads allowed, a run's bytes     *)
(* hold with every fallback, a provider's later hops keep the time          *)
(* reserved for them, and a research job keeps what its answer needs        *)
(* (chat_web.rs, web_firecrawl.rs, web_provider.rs, web_research.rs).       *)
WebBudgetsHold ==
  /\ part = "web turn" => RoundsSuffice /\ FollowUpFits
  /\ part = "web access" => RunBytesHold
  /\ part = "search" => ReserveKept
  /\ part = "research" => BudgetReserved

(* No prompt is larger than what receives it: a turn sized for one window   *)
(* is not sent to a smaller one, history is compacted before a turn would   *)
(* be refused, the prompt's parts keep their shared caps and are the ones   *)
(* /api/prompt shows, and a session keeps its pins (state.rs,               *)
(* compaction.rs, persona.rs preview, retrieval.rs).                        *)
PromptsFit ==
  /\ part = "window" => SentFitsWindow /\ TriggerBeforeLimit
  /\ part = "prompt" => SharedCapsHold /\ PreviewMatchesTurn
  /\ part = "excerpts" => PinsFit

(* A job belongs to the run that was asked for: one staged goal has one     *)
(* job and what the list shows is current, and a research job in state      *)
(* running has a task that runs it (sessions.rs stage claims,               *)
(* web_research.rs).                                                        *)
JobsAreBound ==
  /\ part = "goals" => OneJobPerStage /\ ListIsCurrent
  /\ part = "research" => RunningJobRuns

(* A revoked page is not used: no read of it is delivered and no research   *)
(* answer rests on it, although the revocation may come between any two     *)
(* steps (web_search.rs, web_research.rs).                                  *)
RevocationWins == RevokedIsUnread /\ RevokedIsWithheld
=============================================================================
