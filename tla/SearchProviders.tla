--------------------------- MODULE SearchProviders ---------------------------
(***************************************************************************)
(* One chat `web_search': the hops it plans over the providers, the deadline   *)
(* they share, the pause after a refusal, the pacing of public Google and the  *)
(* rechecks of key and permission before a listing is returned                 *)
(* (server/web_google.rs, web_provider.rs, web_tavily.rs).                     *)
(*                                                                             *)
(* Time is a small clock; the search gate admits one search at a time.         *)
(***************************************************************************)
EXTENDS Integers, Sequences, FiniteSets

CONSTANTS
    Providers,       \* configurations: [first, toSerpapi, toPublic]
    RequestTime,     \* web.request_seconds
    Pace,            \* max(web.pace_ms, PUBLIC_SEARCH_PACE_FLOOR_MS)
    PublicReserve,   \* Pace and one second
    PublicPause, QuotaPause,   \* search_cooldown_public_sec, search_cooldown_quota_sec (0: next hour)
    Hour, AlertPerHour,
    Keys, NoKey,     \* saved SerpAPI keys
    MaxTime, MaxSearches, MaxKeyChanges  \* bounds

ASSUME SearchAssumption ==
    /\ Providers \subseteq [first : {"auto", "public", "serpapi", "tavily"}, toSerpapi : BOOLEAN, toPublic : BOOLEAN]
    /\ RequestTime \in Nat \ {0} /\ Pace \in Nat /\ PublicReserve = Pace + 1
    /\ PublicPause \in Nat /\ QuotaPause \in Nat /\ Hour \in Nat \ {0} /\ NoKey \in Keys

VARIABLES
    provider,    \* web.search.*, restart-only
    time,
    savedKey,    \* the SerpAPI key in the store
    googleRule,  \* the URL policy: permits public Google, and its revision
    pauses,      \* SearchCooldown: hop -> end of its pause
    publicSent,  \* when the last public request left
    burst,       \* FallbackBurst: [hour, count, alerted]
    search,      \* google_search_at's local state
    searches, keyChanges

searchVars == <<provider, time, savedKey, googleRule, pauses, publicSent, burst, search, searches, keyChanges>>

Hops == {"tavily", "serpapi", "public"}
Never == 0 - (Pace + RequestTime)
NoSearch == [pc |-> "idle", hops |-> <<>>, from |-> 0, deadline |-> 0, hopEnd |-> 0, key |-> NoKey, rule |-> [ok |-> FALSE, rev |-> 0]]
Local(s) ==
    /\ search' = s
    /\ UNCHANGED <<provider, time, savedKey, googleRule, pauses, publicSent, burst, searches, keyChanges>>

(* plan_hops                                                                    *)
First(key) ==
    CASE provider.first = "auto"   -> IF key # NoKey THEN "serpapi" ELSE "public"
      [] provider.first = "public" -> "public"
      [] OTHER                     -> provider.first
PlanHops(key) ==
    LET first == First(key)
    IN  IF first = "public" THEN <<"public">>
        ELSE <<first>> \o (IF first = "tavily" /\ provider.toSerpapi /\ key # NoKey THEN <<"serpapi">> ELSE <<>>)
                       \o (IF provider.toPublic THEN <<"public">> ELSE <<>>)

(* hop_budget: unused time is lent forward, a paced public request reserved.    *)
HopBudget(remaining, hops) ==
    IF Len(hops) <= 1 THEN remaining
    ELSE IF hops[Len(hops)] = "public" /\ remaining > PublicReserve
         THEN (remaining - PublicReserve) \div (Len(hops) - 1)
         ELSE remaining \div Len(hops)

FallsThrough(hop, code) == hop # "public" /\ code \in {"provider", "timeout", "cooldown", "quota"}

CooldownSeconds(hop, code) ==
    IF hop = "public" /\ code \in {"challenge", "blocked"} THEN PublicPause
    ELSE IF hop # "public" /\ code = "quota" THEN (IF QuotaPause = 0 THEN Hour - (time % Hour) ELSE QuotaPause)
    ELSE 0
Holding(hop) == pauses[hop] > time

(* FallbackBurst::note                                                           *)
Noted(b) ==
    LET hour == time - (time % Hour)
        c    == IF b.hour = hour THEN b ELSE [hour |-> hour, count |-> 0, alerted |-> FALSE]
    IN  [c EXCEPT !.count = @ + 1, !.alerted = @ \/ c.count + 1 > AlertPerHour]

(* A missing key of a forced provider refuses before the gate is taken.         *)
StartSearch ==
    LET needsKey == provider.first \in {"auto", "serpapi"} \/ (provider.first = "tavily" /\ provider.toSerpapi)
        key      == IF needsKey THEN savedKey ELSE NoKey
    IN  /\ search.pc = "idle" /\ searches < MaxSearches
        /\ provider.first = "serpapi" => key # NoKey
        /\ searches' = searches + 1
        /\ search' = [NoSearch EXCEPT !.pc = "hop", !.hops = PlanHops(key), !.key = key, !.deadline = time + RequestTime]
        /\ UNCHANGED <<provider, time, savedKey, googleRule, pauses, publicSent, burst, keyChanges>>

SearchEnded == NoSearch
(* A failed hop: the next one, or the failure is the search's.                   *)
AfterFailure(hop, code) ==
    IF Len(search.hops) > 1 /\ FallsThrough(hop, code)
    THEN [search EXCEPT !.pc = "hop", !.hops = Tail(@), !.from = @ + 1] ELSE SearchEnded

(* The next hop takes its share of what is left; no time left ends the search.   *)
(* A paused provider answers without a request; public Google needs its rule.    *)
BeginHop ==
    LET hop    == Head(search.hops)
        budget == HopBudget(search.deadline - time, search.hops)
        noted  == hop = "serpapi" /\ search.from > 0
    IN  /\ search.pc = "hop"
        /\ burst' = IF budget > 0 /\ noted THEN Noted(burst) ELSE burst
        /\ search' = IF budget = 0 THEN SearchEnded
                     ELSE IF hop = "public" /\ ~googleRule.ok THEN AfterFailure(hop, "permission")
                     ELSE IF Holding(hop) THEN AfterFailure(hop, "cooldown")
                     ELSE [search EXCEPT !.pc = "wait", !.hopEnd = time + budget, !.rule = googleRule]
        /\ UNCHANGED <<provider, time, savedKey, googleRule, pauses, publicSent, searches, keyChanges>>

(* After the permit and DNS waits: policy again, then the pace, measured from    *)
(* the last public send; a keyed provider is sent to at once.                    *)
PaceReady == publicSent + Pace
SendKeyed ==
    /\ search.pc = "wait" /\ Head(search.hops) # "public"
    /\ Local([search EXCEPT !.pc = "sent"])
PublicRefused ==
    /\ search.pc = "wait" /\ Head(search.hops) = "public"
    /\ googleRule # search.rule \/ PaceReady >= search.hopEnd
    /\ Local(AfterFailure("public", "paced"))
SendPublic ==
    /\ search.pc = "wait" /\ Head(search.hops) = "public"
    /\ googleRule = search.rule /\ PaceReady < search.hopEnd /\ time >= PaceReady
    /\ publicSent' = time
    /\ search' = [search EXCEPT !.pc = "sent"]
    /\ UNCHANGED <<provider, time, savedKey, googleRule, pauses, burst, searches, keyChanges>>

Codes == {"provider", "quota", "rejected", "challenge", "blocked", "response"}
HopFails(code) ==
    LET hop == Head(search.hops)
    IN  /\ search.pc = "sent"
        /\ code \in {"challenge", "blocked"} => hop = "public"
        /\ code \in {"quota", "rejected"} => hop # "public"
        /\ pauses' = IF CooldownSeconds(hop, code) > 0
                     THEN [pauses EXCEPT ![hop] = time + CooldownSeconds(hop, code)] ELSE pauses
        /\ search' = AfterFailure(hop, code)
        /\ UNCHANGED <<provider, time, savedKey, googleRule, publicSent, burst, searches, keyChanges>>
(* A listing is returned only if its permission and its key are still the same.  *)
HopAnswers ==
    LET hop    == Head(search.hops)
        stands == /\ hop = "public" => googleRule = search.rule
                  /\ hop = "serpapi" \/ (hop = "public" /\ provider.first = "auto" /\ search.key = NoKey)
                        => savedKey = search.key
    IN  /\ search.pc = "sent"
        /\ Local(IF stands THEN SearchEnded ELSE AfterFailure(hop, "changed"))
HopTimeout ==
    /\ search.pc \in {"wait", "sent"} /\ time = search.hopEnd
    /\ Local(AfterFailure(Head(search.hops), "timeout"))
CancelSearch == search.pc \in {"wait", "sent"} /\ Local(SearchEnded)

Tick ==
    /\ time < MaxTime
    /\ search.pc \notin {"hop"} /\ (search.pc \in {"wait", "sent"} => time < search.hopEnd)
    /\ time' = time + 1
    /\ UNCHANGED <<provider, savedKey, googleRule, pauses, publicSent, burst, search, searches, keyChanges>>
ChangeKey ==
    /\ keyChanges < MaxKeyChanges /\ keyChanges' = keyChanges + 1
    /\ \/ savedKey' \in Keys \ {savedKey} /\ UNCHANGED googleRule
       \/ googleRule' = [ok |-> ~googleRule.ok, rev |-> googleRule.rev + 1] /\ UNCHANGED savedKey
    /\ UNCHANGED <<provider, time, pauses, publicSent, burst, search, searches>>

SearchInit ==
    /\ provider \in Providers /\ time = 0 /\ savedKey \in Keys /\ googleRule = [ok |-> TRUE, rev |-> 0]
    /\ pauses = [h \in Hops |-> 0] /\ publicSent = Never
    /\ burst = [hour |-> 0, count |-> 0, alerted |-> FALSE]
    /\ search = NoSearch /\ searches = 0 /\ keyChanges = 0
SearchNext ==
    \/ StartSearch \/ BeginHop \/ SendKeyed \/ PublicRefused \/ SendPublic
    \/ \E code \in Codes : HopFails(code)
    \/ HopAnswers \/ HopTimeout \/ CancelSearch \/ Tick \/ ChangeKey
SearchSpec == SearchInit /\ [][SearchNext]_searchVars

SearchTypeOK ==
    /\ search.pc \in {"idle", "hop", "wait", "sent"} /\ time \in 0..MaxTime
    /\ pauses \in [Hops -> Nat] /\ savedKey \in Keys /\ burst.count \in Nat

(* Two requests to public Google leave at least the pace apart, across searches, *)
(* cancellations and fallbacks (web_google.rs:23-39, web_search.rs:949-961), and   *)
(* none leaves while public Google is paused (web_google.rs:556-558).               *)
PublicPaced ==
    [][publicSent' # publicSent => publicSent' - publicSent >= Pace /\ ~Holding("public")]_searchVars

(* However long the keyed hops take, a search that falls back to public Google    *)
(* reaches it with the paced request's reserve left, when the request time covers  *)
(* it at all, and never past the one deadline (web_provider.rs:124-136).            *)
ReserveKept ==
    /\ search.pc \in {"wait", "sent"} => search.hopEnd <= search.deadline
    /\ search.pc = "hop" /\ search.from > 0 /\ search.hops = <<"public">> /\ RequestTime > PublicReserve
         => search.deadline - time >= PublicReserve
=============================================================================
