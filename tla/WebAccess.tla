----------------------------- MODULE WebAccess ------------------------------
(***************************************************************************)
(* Permission-checked web reads: the URL policy file and its edits            *)
(* (server/web_policy.rs, web_search.rs), the pinned fetch with its rechecks,  *)
(* the opt-in second reader (web_firecrawl.rs), and the bounded crawl, batch   *)
(* read and page search over the cache (web_index.rs).                         *)
(*                                                                             *)
(* A URL is a model value; a pattern stands for the URLs it covers.  A         *)
(* policy's revision is the hash of its bytes, so comparing revisions is       *)
(* comparing policies.  Sizes are byte counts in small units.                  *)
(***************************************************************************)
EXTENDS Integers, Sequences, FiniteSets, SequencesExt

CONSTANTS
    Urls, Patterns,
    Covers,         \* pattern -> the URLs it covers
    SeedsOf,        \* pattern -> its start URLs ({} for a host wildcard)
    SitePatterns,   \* patterns that cover an origin's /robots.txt
    Links,          \* URL -> the links of its page
    Origin,         \* URL -> its origin
    WebOwners, NoUrl, NoGroup, RuleGroups,
    MaxRules,       \* web.max_rules
    RunPages, PerSite, ResponseBytes, RunBytes, CachePages,
    Firecrawl,      \* web.firecrawl.enabled
    HourCap,        \* web.firecrawl.max_per_hour
    PolicyFiles, SavedCaches,  \* the policy file and page cache a server may start with
    MaxPolicyWrites, MaxReads  \* bounds

ASSUME WebAccessAssumption ==
    /\ Covers \in [Patterns -> SUBSET Urls] /\ SeedsOf \in [Patterns -> SUBSET Urls]
    /\ Links \in [Urls -> SUBSET Urls] /\ NoUrl \notin Urls /\ NoGroup \notin RuleGroups
    /\ ResponseBytes \in Nat \ {0} /\ RunBytes \in Nat /\ CachePages \in Nat \ {0}
    /\ RunPages \in Nat /\ HourCap \in Nat

VARIABLES
    policy,    \* the policy file: [file, rules, mode, blocked]
    cache,     \* cached pages, least recently written first
    lastPage,  \* per account, the extract of the latest read
    context,   \* per account, the injected extract
    read,      \* the read in progress
    shown,     \* the evidence the latest step handed out
    fcSpent,   \* HourlyCap: fallback reads of this clock hour
    writes, reads

accessVars == <<policy, cache, lastPage, context, read, shown, fcSpent, writes, reads>>

Origins == {Origin[u] : u \in Urls}
EmptyPolicy == [file |-> "missing", rules |-> {}, mode |-> "allow", blocked |-> {}]
NoRead == [kind |-> "none", pc |-> "idle", owner |-> CHOOSE o \in WebOwners : TRUE, group |-> NoGroup,
           queue |-> <<>>, queued |-> {}, url |-> NoUrl, robot |-> FALSE, seen |-> EmptyPolicy,
           pages |-> <<>>, requests |-> 0, sites |-> [o \in Origins |-> 0],
           robots |-> [o \in Origins |-> "unknown"], pinned |-> 0, got |-> 0,
           charged |-> 0, moved |-> 0, late |-> FALSE]
Nothing == [urls |-> {}, group |-> NoGroup]
AccessQuiet == shown' = Nothing
Gated(kind) == kind \in {"batch", "crawl", "search"}

(* ------------------------------- the policy ----------------------------- *)
Blocks(p, u) == \E b \in p.blocked : u \in Covers[b]
Permits(p, u, g) ==
    /\ ~Blocks(p, u)
    /\ \/ p.mode = "deny" /\ g = NoGroup
       \/ \E r \in p.rules : (g = NoGroup \/ r.group = g) /\ u \in Covers[r.pattern]
(* A file that is missing, not a bounded rule document or over web.max_rules     *)
(* gives no policy at all: every read is refused.                                *)
Loads(p) == p.file = "valid" /\ Cardinality(p.rules) <= MaxRules /\ Cardinality(p.blocked) <= MaxRules
Authorize(p, u, g) == Loads(p) /\ Permits(p, u, g)
AuthorizeRobots(p, u, g) ==
    /\ Loads(p)
    /\ ~\E b \in p.blocked \cap SitePatterns : \E v \in Covers[b] : Origin[v] = Origin[u]
    /\ \/ p.mode = "deny" /\ g = NoGroup
       \/ \E r \in p.rules : (g = NoGroup \/ r.group = g) /\ \E v \in Covers[r.pattern] : Origin[v] = Origin[u]
AuthorizeRead(p, u, g, robot) == IF robot THEN AuthorizeRobots(p, u, g) ELSE Authorize(p, u, g)
RefusesAll(p) == p.mode = "allow" /\ p.rules = {}
RequireEnabled == policy.file # "invalid" /\ ~RefusesAll(policy)

WritePolicy(p) ==
    /\ writes < MaxPolicyWrites /\ writes' = writes + 1
    /\ policy' = [p EXCEPT !.file = "valid"]
    /\ AccessQuiet /\ UNCHANGED <<cache, lastPage, context, read, fcSpent, reads>>
(* A grant may create a missing file; it never resets an invalid one, and a     *)
(* full list grants nothing.                                                    *)
AllowRule(pattern, group) ==
    LET rule == [pattern |-> pattern, group |-> group]
    IN  /\ policy.file # "invalid" /\ Cardinality(policy.rules \cup {rule}) <= MaxRules
        /\ WritePolicy([policy EXCEPT !.rules = @ \cup {rule}])
Deny(pattern) ==
    LET gone == {r \in policy.rules : r.pattern = pattern}
    IN  /\ policy.file = "valid" /\ gone # {}
        /\ WritePolicy([policy EXCEPT !.rules = @ \ gone])
BlockRule(pattern) ==
    /\ policy.file # "invalid" /\ Cardinality(policy.blocked \cup {pattern}) <= MaxRules
    /\ WritePolicy([policy EXCEPT !.blocked = @ \cup {pattern}])
Unblock(pattern) ==
    /\ policy.file = "valid" /\ pattern \in policy.blocked
    /\ WritePolicy([policy EXCEPT !.blocked = @ \ {pattern}])
SetMode(mode) ==
    /\ policy.file # "invalid" /\ policy.mode # mode
    /\ WritePolicy([policy EXCEPT !.mode = mode])
(* The file is edited by hand into something Policy::parse refuses.             *)
BreakFile ==
    /\ policy.file = "valid" /\ writes < MaxPolicyWrites /\ writes' = writes + 1
    /\ policy' = [policy EXCEPT !.file = "invalid"]
    /\ AccessQuiet /\ UNCHANGED <<cache, lastPage, context, read, fcSpent, reads>>

(* -------------------------- starting a read ----------------------------- *)
CacheFiles == ToSet(cache)
Targets(us) == [i \in DOMAIN us |-> [url |-> us[i], explicit |-> TRUE]]
(* A rule without a start URL starts from pages already cached under it.        *)
StartUrls(r, g) ==
    IF SeedsOf[r.pattern] # {} THEN SeedsOf[r.pattern]
    ELSE {u \in CacheFiles : Authorize(policy, u, g) /\ u \in Covers[r.pattern]}
Seeds(g) == UNION {StartUrls(r, g) : r \in {q \in policy.rules : g = NoGroup \/ q.group = g}}

Started(kind, o, g, us, pc) ==
    /\ read.pc = "idle" /\ reads < MaxReads /\ reads' = reads + 1
    /\ RequireEnabled
    /\ read' = [NoRead EXCEPT !.kind = kind, !.pc = pc, !.owner = o, !.group = g,
                              !.queue = Targets(us), !.queued = ToSet(us),
                              !.url = IF kind = "fetch" THEN us[1] ELSE NoUrl]
    /\ AccessQuiet /\ UNCHANGED <<policy, cache, lastPage, context, fcSpent, writes>>
Fetch(o, u) == Started("fetch", o, NoGroup, <<u>>, "get")
FetchMany(o, g, us) == (\A i \in DOMAIN us : Authorize(policy, us[i], g)) /\ Started("batch", o, g, us, "next")
Crawl(o, g, us) == (\A i \in DOMAIN us : Authorize(policy, us[i], g)) /\ Started("crawl", o, g, us, "next")
SearchPages(o, g) ==
    /\ g = NoGroup \/ \E r \in policy.rules : r.group = g
    /\ Started("search", o, g, SetToSeq(Seeds(g)), "next")

ReadStep(r) ==
    /\ read' = r
    /\ AccessQuiet /\ UNCHANGED <<policy, cache, lastPage, context, fcSpent, writes, reads>>
EndRead == ReadStep(NoRead)

(* ------------------------- choosing the next URL ------------------------ *)
Spent(r) == r.requests >= RunPages \/ r.charged + ResponseBytes > RunBytes \/ r.late
RequestPage(r, u, robot) ==
    [r EXCEPT !.pc = "get", !.url = u, !.robot = robot, !.requests = @ + 1, !.sites[Origin[u]] = @ + 1]
Skip(r) == [r EXCEPT !.queue = Tail(@)]

(* The pop of fetch_many and of the crawl: permission again, then robots.txt     *)
(* once per origin, then the page.                                               *)
NextUrl ==
    LET h     == Head(read.queue)
        u     == h.url
        crawl == read.kind \in {"crawl", "search"}
        rule  == read.robots[Origin[u]]
        page  == IF Spent(read) THEN [read EXCEPT !.pc = "done"]
                 ELSE IF read.sites[Origin[u]] >= PerSite THEN Skip(read)
                 ELSE Skip(RequestPage(read, u, FALSE))
    IN  /\ read.pc = "next" /\ read.queue # <<>>
        /\ IF crawl /\ policy.file # "valid" THEN EndRead
           ELSE ReadStep(
              IF ~crawl THEN page
              ELSE IF ~Authorize(policy, u, read.group) THEN Skip(read)
              ELSE IF rule = "unknown" THEN
                   IF ~AuthorizeRobots(policy, u, read.group) \/ Spent(read) \/ read.sites[Origin[u]] >= PerSite
                   THEN [read EXCEPT !.robots[Origin[u]] = "none"]
                   ELSE RequestPage(read, u, TRUE)
              ELSE IF rule = "deny" \/ (rule = "none" /\ ~h.explicit) THEN Skip(read)
              ELSE page)
QueueDone == read.pc = "next" /\ read.queue = <<>> /\ ReadStep([read EXCEPT !.pc = "done"])

(* --------------------------- the pinned fetch --------------------------- *)
(* A failed read charges the whole response allowance; a sent fallback charges  *)
(* its own on top.  A failed single fetch ends, a failed robots.txt is none.     *)
Charged(r, n) == IF r.kind = "fetch" THEN r ELSE [r EXCEPT !.charged = @ + n]
FetchFailed(r, n) ==
    IF r.kind = "fetch" THEN NoRead
    ELSE [Charged(r, n) EXCEPT !.pc = "next",
                               !.robots = IF r.robot THEN [@ EXCEPT ![Origin[r.url]] = "none"] ELSE @,
                               !.robot = FALSE, !.pinned = 0]
ReadFails(r) == FetchFailed(r, ResponseBytes)
Arrived(r, n) == [r EXCEPT !.pc = "page", !.got = n]

BeginGet ==
    /\ read.pc = "get"
    /\ ReadStep(IF AuthorizeRead(policy, read.url, read.group, read.robot)
                THEN [read EXCEPT !.pc = "dns", !.seen = policy] ELSE ReadFails(read))
(* After the permit and DNS waits the policy must still be the one checked.     *)
MutStillAllowed(r) == AuthorizeRead(r.seen, r.url, r.group, r.robot)
StillAllowed(r) == AuthorizeRead(policy, r.url, r.group, r.robot) /\ policy = r.seen
SendFetch ==
    /\ read.pc = "dns"
    /\ ReadStep(IF StillAllowed(read) THEN [read EXCEPT !.pc = "sent"] ELSE ReadFails(read))

(* escalates: only exact reads, only a refusing server or a script shell.       *)
Escalates(thin) == Firecrawl /\ thin /\ ~read.robot /\ read.kind \in {"fetch", "batch"}
AnswerPage(n, thin) ==
    LET r == [read EXCEPT !.moved = @ + n]
    IN  /\ read.pc = "sent"
        /\ ReadStep(IF ~StillAllowed(r) THEN ReadFails(r)
                    ELSE IF Escalates(thin) THEN [r EXCEPT !.pc = "fallback", !.pinned = n]
                    ELSE Arrived(r, n))
AnswerNotModified ==
    /\ read.pc = "sent" /\ read.kind # "fetch" /\ ~read.robot /\ read.url \in ToSet(cache)
    /\ ReadStep(IF StillAllowed(read) THEN Arrived(read, 0) ELSE ReadFails(read))
AnswerFails(n, refused) ==
    LET r == [read EXCEPT !.moved = @ + n]
    IN  /\ read.pc = "sent" /\ (refused => n = 0)
        /\ ReadStep(IF Escalates(refused) THEN [r EXCEPT !.pc = "fallback", !.pinned = -1] ELSE ReadFails(r))

(* --------------------------- the second reader -------------------------- *)
PinnedCharge(r) == IF r.pinned < 0 THEN ResponseBytes ELSE r.pinned
(* The pinned outcome stands: the thin page, or the original error.             *)
KeepPinned(r, fb) ==
    IF r.pinned >= 0 THEN Arrived(r, r.pinned + fb) ELSE FetchFailed(r, ResponseBytes + fb)
FallbackFits(r) == r.kind = "fetch" \/ PinnedCharge(r) + ResponseBytes <= RunBytes - r.charged
BeginFallback ==
    LET goes == FallbackFits(read) /\ Authorize(policy, read.url, read.group) /\ fcSpent < HourCap
    IN  /\ read.pc = "fallback"
        /\ fcSpent' = IF goes THEN fcSpent + 1 ELSE fcSpent
        /\ read' = IF goes THEN [read EXCEPT !.pc = "fcwait", !.seen = policy] ELSE KeepPinned(read, 0)
        /\ AccessQuiet /\ UNCHANGED <<policy, cache, lastPage, context, writes, reads>>
SendFallback ==
    /\ read.pc = "fcwait"
    /\ ReadStep(IF StillAllowed(read) THEN [read EXCEPT !.pc = "fcsent"] ELSE KeepPinned(read, 0))
AnswerFallback(n, ok) ==
    LET r == [read EXCEPT !.moved = @ + n]
    IN  /\ read.pc = "fcsent"
        /\ ReadStep(IF ok /\ StillAllowed(r) THEN Arrived(r, PinnedCharge(r) + n)
                    ELSE KeepPinned(r, IF ok THEN n ELSE ResponseBytes))
HourPasses ==
    /\ fcSpent > 0
    /\ fcSpent' = 0
    /\ AccessQuiet /\ UNCHANGED <<policy, cache, lastPage, context, read, writes, reads>>

(* The run's deadline drops the read where it waits; what it may have moved is   *)
(* charged in full.                                                              *)
DeadlineCut(n) ==
    LET allowance == IF read.kind = "batch" /\ Firecrawl THEN 2 * ResponseBytes ELSE ResponseBytes
    IN  /\ Gated(read.kind) /\ read.pc \in {"get", "dns", "sent", "fcwait", "fcsent"}
        /\ n > 0 => read.pc \in {"sent", "fcsent"}
        /\ ReadStep([FetchFailed([read EXCEPT !.moved = @ + n], allowance) EXCEPT !.late = TRUE])

(* ----------------------- the cache and the results ---------------------- *)
PageCharged ==
    /\ read.pc = "page"
    /\ \E verdict \in {"allow", "deny"} :
         ReadStep(LET r == Charged(read, read.got)
                  IN  IF r.robot THEN [r EXCEPT !.pc = "next", !.robot = FALSE, !.robots[Origin[r.url]] = verdict]
                      ELSE [r EXCEPT !.pc = "cache", !.pinned = 0])
Evict(pages) == IF Len(pages) >= CachePages THEN SubSeq(pages, Len(pages) - CachePages + 2, Len(pages)) ELSE pages
WithPage(u) == Append(Evict(SelectSeq(cache, LAMBDA v : v # u)), u)
NewLinks(r) == {v \in Links[r.url] \ r.queued : Authorize(policy, v, r.group)}
Enqueued(r) ==
    LET new == IF r.kind \in {"crawl", "search"} THEN SetToSeq(NewLinks(r)) ELSE <<>>
    IN  [r EXCEPT !.queue = @ \o [i \in DOMAIN new |-> [url |-> new[i], explicit |-> FALSE]],
                  !.queued = @ \cup ToSet(new)]
(* cache_page validates under the lock; a page no longer permitted ends the run. *)
CachePage ==
    /\ read.pc = "cache"
    /\ IF ~Authorize(policy, read.url, read.group) THEN read' = NoRead /\ UNCHANGED cache
       ELSE /\ cache' = WithPage(read.url)
            /\ read' = [Enqueued(read) EXCEPT !.pc = IF read.kind = "fetch" THEN "done" ELSE "next",
                                              !.pages = Append(@, read.url)]
    /\ AccessQuiet /\ UNCHANGED <<policy, lastPage, context, fcSpent, writes, reads>>

Show(urls, g) == shown' = [urls |-> urls, group |-> g]
(* fetch, fetch_many and crawl: store_last and the last validation.  A crawl     *)
(* returns its coverage only.                                                    *)
FinishRead ==
    LET ok == \A i \in DOMAIN read.pages : Authorize(policy, read.pages[i], read.group)
    IN  /\ read.pc = "done" /\ read.kind # "search"
        /\ IF read.kind # "crawl" /\ ok /\ read.pages # <<>>
           THEN /\ lastPage' = [lastPage EXCEPT ![read.owner] = read.pages[1]]
                /\ Show(ToSet(read.pages), read.group)
           ELSE AccessQuiet /\ UNCHANGED <<lastPage>>
        /\ read' = NoRead
        /\ UNCHANGED <<policy, cache, context, fcSpent, writes, reads>>
(* A page search ranks what the policy read before the blocking work permits ... *)
RankPages ==
    /\ read.pc = "done" /\ read.kind = "search"
    /\ IF policy.file # "valid" THEN EndRead
       ELSE \E found \in SUBSET {u \in ToSet(cache) : Authorize(policy, u, read.group)} :
              ReadStep([read EXCEPT !.pc = "ranked", !.pages = SetToSeq(found)])
(* ... and returns what the policy permits when it is done.                      *)
Standing(us) == {i \in DOMAIN us : Authorize(policy, us[i], read.group)}
FinishSearch ==
    LET found == Standing(read.pages)
    IN  /\ read.pc = "ranked"
        /\ IF policy.file # "valid" THEN AccessQuiet /\ UNCHANGED <<lastPage, context>>
           ELSE IF found = {} THEN
                /\ lastPage' = [lastPage EXCEPT ![read.owner] = NoUrl]
                /\ context' = [context EXCEPT ![read.owner] = NoUrl]
                /\ AccessQuiet
           ELSE /\ lastPage' = [lastPage EXCEPT ![read.owner] = read.pages[Min(found)]]
                /\ Show({read.pages[i] : i \in found}, read.group)
                /\ UNCHANGED context
        /\ read' = NoRead
        /\ UNCHANGED <<policy, cache, fcSpent, writes, reads>>
Cancel == read.pc \in {"dns", "sent", "fcwait", "fcsent"} /\ EndRead

Inject(o) ==
    /\ lastPage[o] # NoUrl /\ RequireEnabled /\ Authorize(policy, lastPage[o], NoGroup)
    /\ context' = [context EXCEPT ![o] = lastPage[o]]
    /\ AccessQuiet /\ UNCHANGED <<policy, cache, lastPage, read, fcSpent, writes, reads>>
Forget(o) ==
    /\ lastPage' = [lastPage EXCEPT ![o] = NoUrl] /\ context' = [context EXCEPT ![o] = NoUrl]
    /\ AccessQuiet /\ UNCHANGED <<policy, cache, read, fcSpent, writes, reads>>
(* context_text: the injected page enters a chat prompt only while permitted.    *)
ContextText(o) ==
    /\ context[o] # NoUrl /\ Authorize(policy, context[o], NoGroup)
    /\ Show({context[o]}, NoGroup)
    /\ UNCHANGED <<policy, cache, lastPage, context, read, fcSpent, writes, reads>>

Starts == {<<u>> : u \in Urls} \cup {s \in [1..2 -> Urls] : s[1] # s[2]}
ReadGroups == RuleGroups \cup {NoGroup}
AccessInit ==
    /\ policy \in PolicyFiles
    /\ cache \in SavedCaches /\ lastPage = [o \in WebOwners |-> NoUrl] /\ context = [o \in WebOwners |-> NoUrl]
    /\ read = NoRead /\ shown = Nothing
    /\ fcSpent = 0 /\ writes = 0 /\ reads = 0

AccessNext ==
    \/ \E p \in Patterns : (\E g \in RuleGroups : AllowRule(p, g)) \/ Deny(p) \/ BlockRule(p) \/ Unblock(p)
    \/ \E mode \in {"allow", "deny"} : SetMode(mode)
    \/ BreakFile
    \/ \E o \in WebOwners : (\E u \in Urls : Fetch(o, u)) \/ Inject(o) \/ Forget(o) \/ ContextText(o)
    \/ \E o \in WebOwners, g \in ReadGroups :
         (\E us \in Starts : FetchMany(o, g, us) \/ Crawl(o, g, us)) \/ SearchPages(o, g)
    \/ NextUrl \/ QueueDone \/ BeginGet \/ SendFetch \/ AnswerNotModified
    \/ \E n \in 1..ResponseBytes, thin \in BOOLEAN : AnswerPage(n, thin)
    \/ \E n \in 0..ResponseBytes, b \in BOOLEAN : AnswerFails(n, b) \/ AnswerFallback(n, b)
    \/ BeginFallback \/ SendFallback \/ HourPasses
    \/ \E n \in 0..ResponseBytes : DeadlineCut(n)
    \/ PageCharged \/ CachePage \/ FinishRead \/ RankPages \/ FinishSearch \/ Cancel
AccessSpec == AccessInit /\ [][AccessNext]_accessVars

AccessTypeOK ==
    /\ policy.file \in {"missing", "valid", "invalid"} /\ policy.blocked \subseteq Patterns
    /\ Cardinality(policy.rules) <= MaxRules
    /\ CacheFiles \subseteq Urls /\ Len(cache) <= CachePages
    /\ lastPage \in [WebOwners -> Urls \cup {NoUrl}] /\ context \in [WebOwners -> Urls \cup {NoUrl}]
    /\ read.requests \in 0..RunPages /\ fcSpent \in 0..HourCap

(* No request leaves for a URL the policy no longer permits, whatever an        *)
(* administrator changed during the permit and DNS waits (web_search.rs:931-935,  *)
(* web_firecrawl.rs:254-261), and no evidence is handed out of a page that is     *)
(* no longer permitted when the answer is given (web_search.rs:1060-1091,          *)
(* web_index.rs:593-599, 683-691).                                                 *)
RevokedIsUnread ==
    [][ /\ (read.pc = "dns" /\ read'.pc = "sent") \/ (read.pc = "fcwait" /\ read'.pc = "fcsent")
              => AuthorizeRead(policy, read.url, read.group, read.robot)
        /\ \A u \in shown'.urls : Authorize(policy, u, shown'.group) ]_accessVars

(* The bytes a run really moves, through both readers and every failure, never  *)
(* exceed what it is charged nor web.run_bytes (web_index.rs:462-474, 494,         *)
(* 511-524; web_firecrawl.rs:165-205).                                             *)
RunBytesHold == Gated(read.kind) /\ read.pc = "next" => read.moved <= read.charged /\ read.moved <= RunBytes
=============================================================================
