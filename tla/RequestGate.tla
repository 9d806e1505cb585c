----------------------------- MODULE RequestGate -----------------------------
(***************************************************************************)
(* The chain every API request passes (server/headers.rs, server/guards.rs)    *)
(* and the limits it is held to: the sliding-window limiter                     *)
(* (common/ratelimit.rs), the limits published by config_reload.rs and the      *)
(* config file they are read from (common/config.rs).                           *)
(*                                                                            *)
(* The limiter reads the wall clock, which an operator may move back.  A        *)
(* request takes one snapshot of the limits, then locks the limiter twice when  *)
(* it is refused: a reload or another request may come in between.              *)
(* Attributes of a request that no earlier step reads are chosen by the step    *)
(* that reads them.                                                             *)
(***************************************************************************)
EXTENDS Integers, FiniteSets

CONSTANTS
    GateSlots,       \* requests in flight
    GateClients,     \* loopback peer addresses
    Listener,        \* [scheme, host, port] the server listens on
    LoopbackHosts,   \* LOOPBACK_HOSTS
    ReqRange, WindowRange,   \* what u64_in and f64_in accept for a rate budget
    ReqDefault, WindowDefault,
    Settings,        \* values an operator writes: numbers, or Unset, or Malformed
    UnsetSetting, Malformed,
    LinesRow,        \* the audit_queue_lines row of NUMERIC_LIMITS: [min, max, default, keepZero]
    MaxGateClock, MaxClockMoves, MaxReloads, MaxEdits   \* bounds

ASSUME GateAssumption ==
    /\ Listener.host \in LoopbackHosts
    /\ ReqRange \subseteq Nat \ {0} /\ WindowRange \subseteq Nat \ {0}
    /\ ReqDefault \in ReqRange /\ WindowDefault \in WindowRange
    /\ LinesRow.default \in LinesRow.min..LinesRow.max

VARIABLES
    gateClock,     \* now_ts
    hits,          \* hits[c]: the hits recorded for a client: [at, nth], the nth of the hits at one instant
    lastSweep,
    limits,        \* state.runtime: [revision, max, window]
    started,       \* state.cfg: the file as the process read it
    auditLines,    \* the clamped limit the process holds
    configFile,    \* config.yaml now: [yaml, max, window, lines, other]
    requests,      \* requests[s]: [pc, client, live]
    gateAnswer,    \* the refusal or reply this step sent
    clockMoves, reloads, edits

gateVars == <<gateClock, hits, lastSweep, limits, started, auditLines, configFile, requests, gateAnswer, clockMoves, reloads, edits>>
gateBounds == <<clockMoves, reloads, edits>>

NoGateAnswer == [code |-> "none", client |-> "none", at |-> 0, wait |-> 0, live |-> [revision |-> 0, max |-> 1, window |-> 1]]
Answer(code) == [NoGateAnswer EXCEPT !.code = code]
FreeRequest == [pc |-> "free", client |-> "none", live |-> [revision |-> 0, max |-> 1, window |-> 1]]

(* --------------------------------- config --------------------------------- *)
IsNumber(v) == v \notin {UnsetSetting, Malformed}
(* Limit::apply and AppConfig::limit: a clamped row, 0 kept where it means off.    *)
Applied(row, v) == IF v = 0 /\ row.keepZero THEN 0 ELSE IF v < row.min THEN row.min ELSE IF v > row.max THEN row.max ELSE v
Limit(row, v) == Applied(row, IF IsNumber(v) THEN v ELSE row.default)
(* clamped_limits: a row is reported exactly when the value used is another.       *)
ClampedLimits(cfg) == IsNumber(cfg.lines) /\ Applied(LinesRow, cfg.lines) # cfg.lines
(* u64_in and f64_in: a missing key is its default, anything else must be in range. *)
InRange(v, default, range) == v = UnsetSetting \/ (v # Malformed /\ v \in range)
ValueOr(v, default) == IF v = UnsetSetting THEN default ELSE v
(* from_str, then check_numbers: every shipped number, when present, is one.        *)
FromStr(cfg) == cfg.yaml = "mapping"
CheckNumbers(cfg) == \A v \in {cfg.max, cfg.window, cfg.lines} : v # Malformed
LoadConfig(cfg) == FromStr(cfg) /\ CheckNumbers(cfg)
(* RateBudget::load and RuntimeLimits::load.                                        *)
LoadableLimits(cfg) == InRange(cfg.max, ReqDefault, ReqRange) /\ InRange(cfg.window, WindowDefault, WindowRange)
LoadedLimits(cfg, revision) == [revision |-> revision, max |-> ValueOr(cfg.max, ReqDefault), window |-> ValueOr(cfg.window, WindowDefault)]
(* restart_fields: what is left when the RELOADABLE keys are removed.               *)
Reloadable == {"max", "window"}
RestartFields(cfg) == [f \in DOMAIN cfg \ Reloadable |-> cfg[f]]

ConfigFiles ==
    {[yaml |-> "mapping", max |-> m, window |-> w, lines |-> UnsetSetting, other |-> "a"] : m \in Settings, w \in Settings}
    \cup {[yaml |-> y, max |-> UnsetSetting, window |-> UnsetSetting, lines |-> q, other |-> o] : y \in {"mapping", "broken"}, q \in {UnsetSetting, 0, LinesRow.max + 1}, o \in {"a", "b"}}
OperatorEdits ==
    /\ edits < MaxEdits /\ edits' = edits + 1
    /\ configFile' \in ConfigFiles
    /\ gateAnswer' = NoGateAnswer
    /\ UNCHANGED <<gateClock, hits, lastSweep, limits, started, auditLines, requests, clockMoves, reloads>>

(* reload, under the write lock of the limits: by POST or by SIGHUP.                *)
Candidate == LoadConfig(configFile) /\ RestartFields(configFile) = RestartFields(started) /\ LoadableLimits(configFile)
Published(next) == IF [next EXCEPT !.revision = limits.revision] = limits THEN limits ELSE [next EXCEPT !.revision = limits.revision + 1]
Reload ==
    /\ reloads < MaxReloads /\ reloads' = reloads + 1
    /\ limits' = IF Candidate THEN Published(LoadedLimits(configFile, limits.revision)) ELSE limits
    /\ gateAnswer' = Answer(IF Candidate THEN "reloaded" ELSE "refused")
    /\ UNCHANGED <<gateClock, hits, lastSweep, started, auditLines, configFile, requests, clockMoves, edits>>

(* A restart reads the whole file, starts at revision 0 and forgets every hit; a file    *)
(* it refuses keeps the server down, which is left out.                                  *)
GateRestart ==
    /\ reloads < MaxReloads /\ reloads' = reloads + 1
    /\ LoadConfig(configFile) /\ LoadableLimits(configFile)
    /\ started' = configFile /\ limits' = LoadedLimits(configFile, 0) /\ auditLines' = Limit(LinesRow, configFile.lines)
    /\ hits' = [c \in GateClients |-> {}] /\ lastSweep' = 0 /\ requests' = [s \in GateSlots |-> FreeRequest]
    /\ gateAnswer' = Answer(IF ClampedLimits(configFile) THEN "clamped" ELSE "started")
    /\ UNCHANGED <<gateClock, configFile, clockMoves, edits>>

(* ------------------------------- host and origin ------------------------------- *)
(* request_authority: one well-formed authority, Host and :authority agreeing.       *)
Authorities == {[host |-> Listener.host, port |-> Listener.port], [host |-> Listener.host, port |-> 0],
                [host |-> "elsewhere", port |-> Listener.port], [host |-> "", port |-> 0]}
TrustedHost(a) == a.host \in LoopbackHosts
CanonicalPort(port, scheme) == IF port # 0 THEN port ELSE IF scheme = "https" THEN 443 ELSE 80
Origins == {[kind |-> "absent", host |-> "", scheme |-> "", port |-> 0], [kind |-> "unparsable", host |-> "", scheme |-> "", port |-> 0]}
           \cup {[kind |-> "url", host |-> h, scheme |-> s, port |-> p] :
                    h \in {Listener.host, "elsewhere"}, s \in {"http", "https"}, p \in {0, Listener.port}}
Sites == {"absent", "same-origin", "none", "cross-site", "same-site"}
(* enforce_same_origin: headers a browser always sends, absent from other clients.   *)
SameOrigin(site, o, a) ==
    /\ site \in {"absent", "same-origin", "none"}
    /\ \/ o.kind = "absent"
       \/ /\ o.kind = "url" /\ o.host \in LoopbackHosts /\ o.host = a.host /\ o.scheme = Listener.scheme
          /\ CanonicalPort(o.port, o.scheme) = CanonicalPort(a.port, Listener.scheme)
DirectLoopback(peer, proxied) == peer \in GateClients /\ ~proxied

(* trusted_host, then account_gate up to the limiter: the requests that reach it.       *)
Passes(site, o, a, peer, proxied) == TrustedHost(a) /\ SameOrigin(site, o, a) /\ DirectLoopback(peer, proxied)
Reaching == {c \in GateClients : \E site \in Sites, o \in Origins, a \in Authorities, proxied \in BOOLEAN : Passes(site, o, a, c, proxied)}
Stopped == \E site \in Sites, o \in Origins, a \in Authorities, c \in GateClients \cup {"remote"}, proxied \in BOOLEAN : ~Passes(site, o, a, c, proxied)
Arrive(s) ==
    /\ requests[s].pc = "free"
    /\ \/ \E c \in Reaching : requests' = [requests EXCEPT ![s] = [pc |-> "allow", client |-> c, live |-> limits]] /\ gateAnswer' = NoGateAnswer
       \/ Stopped /\ gateAnswer' = Answer("refused") /\ UNCHANGED requests
    /\ UNCHANGED <<gateClock, hits, lastSweep, limits, started, auditLines, configFile>> /\ UNCHANGED gateBounds

(* -------------------------------- the limiter -------------------------------- *)
Within(hs, now, window) == {h \in hs : now - h.at < window}
(* sweep: at most once a window, clients without a hit in it are forgotten.           *)
SweepDue(window) == gateClock - lastSweep >= window
AfterSweep(window) ==
    IF SweepDue(window) THEN [c \in GateClients |-> IF Within(hits[c], gateClock, window) = {} THEN {} ELSE hits[c]] ELSE hits
(* record: the client's expired hits go, then there is room or there is not.          *)
Admits(kept, live) == Cardinality(kept) < live.max
Pushed(kept) == kept \cup {[at |-> gateClock, nth |-> Cardinality({h \in kept : h.at = gateClock}) + 1]}
Allow(s) ==
    LET r == requests[s] live == r.live kept == Within(AfterSweep(live.window)[r.client], gateClock, live.window) IN
    /\ r.pc = "allow"
    /\ lastSweep' = IF SweepDue(live.window) THEN gateClock ELSE lastSweep
    /\ hits' = [AfterSweep(live.window) EXCEPT ![r.client] = IF Admits(kept, live) THEN Pushed(kept) ELSE kept]
    /\ requests' = [requests EXCEPT ![s].pc = IF Admits(kept, live) THEN "account" ELSE "retry"]
    /\ gateAnswer' = NoGateAnswer
    /\ UNCHANGED <<gateClock, limits, started, auditLines, configFile>> /\ UNCHANGED gateBounds

(* retry_after_with_limits: the hit whose expiry leaves room is the one at rank        *)
(* in_window - max of those in the window by age: the oldest, unless the limit was     *)
(* tightened below what is retained.                                                   *)
IsThreshold(kept, max, t) ==
    Cardinality({h \in kept : h.at > t}) < max /\ max <= Cardinality({h \in kept : h.at >= t})
Threshold(kept, max) == CHOOSE t \in {h.at : h \in kept} : IsThreshold(kept, max, t)
RetryAfter(hs, now, live) ==
    LET kept == Within(hs, now, live.window) IN
    IF Cardinality(kept) < live.max THEN 0
    ELSE LET d == live.window - (now - Threshold(kept, live.max)) IN IF d < 0 THEN 0 ELSE d
(* retry_after_error: a whole number of seconds, at least one.                         *)
Retry(s) ==
    LET r == requests[s] w == RetryAfter(hits[r.client], gateClock, r.live) IN
    /\ r.pc = "retry"
    /\ gateAnswer' = [code |-> "RATE_LIMIT", client |-> r.client, at |-> gateClock, wait |-> IF w < 1 THEN 1 ELSE w, live |-> r.live]
    /\ requests' = [requests EXCEPT ![s] = FreeRequest]
    /\ UNCHANGED <<gateClock, hits, lastSweep, limits, started, auditLines, configFile>> /\ UNCHANGED gateBounds

(* ------------------------------ account and token ------------------------------ *)
Routes == {"public", "own", "admin", "audit", "portal", "other"}
(* portal_auditor_may, as the class of routes it admits; audit is the audit read.       *)
PortalAuditorMay(route) == route \in {"audit", "portal"}
Denied(role, route) ==
    \/ role = "audit" /\ route \notin {"own", "audit"}
    \/ role = "portal_auditor" /\ route # "own" /\ ~PortalAuditorMay(route)
    \/ role # "admin" /\ route = "admin"
(* account_gate after the limiter, then guarded for the routes that need the token.     *)
Handled(role, change, route, guardedRoute, token) ==
    /\ \/ route = "public"
       \/ role # "none" /\ (change => route = "own") /\ ~Denied(role, route)
    /\ guardedRoute => token
Verdicts == {Handled(role, change, route, g, token) :
                role \in {"none", "user", "admin", "audit", "portal_auditor"}, change \in BOOLEAN, route \in Routes, g \in BOOLEAN, token \in BOOLEAN}
AccountGate(s) ==
    /\ requests[s].pc = "account"
    /\ \E v \in Verdicts : gateAnswer' = Answer(IF v THEN "handled" ELSE "refused")
    /\ requests' = [requests EXCEPT ![s] = FreeRequest]
    /\ UNCHANGED <<gateClock, hits, lastSweep, limits, started, auditLines, configFile>> /\ UNCHANGED gateBounds

(* ---------------------------------- the clock ---------------------------------- *)
Tick ==
    /\ gateClock < MaxGateClock /\ gateClock' = gateClock + 1 /\ gateAnswer' = NoGateAnswer
    /\ UNCHANGED <<hits, lastSweep, limits, started, auditLines, configFile, requests>> /\ UNCHANGED gateBounds
(* The wall clock is set back.                                                          *)
ClockSetBack ==
    /\ clockMoves < MaxClockMoves /\ clockMoves' = clockMoves + 1 /\ gateAnswer' = NoGateAnswer
    /\ gateClock >= 2 /\ gateClock' = gateClock - 2
    /\ UNCHANGED <<hits, lastSweep, limits, started, auditLines, configFile, requests, reloads, edits>>

GateInit ==
    /\ gateClock = 0 /\ lastSweep = 0 /\ hits = [c \in GateClients |-> {}]
    /\ configFile = [yaml |-> "mapping", max |-> UnsetSetting, window |-> UnsetSetting, lines |-> UnsetSetting, other |-> "a"]
    /\ started = configFile /\ auditLines = Limit(LinesRow, configFile.lines) /\ limits = LoadedLimits(configFile, 0)
    /\ requests = [s \in GateSlots |-> FreeRequest] /\ gateAnswer = NoGateAnswer
    /\ clockMoves = 0 /\ reloads = 0 /\ edits = 0
GateNext ==
    \/ OperatorEdits \/ Reload \/ GateRestart \/ Tick \/ ClockSetBack
    \/ \E s \in GateSlots : Arrive(s) \/ Allow(s) \/ Retry(s) \/ AccountGate(s)
GateSpec == GateInit /\ [][GateNext]_gateVars

GateTypeOK ==
    /\ gateClock \in 0..MaxGateClock /\ lastSweep \in 0..MaxGateClock
    /\ hits \in [GateClients -> SUBSET [at : 0..MaxGateClock, nth : Nat]]
    /\ auditLines \in {0} \cup LinesRow.min..LinesRow.max
    /\ limits.max \in ReqRange /\ limits.window \in WindowRange
    /\ \A s \in GateSlots : requests[s].pc \in {"free", "allow", "retry", "account"}

(* A client told to retry in n seconds is within its limit n seconds later, if it has  *)
(* sent nothing meanwhile: also after the limit was tightened below what the limiter   *)
(* retained and after the wall clock was set back (retry_after_with_limits).            *)
RetrySuffices ==
    gateAnswer.code = "RATE_LIMIT" =>
        Cardinality(Within(hits[gateAnswer.client], gateAnswer.at + gateAnswer.wait, gateAnswer.live.window)) < gateAnswer.live.max
==============================================================================
