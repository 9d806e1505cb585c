----------------------------- MODULE ModelCalls ------------------------------
(***************************************************************************)
(* The requests the server sends to models: paid cloud calls                 *)
(* (llm/cloud_chat.rs), local completions with their one retry               *)
(* (llm/openai_chat.rs, llm/openai_stream.rs) and Ollama pulls               *)
(* (llm/ollama.rs, routes/ollama.rs).  Calls run concurrently, and the       *)
(* future of any of them may be dropped at an await: by an abort, by its     *)
(* deadline or because the caller went away.                                 *)
(***************************************************************************)
EXTENDS Integers, FiniteSets, Sequences, SequencesExt

CONSTANTS
    Calls,            \* concurrent requests of the server run
    Pullers,          \* requests to POST /api/ollama/pull
    Rpm,              \* profile.rpm, requests per minute of one provider
    MessageTokens,    \* sizes a message may have, in tokens
    MaxOutput,        \* profile.max_output_tokens
    BudgetCap,        \* max_usd_per_call in token prices, 0 for none
    HeuristicBudget,  \* budget_on_heuristic
    ContextWindow,    \* profile.context_window, 0 for none
    MaxEvents         \* events of one streamed reply

ASSUME CallsAssumption ==
    /\ {Rpm, MaxOutput, BudgetCap, ContextWindow, MaxEvents} \subseteq Nat /\ MessageTokens \subseteq Nat
    /\ HeuristicBudget \in BOOLEAN /\ "nobody" \notin Pullers

VARIABLES
    calls,        \* per call: kind, where its future waits, its message, try number and result
    registered,   \* ids in the clients' inflight maps
    aborted,      \* calls whose cancellation token is cancelled
    armed,        \* calls holding an armed UnparsedBill
    charged,      \* calls answered with a 2xx, which the provider bills
    ledgerRows,   \* spend rows written per call
    rateHits,     \* requests counted by the provider's limiter in this window
    pulls,        \* per puller: where pull_inner is
    pullGate,     \* pull_gate's holder
    pullSlot,     \* pull_abort: the puller whose token it holds
    pullCancelled,\* pullers whose token is cancelled
    pullAsked     \* pullers whose token POST /api/ollama/pull/cancel took

cloudVars == <<calls, registered, aborted, armed, charged, ledgerRows, rateHits>>
pullVars == <<pulls, pullGate, pullSlot, pullCancelled, pullAsked>>
callVars == <<calls, registered, aborted, armed, charged, ledgerRows, rateHits, pulls, pullGate, pullSlot, pullCancelled, pullAsked>>
NoPuller == "nobody"

CallAt(c, where) == calls[c].at = where
MoveTo(c, where) == calls' = [calls EXCEPT ![c].at = where]

(* ---------------------------- ends of a call ----------------------------- *)
(* UnparsedBill::drop: an armed bill writes its own row.                      *)
BillRow(c) == IF c \in armed THEN 1 ELSE 0
(* The future ends, by returning or by being dropped: its locals are dropped   *)
(* (the bill, then the inflight entry).                                       *)
EndModelCall(c, result, rows) ==
    /\ calls' = [calls EXCEPT ![c].at = "done", ![c].result = result]
    /\ ledgerRows' = [ledgerRows EXCEPT ![c] = @ + rows]
    /\ armed' = armed \ {c} /\ registered' = registered \ {c}
(* abort_in_flight of both clients (abort_chat): the maps are taken whole.     *)
AbortChat ==
    /\ registered # {}
    /\ aborted' = aborted \cup registered /\ registered' = {}
    /\ UNCHANGED <<calls, armed, charged, ledgerRows, rateHits>>
(* The select's cancelled branch of cancellable and send_payload.             *)
CancelledCall(c) ==
    /\ c \in aborted /\ ~CallAt(c, "idle") /\ ~CallAt(c, "again") /\ ~CallAt(c, "done")
    /\ EndModelCall(c, "cancelled", BillRow(c))
    /\ UNCHANGED <<aborted, charged, rateHits>>
(* The caller goes away or the request's own timeout fires.                    *)
DroppedCall(c) ==
    /\ ~CallAt(c, "idle") /\ ~CallAt(c, "done")
    /\ EndModelCall(c, "dropped", BillRow(c))
    /\ UNCHANGED <<aborted, charged, rateHits>>

(* ------------------------------ cloud calls ------------------------------ *)
(* chat_with_source and predict: reserve_request, then a registered call.      *)
StartCloud(c, kind, tokens) ==
    /\ CallAt(c, "idle")
    /\ IF rateHits >= Rpm
       THEN /\ EndModelCall(c, "rate_limited", 0) /\ UNCHANGED rateHits
       ELSE /\ calls' = [calls EXCEPT ![c].at = "count", ![c].kind = kind, ![c].tokens = tokens]
            /\ rateHits' = rateHits + 1 /\ registered' = registered \cup {c}
            /\ UNCHANGED <<ledgerRows, armed>>
    /\ UNCHANGED <<aborted, charged>>
(* The limiter's oldest hit leaves the 60 s window.                           *)
HitExpires == rateHits > 0 /\ rateHits' = rateHits - 1 /\ UNCHANGED <<calls, registered, aborted, armed, charged, ledgerRows>>
(* predict_request: a provider count, or the bytes/4 heuristic, which may be     *)
(* off either way.                                                            *)
BudgetExceeded(estimate, counted) == BudgetCap > 0 /\ (counted \/ HeuristicBudget) /\ estimate + MaxOutput > BudgetCap
ContextExceeded(estimate) == ContextWindow > 0 /\ estimate + MaxOutput > ContextWindow
CountEnds(c) ==
    /\ CallAt(c, "count") /\ c \notin aborted
    /\ \E counted \in BOOLEAN, guess \in MessageTokens :
         LET estimate == IF counted THEN calls[c].tokens ELSE guess IN
         IF calls[c].kind = "predict" THEN EndModelCall(c, "prediction", 0)
         ELSE IF BudgetExceeded(estimate, counted) THEN EndModelCall(c, "budget", 0)
         ELSE IF ContextExceeded(estimate) THEN EndModelCall(c, "context", 0)
         ELSE MoveTo(c, "send") /\ UNCHANGED <<ledgerRows, armed, registered>>
    /\ UNCHANGED <<aborted, charged, rateHits>>
(* request, the provider's answer: a 2xx arms the bill before the body is read. *)
CloudAnswers(c) ==
    /\ CallAt(c, "send") /\ c \notin aborted
    /\ \/ /\ \E r \in {"failed", "rejected"} : EndModelCall(c, r, 0)
          /\ UNCHANGED charged
       \/ /\ MoveTo(c, "read") /\ armed' = armed \cup {c} /\ charged' = charged \cup {c}
          /\ UNCHANGED <<ledgerRows, registered>>
    /\ UNCHANGED <<aborted, rateHits>>
(* The body is interrupted, oversized or malformed: the bill's drop is the row.  *)
BodyUnread(c) ==
    /\ CallAt(c, "read") /\ c \notin aborted
    /\ \E r \in {"interrupted", "oversized", "malformed"} : EndModelCall(c, r, BillRow(c))
    /\ UNCHANGED <<aborted, charged, rateHits>>
(* completion_error before the text: only a normal end gives a reply.          *)
Completion(body) ==
    CASE body.stop # "normal" -> "incomplete"
      [] body.stop = "normal" /\ ~body.text -> "no_text"
      [] OTHER -> "reply"
Bodies == [stop : {"normal", "cut", "missing"}, text : BOOLEAN]
MutBodyRead(c) ==
    /\ CallAt(c, "read") /\ c \notin aborted
    /\ \E body \in Bodies : EndModelCall(c, Completion(body), BillRow(c) + 1)
    /\ UNCHANGED <<aborted, charged, rateHits>>
(* Parsed: the bill is disarmed and the row carries the reply's own usage.      *)
BodyRead(c) ==
    /\ CallAt(c, "read") /\ c \notin aborted
    /\ \E body \in Bodies : EndModelCall(c, Completion(body), 1)
    /\ UNCHANGED <<aborted, charged, rateHits>>

(* ----------------------------- local calls ------------------------------- *)
(* openai_stream: one decoded event after the other; [DONE] ends the stream and   *)
(* anything after it is an error.                                              *)
CallEvents == {"text", "think", "call0", "call1", "stop", "length", "DONE", "error"}
FreshCall == [ok |-> TRUE, done |-> FALSE, finish |-> "null", think |-> FALSE, toolCalls |-> {}]
DecodeEvent(d, e) ==
    IF ~d.ok THEN d
    ELSE IF e = "DONE" THEN [d EXCEPT !.done = TRUE]
    ELSE IF d.done \/ e = "error" THEN [d EXCEPT !.ok = FALSE]
    ELSE CASE e \in {"stop", "length"} -> [d EXCEPT !.finish = e]
           [] e = "think" -> [d EXCEPT !.think = TRUE]
           [] e = "call0" -> [d EXCEPT !.toolCalls = @ \cup {0}]
           [] e = "call1" -> [d EXCEPT !.toolCalls = @ \cup {1}]
           [] OTHER -> d
(* Decoder::finish: done, a finish reason, and contiguous tool call indices.     *)
CallFinished(d) == d.ok /\ d.done /\ d.finish # "null" /\ d.toolCalls = 0 .. (Cardinality(d.toolCalls) - 1)
(* strip_leading_reasoning, then residual_think_leak: thinking that is still there. *)
ThinkLeak(d) == d.think
(* parse_chat_response on a decoded body.                                      *)
Verdict(d) ==
    CASE ~CallFinished(d) -> "failed"
      [] CallFinished(d) /\ ThinkLeak(d) -> "leak"
      [] CallFinished(d) /\ ~ThinkLeak(d) /\ d.finish = "length" -> "truncated"
      [] OTHER -> "reply"
Streams == UNION {[1 .. n -> CallEvents] : n \in 0 .. MaxEvents}
Verdicts == {Verdict(FoldLeft(DecodeEvent, FreshCall, s)) : s \in Streams}
StartLocal(c) ==
    /\ CallAt(c, "idle")
    /\ calls' = [calls EXCEPT ![c].at = "wait", ![c].kind = "local", ![c].try = 1]
    /\ registered' = registered \cup {c}
    /\ UNCHANGED <<aborted, armed, charged, ledgerRows, rateHits>>
(* post_without_think_leak: a leaking first reply is dropped and sent once more.  *)
LocalReply(c) ==
    /\ CallAt(c, "wait")
    /\ \E v \in Verdicts :
         IF v = "leak" /\ calls[c].try = 1
         THEN MoveTo(c, "again") /\ registered' = registered \ {c} /\ UNCHANGED <<ledgerRows, armed>>
         ELSE EndModelCall(c, v, 0)
    /\ UNCHANGED <<aborted, charged, rateHits>>
(* The second send registers a token of its own.                               *)
SendAgain(c) ==
    /\ CallAt(c, "again")
    /\ calls' = [calls EXCEPT ![c].at = "wait", ![c].try = 2]
    /\ registered' = registered \cup {c} /\ aborted' = aborted \ {c}
    /\ UNCHANGED <<armed, charged, ledgerRows, rateHits>>

(* ----------------------------- Ollama pulls ------------------------------ *)
(* pull_inner: the gate first, then the token in the one slot.                  *)
PullStart(p) ==
    /\ pulls[p] = "idle" /\ pullGate = NoPuller
    /\ pullGate' = p /\ pulls' = [pulls EXCEPT ![p] = "gated"]
    /\ UNCHANGED <<pullSlot, pullCancelled, pullAsked>>
RegisterPull(p) ==
    /\ pulls[p] = "gated" /\ pullSlot' = p /\ pulls' = [pulls EXCEPT ![p] = "pulling"]
    /\ UNCHANGED <<pullGate, pullCancelled, pullAsked>>
(* abort_pull takes whatever token the slot holds.                             *)
TakeSlot == pullSlot' = NoPuller /\ pullCancelled' = IF pullSlot = NoPuller THEN pullCancelled ELSE pullCancelled \cup {pullSlot}
CancelPull ==
    /\ pullSlot # NoPuller /\ TakeSlot /\ pullAsked' = pullAsked \cup {pullSlot}
    /\ UNCHANGED <<pulls, pullGate>>
(* pull_model ends: success, failure or its token; or the caller went away.       *)
PullEnds(p) ==
    /\ pulls[p] = "pulling" /\ pulls' = [pulls EXCEPT ![p] = "leaving"]
    /\ UNCHANGED <<pullGate, pullSlot, pullCancelled, pullAsked>>
(* Locals are dropped in reverse: ClearAbort empties the slot, then the gate opens. *)
LeavePull(p) ==
    \/ /\ pulls[p] = "leaving" /\ TakeSlot /\ pulls' = [pulls EXCEPT ![p] = "cleared"]
       /\ UNCHANGED <<pullGate, pullAsked>>
    \/ /\ pulls[p] = "cleared" /\ pullGate' = NoPuller /\ pulls' = [pulls EXCEPT ![p] = "idle"]
       /\ pullCancelled' = pullCancelled \ {p} /\ pullAsked' = pullAsked \ {p} /\ UNCHANGED pullSlot

CallsInit ==
    /\ calls = [c \in Calls |-> [kind |-> "none", at |-> "idle", tokens |-> 0, try |-> 0, result |-> "none"]]
    /\ registered = {} /\ aborted = {} /\ armed = {} /\ charged = {} /\ ledgerRows = [c \in Calls |-> 0] /\ rateHits = 0
    /\ pulls = [p \in Pullers |-> "idle"] /\ pullGate = NoPuller /\ pullSlot = NoPuller /\ pullCancelled = {} /\ pullAsked = {}
ModelCallStep(c) ==
    \/ \E kind \in {"chat", "predict"}, t \in MessageTokens : StartCloud(c, kind, t)
    \/ CountEnds(c) \/ CloudAnswers(c) \/ BodyUnread(c) \/ BodyRead(c)
    \/ StartLocal(c) \/ LocalReply(c) \/ SendAgain(c) \/ CancelledCall(c) \/ DroppedCall(c)
PullStep(p) == PullStart(p) \/ RegisterPull(p) \/ PullEnds(p) \/ LeavePull(p)
CallsNext ==
    \/ ((\E c \in Calls : ModelCallStep(c)) \/ AbortChat \/ HitExpires) /\ UNCHANGED pullVars
    \/ ((\E p \in Pullers : PullStep(p)) \/ CancelPull) /\ UNCHANGED cloudVars
CallsSpec == CallsInit /\ [][CallsNext]_callVars

(* ------------------------------- properties ------------------------------- *)
(* Types of the calls and pulls.                                              *)
CallsTypeOK ==
    /\ registered \subseteq Calls /\ aborted \subseteq Calls /\ armed \subseteq charged /\ charged \subseteq Calls
    /\ ledgerRows \in [Calls -> Nat] /\ rateHits \in 0 .. Rpm /\ pullGate \in Pullers \cup {NoPuller}

(* request and UnparsedBill: a call the provider answered with a 2xx leaves exactly  *)
(* one spend row, whether its body was read, refused, interrupted, aborted or dropped, *)
(* and a call that was never answered leaves none.                                  *)
BilledOnce ==
    \A c \in Calls :
       /\ ledgerRows[c] <= 1 /\ (ledgerRows[c] = 1 => c \in charged)
       /\ CallAt(c, "done") => (ledgerRows[c] = 1 <=> c \in charged)
(* pull_inner: a running pull's token is cancelled only by a cancel request that found   *)
(* it, never by the leftovers of the pull before it.                                  *)
PullAbortIsOwn == \A p \in Pullers : pulls[p] \in {"gated", "pulling"} /\ p \in pullCancelled => p \in pullAsked
==============================================================================
