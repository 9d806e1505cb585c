------------------------------- MODULE WebTurn -------------------------------
(***************************************************************************)
(* A chat turn that may read the web (server/chat_web.rs `run_inner') and     *)
(* the session's ledger of what it read (server/web_ledger.rs).  The turn     *)
(* alternates model calls and batches of reads: at most `chat_tool_calls'     *)
(* reads, every prompt within `web.total_tokens', the account and the URL      *)
(* policy looked at again around every await.                                  *)
(*                                                                             *)
(* Texts are token counts.  A call is its tool, its target and the size of the *)
(* smallest form its result can be cut to (URLs and queries are never cut).    *)
(***************************************************************************)
EXTENDS Integers, Sequences, FiniteSets, SequencesExt

CONSTANTS
    ToolCalls,     \* web.limits.chat_tool_calls
    TotalTokens,   \* web.total_tokens
    PromptTokens,  \* set of possible sizes of system prompt and history
    ToolTokens,    \* the tool definitions
    CallTokens,    \* one call in the assistant's batch
    Reservation,   \* reply_reservation
    MinResult,     \* MIN_EVIDENCE_TOKENS, calibrated
    FailureTokens, \* an error result: code, message and notice, never page text
    Minimals,      \* smallest forms of a call's result
    PageTokens,    \* sizes a result may have before it is cut
    Pages,         \* URLs a model may ask for
    MaxLedger,     \* web_ledger MAX_SOURCES
    MaxWebTurns, MaxPolicyChanges  \* bounds

ASSUME WebTurnAssumption ==
    /\ ToolCalls \in Nat /\ TotalTokens \in Nat
    /\ ToolTokens \in Nat /\ CallTokens \in Nat /\ Reservation \in Nat /\ MinResult \in Nat
    /\ FailureTokens \in Nat /\ FailureTokens <= MinResult
    /\ PromptTokens \subseteq Nat /\ Minimals \subseteq Nat /\ PageTokens \subseteq Nat \ {0}

VARIABLES
    web,        \* run_inner's local state
    permitted,  \* URLs the current policy allows
    webOwner,   \* the account may still use the web tools
    webTurns, policyChanges,
    webLedger   \* Session.web_sources, oldest first

webVars == <<web, permitted, webOwner, webTurns, policyChanges, webLedger>>

NoWeb == [pc |-> "idle", round |-> 0, used |-> 0, withheld |-> FALSE, offered |-> {}, tools |-> {},
          sent |-> 0, batch |-> <<>>, done |-> 0, ok |-> 0, sources |-> {}, searched |-> {}, closed |-> FALSE,
          loop |-> FALSE, events |-> <<>>]
WebIs(pc) == web.pc = pc
EndTurn(outcome) == web' = [NoWeb EXCEPT !.pc = outcome, !.used = web.used, !.events = web.events]
policyVars == <<permitted, webOwner, webTurns, policyChanges, webLedger>>

(* check_evidence: the account, and every URL the answer would rest on.       *)
EvidenceStands == webOwner /\ web.sources \subseteq permitted

(* StickyRoute: notes in the prompt close web_search unless the message asks   *)
(* for outside sources.                                                        *)
AllowsWebSearch(notes, asked) == ~notes \/ asked
NarrowTools(tools, closed) == IF closed THEN tools \ {"web_search"} ELSE tools

StartWebTurn(tools, notes, asked, loop, prompt) ==
    /\ web.pc \in {"idle", "answered", "refused", "budget", "limit", "failed"} /\ webTurns < MaxWebTurns
    /\ webTurns' = webTurns + 1
    /\ web' = [NoWeb EXCEPT !.pc = "round", !.tools = tools, !.closed = ~AllowsWebSearch(notes, asked),
                            !.loop = loop, !.sent = prompt]
    /\ UNCHANGED <<permitted, webOwner, policyChanges, webLedger>>

(* ---------------------------- a model call ---------------------------- *)
Left == ToolCalls - web.used
RoundFits(tools) ==
    /\ Left > 0 /\ ~web.withheld
    /\ web.sent + (IF tools = {} THEN 0 ELSE ToolTokens) + MinResult + Reservation <= TotalTokens

(* Offer the tools only while the prompt with their definitions, a minimal     *)
(* result and a reply fit; without them the prompt must still fit.             *)
BeginRound ==
    LET tools == NarrowTools(web.tools, web.closed)
        fits  == RoundFits(tools)
    IN  /\ WebIs("round") /\ web.round <= ToolCalls
        /\ IF ~EvidenceStands THEN EndTurn("refused")
           ELSE IF web.sent + (IF fits /\ tools # {} THEN ToolTokens ELSE 0) + Reservation > TotalTokens
           THEN EndTurn("budget")
           ELSE web' = [web EXCEPT !.pc = "model", !.offered = IF fits THEN tools ELSE {},
                                   !.withheld = @ \/ (~fits /\ Left > 0)]
        /\ UNCHANGED policyVars
RoundsExhausted ==
    /\ WebIs("round") /\ web.round > ToolCalls
    /\ EndTurn("limit")
    /\ UNCHANGED policyVars

(* ensure_window_allows or the call itself fails, or the turn is cancelled.    *)
ModelFails ==
    /\ web.pc \in {"model", "synthesis", "read"}
    /\ EndTurn("failed")
    /\ UNCHANGED policyVars

ModelAnswers ==
    /\ WebIs("model")
    /\ EndTurn(IF EvidenceStands THEN "answered" ELSE "refused")
    /\ UNCHANGED policyVars
(* hop_kind: a tool round of a plain turn has a smaller reply cap; an answer    *)
(* cut by it is asked for again without tools.                                 *)
ModelTruncates ==
    /\ WebIs("model") /\ web.offered # {} /\ ~web.loop
    /\ IF EvidenceStands THEN web' = [web EXCEPT !.pc = "synthesis"] ELSE EndTurn("refused")
    /\ UNCHANGED policyVars
SynthesisAnswers ==
    /\ WebIs("synthesis")
    /\ EndTurn("answered")
    /\ UNCHANGED policyVars

(* ------------------------------- a batch ------------------------------ *)
Call(tool, target, minimal) == [tool |-> tool, target |-> target, minimal |-> minimal]
CallSet == {Call(tool, p, m) : tool \in {"web_search", "web_fetch"}, p \in Pages, m \in Minimals}
CallBatches == UNION {[1..n -> CallSet] : n \in 1..(ToolCalls + 1)}

Reserve(call) == IF call.minimal > MinResult THEN call.minimal ELSE MinResult
(* What the calls of a batch after the first i must be left.                    *)
Later(calls, i) ==
    LET n == Len(calls)
        lastOnes[k \in 0..n] == IF k = 0 THEN 0 ELSE Reserve(calls[n + 1 - k]) + lastOnes[k - 1]
    IN  lastOnes[n - i]
MutBatchRoom(calls) == web.sent + Later(calls, 0) + Reservation <= TotalTokens
BatchRoom(calls) == web.sent + CallTokens * Len(calls) + Later(calls, 0) + Reservation <= TotalTokens

Withdraw == [web EXCEPT !.pc = "round", !.round = @ + 1, !.withheld = TRUE]

(* The whole batch is checked before the first read: more calls than are left,  *)
(* a tool not offered by the mode, or malformed arguments end the turn; a call   *)
(* for the closed search, or a batch whose minimal results do not fit, runs      *)
(* nothing and withdraws the tools.                                              *)
RefuseOversize == Withdraw
ModelCalls(calls) ==
    /\ web.pc \in {"model", "synthesis"}
    /\ IF WebIs("model") /\ ~EvidenceStands THEN EndTurn("refused")
       ELSE IF web.offered = {} \/ Len(calls) > Left THEN EndTurn("failed")
       ELSE IF \E i \in DOMAIN calls : calls[i].tool = "web_search" /\ web.closed THEN web' = Withdraw
       ELSE IF \E i \in DOMAIN calls : calls[i].tool \notin web.tools THEN EndTurn("failed")
       ELSE IF ~BatchRoom(calls) THEN web' = RefuseOversize
       ELSE web' = [web EXCEPT !.pc = "read", !.batch = calls, !.done = 0, !.ok = 0, !.used = @ + Len(calls),
                               !.sent = @ + CallTokens * Len(calls)]
    /\ UNCHANGED policyVars

(* fit_result: the largest cut of the result that leaves the later calls their  *)
(* reserves; -1 when not even the smallest form fits.                            *)
FitResult(call, size, later) ==
    LET room == TotalTokens - Reservation - later - web.sent
    IN  IF size <= room THEN size
        ELSE IF call.minimal <= room THEN room ELSE -1

(* One read: search results of this turn are reused, a page must be permitted,  *)
(* and a refused or failed read is that call's result, not the end of the turn.  *)
Read(size) ==
    LET call  == web.batch[web.done + 1]
        later == Later(web.batch, web.done + 1)
        fit   == IF call.tool = "web_fetch" /\ call.target \notin permitted THEN -1
                 ELSE FitResult(call, size, later)
        ok    == size > 0 /\ fit >= 0
        pages == IF ok /\ call.tool = "web_fetch" THEN {call.target} ELSE {}
    IN  /\ WebIs("read") /\ web.done < Len(web.batch)
        /\ size = 0 \/ size >= call.minimal
        /\ IF ~EvidenceStands THEN EndTurn("refused")
           ELSE web' = [web EXCEPT !.done = @ + 1, !.ok = IF ok THEN @ + 1 ELSE @,
                   !.sent = @ + (IF ok THEN fit ELSE FailureTokens),
                   !.sources = @ \cup pages,
                   !.searched = IF ok /\ call.tool = "web_search" THEN @ \cup {call.target} ELSE @,
                   !.events = Append(@, [tool |-> call.tool, target |-> call.target, ok |-> ok])]
        /\ UNCHANGED policyVars

(* A batch without one success ends the turn when there is no evidence at all,   *)
(* and otherwise withdraws the tools.                                            *)
EndBatch ==
    /\ WebIs("read") /\ web.done = Len(web.batch)
    /\ IF web.ok = 0 /\ web.sources = {} /\ web.searched = {} THEN EndTurn("answered")
       ELSE web' = [web EXCEPT !.pc = "round", !.round = @ + 1, !.withheld = @ \/ web.ok = 0,
                                 !.batch = <<>>, !.done = 0]
    /\ UNCHANGED policyVars

(* -------------------- policy and ledger around a turn ------------------ *)
ChangePolicy ==
    /\ policyChanges < MaxPolicyChanges
    /\ policyChanges' = policyChanges + 1
    /\ \/ \E p \in Pages : /\ permitted' = IF p \in permitted THEN permitted \ {p} ELSE permitted \cup {p}
                           /\ UNCHANGED webOwner
       \/ webOwner' = ~webOwner /\ UNCHANGED permitted
    /\ UNCHANGED <<web, webTurns, webLedger>>

(* record_turn: attempts and failures per target, and the turn of the latest    *)
(* read; beyond the limit the least recently read target goes.                   *)
NewSource(e) == [tool |-> e.tool, target |-> e.target, reads |-> 0, failures |-> 0, turn |-> 0, repeats |-> 0]
SourceAt(rows, e) == {i \in DOMAIN rows : rows[i].tool = e.tool /\ rows[i].target = e.target}
Counted(row, e) ==
    [row EXCEPT !.reads = @ + 1, !.failures = IF e.ok THEN @ ELSE @ + 1,
                !.repeats = IF row.turn > 0 /\ row.turn < webTurns THEN @ + 1 ELSE @, !.turn = webTurns]
CountEvent(rows, e) ==
    IF SourceAt(rows, e) = {} THEN Append(rows, Counted(NewSource(e), e))
    ELSE [i \in DOMAIN rows |-> IF i \in SourceAt(rows, e) THEN Counted(rows[i], e) ELSE rows[i]]
Oldest(rows) == CHOOSE i \in DOMAIN rows : \A j \in DOMAIN rows :
                    rows[i].turn < rows[j].turn \/ (rows[i].turn = rows[j].turn /\ i <= j)
Evicted(rows) == IF Len(rows) <= MaxLedger THEN rows ELSE RemoveAt(rows, Oldest(rows))
RecordTurn ==
    /\ WebIs("answered") /\ web.events # <<>>
    /\ webLedger' = FoldLeft(LAMBDA rows, e : Evicted(CountEvent(rows, e)), webLedger, web.events)
    /\ web' = NoWeb
    /\ UNCHANGED <<permitted, webOwner, webTurns, policyChanges>>

WebTurnInit ==
    /\ web = NoWeb /\ permitted = Pages /\ webOwner = TRUE
    /\ webTurns = 0 /\ policyChanges = 0 /\ webLedger = <<>>

WebTurnNext ==
    \/ \E tools \in {{"web_search", "web_fetch"}, {"web_search"}}, notes, asked, loop \in BOOLEAN, prompt \in PromptTokens :
          StartWebTurn(tools, notes, asked, loop, prompt)
    \/ BeginRound \/ RoundsExhausted \/ ModelFails \/ ModelAnswers \/ ModelTruncates \/ SynthesisAnswers
    \/ \E calls \in CallBatches : ModelCalls(calls)
    \/ \E size \in PageTokens \cup {0} : Read(size)
    \/ EndBatch \/ ChangePolicy \/ RecordTurn
WebTurnSpec == WebTurnInit /\ [][WebTurnNext]_webVars

WebTurnTypeOK ==
    /\ web.pc \in {"idle", "round", "model", "synthesis", "read", "answered", "refused", "budget", "limit", "failed"}
    /\ web.used \in 0..ToolCalls /\ web.round \in 0..(ToolCalls + 1)
    /\ permitted \subseteq Pages /\ Len(webLedger) <= MaxLedger
    /\ \A i \in DOMAIN webLedger : webLedger[i].failures <= webLedger[i].reads

(* The loop always reaches an answer or a named refusal inside its rounds: the  *)
(* error after the loop, "chat tool limit exceeded" (chat_web.rs:893), is never   *)
(* returned, because every round spends a call, withdraws the tools or ends.      *)
RoundsSuffice == web.pc # "limit"

(* A turn that ran reads never loses them to the token budget: whatever the       *)
(* reads returned, the next prompt with their results and the reply's reservation  *)
(* fits web.total_tokens (chat_web.rs:690-713, 805-821, 468).                      *)
FollowUpFits ==
    /\ web.pc = "budget" => web.used = 0
    /\ web.used > 0 /\ web.pc \in {"round", "read", "model"} => web.sent + Later(web.batch, web.done) + Reservation <= TotalTokens
=============================================================================
