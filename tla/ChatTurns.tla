------------------------------ MODULE ChatTurns ------------------------------
(***************************************************************************)
(* One chat turn from request to stored exchange, and the session store it  *)
(* writes to (server/routes/core.rs `chat_inner', server/sessions.rs,        *)
(* server/compaction.rs).  A turn reads a SNAPSHOT of its session, waits for  *)
(* the window check, takes the one chat lease and the generation gate, may    *)
(* compact the history it read, asks the model, books the usage and only      *)
(* then re-reads the session under the store lock and appends the exchange.   *)
(* Every await is a point where the turn can be cancelled, where its handler   *)
(* can be dropped with the connection, and where other requests run.           *)
(*                                                                             *)
(* A message is who spoke and which turns it stands for: one turn, or for the  *)
(* compaction summary every turn it was written from.  All texts have size 1;  *)
(* token limits are therefore counted in messages.                             *)
(***************************************************************************)
EXTENDS Integers, FiniteSets, Sequences, SequencesExt

CONSTANTS
    ChatOwners,      \* accounts
    SessionIds,      \* random session ids
    Turns,           \* chat requests of one behaviour
    PastTurns,       \* sequence of turns already stored in the first session
    FirstSession,    \* the session that holds them
    FirstOwner,      \* its owner
    KeepMessages,    \* chat.compact_keep_messages
    TailTokens,      \* the verbatim tail's token budget
    TriggerTokens,   \* the compaction trigger, less the fixed prompt and reply
    HardTokens,      \* the hard prompt limit, less the fixed prompt and reservation
    WorthTokens,     \* twice what a summary costs
    MaxMessages,     \* sessions.rs MAX_MESSAGES
    MaxEdits         \* bound: session edits besides turns

ASSUME ChatAssumption ==
    /\ MaxMessages \in Nat /\ MaxMessages % 2 = 0 /\ MaxMessages > 3
    /\ KeepMessages \in Nat \ {0} /\ TailTokens \in Nat
    /\ TriggerTokens \in Nat /\ HardTokens \in Nat /\ TriggerTokens <= HardTokens
    /\ FirstSession \in SessionIds /\ FirstOwner \in ChatOwners /\ "none" \notin ChatOwners
    /\ PastTurns \in Seq(Range(PastTurns)) /\ "none" \notin Turns \cup Range(PastTurns)

VARIABLES
    sessions,    \* the files of the session directory
    edits,       \* history: edits accepted per session id
    chatCleared,     \* history: session ids that were cleared
    stored,      \* history: the first turn each session accepted, and those MAX_MESSAGES has not dropped
    chatTurns,       \* the handlers' local state
    chatLease,   \* AppState.chat_owner: the turn that holds it
    cancelled,   \* leases whose token was cancelled
    modelGate,   \* the generation gate is held by a chat turn
    loopClaims,  \* AppState.loop_inflight
    clearing,    \* owners whose clear request has cancelled but not yet deleted
    ledger,      \* rows of logs/spend.jsonl per turn
    responded    \* history: turns whose local model call returned usage

chatVars == <<sessions, edits, chatCleared, stored, chatTurns, chatLease, cancelled,
              modelGate, loopClaims, clearing, ledger, responded>>
storeVars == <<sessions, edits, chatCleared, stored>>
claimVars == <<chatLease, modelGate, loopClaims>>

NoHolder == "none"
NoSession == [owner |-> NoHolder, msgs |-> <<>>, edits |-> 0]
Exists(s) == sessions[s] # NoSession

Said(role, who) == [role |-> role, of |-> {who}, summary |-> FALSE]
SummaryOf(msgs) ==
    [role |-> "assistant", of |-> UNION {m.of : m \in Range(msgs)}, summary |-> TRUE]
Exchange(t) == <<Said("user", t), Said("assistant", t)>>
Exchanges(ts) == [i \in 1..2 * Len(ts) |-> Said(IF i % 2 = 1 THEN "user" ELSE "assistant", ts[(i + 1) \div 2])]
NothingStored == [first |-> NoHolder, turns |-> {}]
RecordedIn(was, t, lost) ==
    [first |-> IF was.first = NoHolder THEN t ELSE was.first, turns |-> (was.turns \cup {t}) \ lost]

(* --------------------------- compaction.rs ---------------------------- *)
UserAt(msgs) == {i \in DOMAIN msgs : msgs[i].role = "user"}
Least(S) == CHOOSE i \in S : \A j \in S : i <= j
Greatest(S) == CHOOSE i \in S : \A j \in S : j <= i

FirstUser(msgs) == IF UserAt(msgs) = {} THEN 0 ELSE Least(UserAt(msgs))

(* The tail starts at the first user message at or after Len - keep and      *)
(* after the first one, else at the last user message; 0 when there is       *)
(* nothing to compact.                                                       *)
TailStart(msgs, keep) ==
    LET k     == IF keep = 0 THEN 1 ELSE keep
        after == FirstUser(msgs) + 1
        from  == IF Len(msgs) - k + 1 > after THEN Len(msgs) - k + 1 ELSE after
        near  == {i \in UserAt(msgs) : i >= from}
        later == {i \in UserAt(msgs) : i >= after}
    IN  IF Len(msgs) <= k + 1 THEN 0
        ELSE IF near # {} THEN Least(near)
        ELSE IF later # {} THEN Greatest(later) ELSE 0

MiddleTurns(msgs, keep) ==
    LET tail == TailStart(msgs, keep) first == FirstUser(msgs)
    IN  IF tail = 0 THEN <<>>
        ELSE SubSeq(msgs, IF first # 0 /\ first < tail THEN first + 1 ELSE 1, tail - 1)

CompactMessages(msgs, keep, summary) ==
    LET tail == TailStart(msgs, keep) first == FirstUser(msgs)
    IN  IF tail = 0 THEN msgs
        ELSE (IF first # 0 /\ first < tail THEN <<msgs[first]>> ELSE <<>>)
             \o (IF MiddleTurns(msgs, keep) # <<>> THEN <<summary>> ELSE <<>>)
             \o SubSeq(msgs, tail, Len(msgs))

RetainedMessages(msgs, keep) ==
    SelectSeq(CompactMessages(msgs, keep, [role |-> "none"]), LAMBDA m : m.role # "none")

(* Newest whole exchanges within the message and token budgets, never less   *)
(* than the last one.  Both budgets only get tighter going back, so the      *)
(* loop's first refusal ends it.                                              *)
TailKeep(msgs) ==
    LET starts == {i \in UserAt(msgs) : i > FirstUser(msgs)}
        fits   == {i \in starts : /\ Len(msgs) - i + 1 <= KeepMessages
                                  /\ Len(msgs) - i + 1 <= TailTokens}
    IN  IF starts = {} THEN KeepMessages
        ELSE Len(msgs) + 1 - (IF fits = {} THEN Greatest(starts) ELSE Least(fits))

SummarySlot(msgs) ==
    LET i == FirstUser(msgs) + 1
    IN  IF FirstUser(msgs) # 0 /\ i <= Len(msgs) /\ msgs[i].summary THEN i ELSE 0

(* What the model receives: the stored summary becomes an assistant bridge,  *)
(* a user note, and an assistant acknowledgement unless an assistant message *)
(* follows.                                                                   *)
PromptRoles(msgs) ==
    LET slot  == SummarySlot(msgs)
        roles == [i \in DOMAIN msgs |-> msgs[i].role]
        note  == <<"assistant", "user">> \o
                 IF slot < Len(msgs) /\ roles[slot + 1] = "assistant" THEN <<>> ELSE <<"assistant">>
    IN  IF slot = 0 THEN roles
        ELSE SubSeq(roles, 1, slot - 1) \o note \o SubSeq(roles, slot + 1, Len(msgs))
Projected(msgs, extra) == Len(PromptRoles(msgs)) + extra

(* ------------------------------ the turn ------------------------------ *)
NoPlan == [keep |-> 0, summary |-> SummaryOf(<<>>)]
IdleTurn == [pc |-> "idle", sid |-> FirstSession, owner |-> FirstOwner, kind |-> "local",
             snap |-> <<>>, plan |-> NoPlan, fits |-> TRUE, pending |-> FALSE]
At(t, pc) == chatTurns[t].pc = pc
Goto(t, pc) == chatTurns' = [chatTurns EXCEPT ![t].pc = pc]

(* The awaits under the cancellation selects; a cancelled turn polled there   *)
(* takes the cancel branch.                                                   *)
Awaits == {"gate", "load", "compose", "summarize", "recheck", "reply", "read", "episode"}
Polled(t, pc) == At(t, pc) /\ t \notin cancelled

ChatInit ==
    /\ sessions = [s \in SessionIds |->
          IF s = FirstSession
          THEN [owner |-> FirstOwner, msgs |-> Exchanges(PastTurns), edits |-> 0]
          ELSE NoSession]
    /\ stored = [s \in SessionIds |->
          IF s = FirstSession /\ PastTurns # <<>>
          THEN [first |-> Head(PastTurns), turns |-> Range(PastTurns)] ELSE NothingStored]
    /\ edits = [s \in SessionIds |-> 0]
    /\ chatCleared = {} /\ clearing = {} /\ cancelled = {} /\ loopClaims = {}
    /\ chatLease = NoHolder /\ modelGate = NoHolder
    /\ chatTurns = [t \in Turns |-> IdleTurn]
    /\ ledger = [t \in Turns |-> 0]
    /\ responded = {}

(* Every exit drops the guards: the loop claim, the gate, the lease, and the  *)
(* pending usage, which is written as failed_after_billing.  `rows' is what    *)
(* the exit path itself wrote after taking the pending usage.                  *)
Claiming == {"gate", "load", "compose", "summarize", "recheck", "reply"}
PendingRows(t) == IF chatTurns[t].pending THEN 1 ELSE 0
LeaveChat(t, rows) ==
    /\ chatTurns' = [chatTurns EXCEPT ![t] = [IdleTurn EXCEPT !.pc = "done"]]
    /\ chatLease' = IF chatLease = t THEN NoHolder ELSE chatLease
    /\ modelGate' = IF modelGate = t THEN NoHolder ELSE modelGate
    /\ loopClaims' = IF chatTurns[t].kind = "loop" /\ chatTurns[t].pc \in Claiming
                     THEN loopClaims \ {chatTurns[t].sid} ELSE loopClaims
    /\ ledger' = [ledger EXCEPT ![t] = @ + rows]
    /\ cancelled' = cancelled \ {t}
DropTurn(t) == LeaveChat(t, PendingRows(t)) /\ UNCHANGED <<storeVars, clearing, responded>>

(* The session is created or read once; everything up to the reply uses this  *)
(* snapshot.                                                                   *)
Begin(t, o, s, kind, msgs) ==
    chatTurns' = [chatTurns EXCEPT ![t] = [IdleTurn EXCEPT !.pc = "verify", !.sid = s, !.owner = o,
                                       !.kind = kind, !.snap = msgs]]
SnapshotSession(t, o, s, kind) ==
    /\ At(t, "idle") /\ sessions[s].owner = o
    /\ Begin(t, o, s, kind, sessions[s].msgs)
    /\ UNCHANGED <<storeVars, claimVars, cancelled, clearing, ledger, responded>>
CreateSession(t, o, s) ==
    /\ At(t, "idle") /\ ~Exists(s) /\ s \notin chatCleared
    /\ sessions' = [sessions EXCEPT ![s] = [NoSession EXCEPT !.owner = o]]
    /\ Begin(t, o, s, "local", <<>>)
    /\ UNCHANGED <<edits, chatCleared, stored, claimVars, cancelled, clearing, ledger, responded>>

(* After the window check: the loop claim, then the lease.  Another claim of    *)
(* the session refuses the turn only while it is younger than its TTL.          *)
ClaimLoop(t) == loopClaims' = IF chatTurns[t].kind = "loop" THEN loopClaims \cup {chatTurns[t].sid} ELSE loopClaims
EnterTurn(t) ==
    /\ At(t, "verify") /\ chatLease = NoHolder
    /\ chatLease' = t /\ ClaimLoop(t)
    /\ Goto(t, "gate")
    /\ UNCHANGED <<storeVars, modelGate, cancelled, clearing, ledger, responded>>
(* No lease: the turn gives back the claim it made.  A younger claim: it made   *)
(* none, and leaves that one alone.                                             *)
RefuseBusy(t) ==
    /\ At(t, "verify") /\ chatLease # NoHolder
    /\ chatTurns' = [chatTurns EXCEPT ![t] = [IdleTurn EXCEPT !.pc = "done"]]
    /\ loopClaims' = IF chatTurns[t].kind = "loop" THEN loopClaims \ {chatTurns[t].sid} ELSE loopClaims
    /\ UNCHANGED <<storeVars, chatLease, modelGate, cancelled, clearing, ledger, responded>>
RefuseLoop(t) ==
    /\ At(t, "verify") /\ chatTurns[t].kind = "loop" /\ chatTurns[t].sid \in loopClaims
    /\ chatTurns' = [chatTurns EXCEPT ![t] = [IdleTurn EXCEPT !.pc = "done"]]
    /\ UNCHANGED <<storeVars, claimVars, cancelled, clearing, ledger, responded>>

TakeGate(t) ==
    /\ Polled(t, "gate") /\ modelGate = NoHolder
    /\ modelGate' = t
    /\ Goto(t, "load")
    /\ UNCHANGED <<storeVars, chatLease, loopClaims, cancelled, clearing, ledger, responded>>
LoadModel(t) ==
    /\ Polled(t, "load")
    /\ Goto(t, "compose")
    /\ UNCHANGED <<storeVars, claimVars, cancelled, clearing, ledger, responded>>

(* The new message's size with the fixed prompt: it fits or exceeds the limit. *)
PasteSizes == {0, HardTokens + 1}
Plan(t) == [keep |-> TailKeep(chatTurns[t].snap),
            summary |-> SummaryOf(MiddleTurns(chatTurns[t].snap, TailKeep(chatTurns[t].snap)))]
Over(msgs, n) == Projected(msgs, n) > TriggerTokens \/ Projected(msgs, n) > HardTokens
Scaffold == 2

(* Compaction is decided on the snapshot: refuse a message too large alone or  *)
(* a history that stays too large, skip what gains nothing, else summarize.     *)
Compose(t, n) ==
    LET snap   == chatTurns[t].snap
        keep   == TailKeep(snap)
        middle == MiddleTurns(snap, keep)
        fits   == Projected(snap, n) <= HardTokens
        kept   == Projected(RetainedMessages(snap, keep), n) + IF middle = <<>> THEN 0 ELSE Scaffold
        bare   == CompactMessages(snap, keep, SummaryOf(<<>>))
    IN  /\ Polled(t, "compose")
        /\ CASE chatTurns[t].kind = "cloud" -> Goto(t, "reply")
             [] chatTurns[t].kind # "cloud" /\ ~Over(snap, n) -> Goto(t, "recheck")
             [] OTHER -> /\ n <= TriggerTokens
                         /\ kept <= HardTokens \/ fits
                         /\ IF fits /\ Len(middle) < WorthTokens THEN Goto(t, "recheck")
                            ELSE IF middle = <<>>
                            THEN /\ Projected(bare, n) <= HardTokens
                                 /\ chatTurns' = [chatTurns EXCEPT ![t].pc = "recheck", ![t].plan = Plan(t)]
                            ELSE chatTurns' = [chatTurns EXCEPT ![t].pc = "summarize", ![t].fits = fits]
        /\ UNCHANGED <<storeVars, claimVars, cancelled, clearing, ledger, responded>>
TooLarge(t, n) ==
    LET snap == chatTurns[t].snap keep == TailKeep(snap) middle == MiddleTurns(snap, keep)
        kept == Projected(RetainedMessages(snap, keep), n) + IF middle = <<>> THEN 0 ELSE Scaffold
    IN  /\ Polled(t, "compose") /\ chatTurns[t].kind # "cloud" /\ Over(snap, n)
        /\ \/ n > TriggerTokens
           \/ kept > HardTokens /\ Projected(snap, n) > HardTokens
        /\ DropTurn(t)

(* The summary call: usable output is planned for this turn, an unusable one   *)
(* is skipped when the whole history fits, anything else ends the turn.         *)
Summarize(t) ==
    /\ Polled(t, "summarize")
    /\ \/ chatTurns' = [chatTurns EXCEPT ![t].pc = "recheck", ![t].plan = Plan(t)]
       \/ chatTurns[t].fits /\ Goto(t, "recheck")
    /\ UNCHANGED <<storeVars, claimVars, cancelled, clearing, ledger, responded>>
Recheck(t) ==
    /\ Polled(t, "recheck")
    /\ Goto(t, "reply")
    /\ UNCHANGED <<storeVars, claimVars, cancelled, clearing, ledger, responded>>

(* A refused gate, a load error, a changed window, a failed summary, or a model *)
(* call that failed before any response: nothing was billed by this turn.        *)
FailUnbilled(t) ==
    /\ \E pc \in {"gate", "load", "summarize", "recheck", "reply"} : Polled(t, pc)
    /\ ~chatTurns[t].pending
    /\ DropTurn(t)

(* Web chat: each tool round overwrites the pending usage with the running sum. *)
ToolRound(t) ==
    /\ Polled(t, "reply") /\ chatTurns[t].kind # "cloud"
    /\ chatTurns' = [chatTurns EXCEPT ![t].pending = TRUE]
    /\ responded' = responded \cup {t}
    /\ UNCHANGED <<storeVars, claimVars, cancelled, clearing, ledger>>
(* The loop claim ends with the model's answer, before it is stored.  The       *)
(* answer's usage is pending until the context-window read is over.             *)
Answer(t) ==
    /\ Polled(t, "reply")
    /\ loopClaims' = IF chatTurns[t].kind = "loop" THEN loopClaims \ {chatTurns[t].sid} ELSE loopClaims
    /\ IF chatTurns[t].kind = "cloud"
       THEN Goto(t, "store") /\ UNCHANGED responded
       ELSE /\ chatTurns' = [chatTurns EXCEPT ![t].pc = "read", ![t].pending = TRUE]
            /\ responded' = responded \cup {t}
    /\ UNCHANGED <<storeVars, chatLease, modelGate, cancelled, clearing, ledger>>
(* An empty answer, or an error that carries usage: the exit takes the pending  *)
(* usage and writes one row itself.                                              *)
FailBilled(t) ==
    /\ Polled(t, "reply") /\ chatTurns[t].kind # "cloud"
    /\ LeaveChat(t, 1)
    /\ responded' = responded \cup {t}
    /\ UNCHANGED <<storeVars, clearing>>
BillUsage(t) ==
    /\ Polled(t, "read")
    /\ chatTurns' = [chatTurns EXCEPT ![t].pc = "store", ![t].pending = FALSE]
    /\ ledger' = [ledger EXCEPT ![t] = @ + 1]
    /\ UNCHANGED <<storeVars, claimVars, cancelled, clearing, responded>>

(* record_exchange_inner: the session is read again under the lock, compacted   *)
(* with the plan made from the snapshot, extended, and cut to MAX_MESSAGES by    *)
(* whole exchanges after the pinned first one.                                   *)
Appended(t, msgs) ==
    (IF chatTurns[t].plan = NoPlan THEN msgs
     ELSE CompactMessages(msgs, chatTurns[t].plan.keep, chatTurns[t].plan.summary)) \o Exchange(t)
CapHead(msgs) == IF FirstUser(msgs) = 0 THEN 0
                 ELSE IF FirstUser(msgs) < Len(msgs) THEN FirstUser(msgs) + 1 ELSE Len(msgs)
CapDrop(msgs) ==
    LET excess == Len(msgs) - MaxMessages
        room   == IF Len(msgs) > CapHead(msgs) + 2 THEN Len(msgs) - CapHead(msgs) - 2 ELSE 0
        want   == excess + (excess % 2)
    IN  IF excess <= 0 THEN 0 ELSE IF want < room THEN want ELSE room
CapCut(msgs) == (CapHead(msgs) + 1) .. (CapHead(msgs) + CapDrop(msgs))
Capped(msgs) == SubSeq(msgs, 1, CapHead(msgs)) \o SubSeq(msgs, CapHead(msgs) + CapDrop(msgs) + 1, Len(msgs))
MutRecordExchange(t) ==
    LET s == chatTurns[t].sid
    IN  /\ At(t, "store")
        /\ sessions' = [sessions EXCEPT ![s].msgs = Capped(Appended(t, chatTurns[t].snap)),
                                        ![s].owner = chatTurns[t].owner]
        /\ stored' = [stored EXCEPT ![s] = RecordedIn(@, t, {})]
        /\ Goto(t, "episode")
        /\ UNCHANGED <<edits, chatCleared, claimVars, cancelled, clearing, ledger, responded>>
RecordExchange(t) ==
    LET s == chatTurns[t].sid msgs == Appended(t, sessions[s].msgs)
        lost == UNION {msgs[i].of : i \in CapCut(msgs)}
    IN  /\ At(t, "store") /\ Exists(s)
        /\ sessions' = [sessions EXCEPT ![s].msgs = Capped(msgs)]
        /\ stored' = [stored EXCEPT ![s] = RecordedIn(@, t, lost)]
        /\ Goto(t, IF chatTurns[t].kind = "cloud" THEN "episode" ELSE "pin")
        /\ UNCHANGED <<edits, chatCleared, claimVars, cancelled, clearing, ledger, responded>>
(* merge_attachment_pins is a second write of its own; the session may be gone. *)
PinAttachments(t) ==
    /\ At(t, "pin") /\ Exists(chatTurns[t].sid)
    /\ Goto(t, "episode")
    /\ UNCHANGED <<storeVars, claimVars, cancelled, clearing, ledger, responded>>
LateReply(t) == (At(t, "store") \/ At(t, "pin")) /\ ~Exists(chatTurns[t].sid) /\ DropTurn(t)
FinishTurn(t) == Polled(t, "episode") /\ DropTurn(t)

(* The cancel branch of the selects, and a handler dropped with its request.    *)
CancelTurn(t) == t \in cancelled /\ chatTurns[t].pc \in Awaits /\ DropTurn(t)
DropHandler(t) == chatTurns[t].pc \in Awaits \cup {"verify"} /\ DropTurn(t)

(* --------------------------- other requests ---------------------------- *)
CancelledBy(o) == IF chatLease # NoHolder /\ chatTurns[chatLease].owner = o THEN {chatLease} ELSE {}
CancelChat(o) ==
    /\ CancelledBy(o) # {}
    /\ cancelled' = cancelled \cup CancelledBy(o)
    /\ UNCHANGED <<storeVars, chatTurns, claimVars, clearing, ledger, responded>>

(* clear_sessions cancels the owner's running turn, then deletes under the lock. *)
ClearBegin(o) ==
    /\ o \notin clearing
    /\ clearing' = clearing \cup {o}
    /\ cancelled' = cancelled \cup CancelledBy(o)
    /\ UNCHANGED <<storeVars, chatTurns, claimVars, ledger, responded>>
ClearStore(o) ==
    LET mine == {s \in SessionIds : sessions[s].owner = o}
    IN  /\ o \in clearing
        /\ clearing' = clearing \ {o}
        /\ sessions' = [s \in SessionIds |-> IF s \in mine THEN NoSession ELSE sessions[s]]
        /\ chatCleared' = chatCleared \cup mine
        /\ stored' = [s \in SessionIds |-> IF s \in mine THEN NothingStored ELSE stored[s]]
        /\ UNCHANGED <<edits, chatTurns, claimVars, cancelled, ledger, responded>>

(* Title, goal, skills, style, facts, recall line, unpin: each reads, changes    *)
(* one field and writes the session under the lock.                              *)
EditSession(s) ==
    /\ Exists(s) /\ edits[s] < MaxEdits
    /\ sessions' = [sessions EXCEPT ![s].edits = @ + 1]
    /\ edits' = [edits EXCEPT ![s] = @ + 1]
    /\ UNCHANGED <<chatCleared, stored, chatTurns, claimVars, cancelled, clearing, ledger, responded>>

BeginChatTurn(t) ==
    \E o \in ChatOwners, s \in SessionIds :
        \/ \E kind \in {"local", "loop", "cloud"} : SnapshotSession(t, o, s, kind)
        \/ CreateSession(t, o, s)
ChatTurnStep(t) ==
    \/ EnterTurn(t) \/ RefuseBusy(t) \/ RefuseLoop(t) \/ TakeGate(t) \/ LoadModel(t)
    \/ \E n \in PasteSizes : Compose(t, n) \/ TooLarge(t, n)
    \/ Summarize(t) \/ Recheck(t) \/ FailUnbilled(t)
    \/ ToolRound(t) \/ Answer(t) \/ FailBilled(t) \/ BillUsage(t)
    \/ RecordExchange(t) \/ PinAttachments(t) \/ LateReply(t) \/ FinishTurn(t)
    \/ CancelTurn(t) \/ DropHandler(t)
ChatNext ==
    \/ \E t \in Turns : BeginChatTurn(t) \/ ChatTurnStep(t)
    \/ \E o \in ChatOwners : CancelChat(o) \/ ClearBegin(o) \/ ClearStore(o)
    \/ \E s \in SessionIds : EditSession(s)

ChatSpec == ChatInit /\ [][ChatNext]_chatVars

(* ----------------------------- properties ------------------------------ *)
ChatTypeOK ==
    /\ \A s \in SessionIds : /\ sessions[s].owner \in ChatOwners \cup {NoHolder}
                             /\ Len(sessions[s].msgs) <= MaxMessages + 1
    /\ \A t \in Turns : chatTurns[t].pc \in Awaits \cup {"idle", "verify", "store", "pin", "done"}
    /\ {chatLease, modelGate} \subseteq Turns \cup {NoHolder}
    /\ loopClaims \subseteq SessionIds

(* A local model response enters the spend ledger exactly once, however the     *)
(* turn ends: stored, empty, failed after some web rounds, cancelled at any      *)
(* await, or dropped with its connection (core.rs:1054-1083, 1521-1531,          *)
(* 1600-1614, 1689-1705, 1870-1885).                                             *)
SpendOnce ==
    \A t \in Turns : /\ ledger[t] <= IF t \in responded THEN 1 ELSE 0
                     /\ At(t, "done") /\ t \in responded => ledger[t] = 1

(* A turn that answers late neither brings a cleared session back nor undoes an  *)
(* edit another request made while the model was working: the exchange is added  *)
(* to the session as it is then, not to the snapshot (sessions.rs:611-650, 718). *)
LateReplyIsAdded ==
    \A s \in SessionIds : /\ s \in chatCleared => ~Exists(s)
                          /\ Exists(s) => sessions[s].edits = edits[s]

(* For any keep count, stale or not, and after any cut at MAX_MESSAGES, the      *)
(* roles sent to the model alternate from a user message, and the session's      *)
(* first user message is still the first one stored (compaction.rs:335-337,      *)
(* 457-461; sessions.rs:735-744).                                                *)
PromptWellFormed ==
    \A s \in SessionIds :
        LET msgs == sessions[s].msgs roles == PromptRoles(msgs)
        IN  msgs # <<>> => /\ msgs[1] = Said("user", stored[s].first)
                           /\ \A i \in DOMAIN roles :
                                 roles[i] = IF i % 2 = 1 THEN "user" ELSE "assistant"

(* What compaction removes, its summary was written from: every stored exchange  *)
(* that MAX_MESSAGES has not dropped is in the session verbatim or in the        *)
(* summary ("First user plus recent tail. These turns are never summarized        *)
(* away", compaction.rs:387).                                                     *)
HistoryKept ==
    \A s \in SessionIds :
        stored[s].turns \subseteq UNION {m.of : m \in Range(sessions[s].msgs)}
=============================================================================
