---------------------------- MODULE TurnExcerpts -----------------------------
(***************************************************************************)
(* What a turn carries besides its message: files pinned to the session        *)
(* (server/retrieval.rs, the session's pins), and the log excerpt an            *)
(* operator read and staged with /diag (server/diag_reader.rs, routes/diag.rs). *)
(* Local chat carries both, a loop turn files only, cloud chat and the coding   *)
(* agent refuse while either is waiting.  One chat turn runs at a time; reads,  *)
(* role changes, clears and previews run beside it.                             *)
(***************************************************************************)
EXTENDS Integers, FiniteSets, Sequences, SequencesExt

CONSTANTS
    Readers,        \* accounts
    ChatSessions, SessionOwner,
    FileIds, FileOwner,
    MaxPinned,      \* MAX_PINNED_ATTACHMENTS
    MaxStagings     \* bound

ASSUME ExcerptAssumption ==
    /\ MaxPinned \in Nat \ {0} /\ SessionOwner \in [ChatSessions -> Readers] /\ FileOwner \in [FileIds -> Readers \cup {"another"}]

VARIABLES
    roleOf,       \* each account's role
    reading,      \* accounts with an authorized /diag read under way
    lastRead,     \* accounts whose last read is remembered
    staged,       \* each account's staged excerpt: [n, session], n = 0 for none
    stagings,     \* excerpts staged so far
    demoting,     \* a role change between forget_owner and set_role
    liveFiles,    \* blobs in the attachment store
    pinned,       \* each session's pins, oldest first
    chatTurn,     \* the turn holding the chat lease
    carried,      \* history: prompts an excerpt went into, [n, surface, session, turn]
    turnNo

excerptVars == <<roleOf, reading, lastRead, staged, stagings, demoting, liveFiles, pinned, chatTurn, carried, turnNo>>

Surfaces == {"local", "loop", "cloud"}
NothingStaged == [n |-> 0, session |-> "none"]
NoChatTurn == [pc |-> "idle", owner |-> "none", session |-> "none", surface |-> "local", ids |-> <<>>, pins |-> <<>>, auditor |-> FALSE]
DiagKept == UNCHANGED <<reading, lastRead, staged, stagings, demoting>>
TurnKept == UNCHANGED <<chatTurn, carried, turnNo>>
FilesUnmoved == UNCHANGED <<liveFiles, pinned>>

(* ---------------------------------- /diag --------------------------------- *)
(* authorize: an administrator or a portal auditor.                              *)
MayRead(o) == roleOf[o] \in {"admin", "portal_auditor"}
(* read: the audit log is flushed and the file read off the worker; the result is  *)
(* remembered when that ends, whatever became of the account meanwhile.           *)
DiagRead(o) ==
    /\ MayRead(o) /\ o \notin reading /\ reading' = reading \cup {o}
    /\ UNCHANGED <<roleOf, lastRead, staged, stagings, demoting>> /\ FilesUnmoved /\ TurnKept
DiagReadEnds(o) ==
    /\ o \in reading /\ reading' = reading \ {o}
    /\ \E shown \in BOOLEAN : lastRead' = IF shown THEN lastRead \cup {o} ELSE lastRead   \* or refused by the scanner
    /\ UNCHANGED <<roleOf, staged, stagings, demoting>> /\ FilesUnmoved /\ TurnKept
(* DiagState::stage: bound to the account and to one of its sessions.              *)
StageExcerpt(o, s) == staged' = [staged EXCEPT ![o] = [n |-> stagings + 1, session |-> s]]
DiagInject(o) ==
    /\ MayRead(o) /\ o \in lastRead /\ stagings < MaxStagings /\ stagings' = stagings + 1
    /\ \E s \in ChatSessions : SessionOwner[s] = o /\ StageExcerpt(o, s)
    /\ UNCHANGED <<roleOf, reading, lastRead, demoting>> /\ FilesUnmoved /\ TurnKept
DiagForget(o) ==
    /\ MayRead(o) /\ staged[o].n # 0 /\ staged' = [staged EXCEPT ![o] = NothingStaged]
    /\ UNCHANGED <<roleOf, reading, lastRead, stagings, demoting>> /\ FilesUnmoved /\ TurnKept
ForgetOwner(o) == staged' = [staged EXCEPT ![o] = NothingStaged] /\ lastRead' = lastRead \ {o}
Logout(o) ==
    /\ ForgetOwner(o) /\ UNCHANGED <<roleOf, reading, stagings, demoting>> /\ FilesUnmoved /\ TurnKept
(* set_role and set_disabled forget first and change the account afterwards.       *)
SetRoleForgets(o) ==
    /\ demoting = "none" /\ demoting' = o /\ ForgetOwner(o)
    /\ UNCHANGED <<roleOf, reading, stagings>> /\ FilesUnmoved /\ TurnKept
SetRole ==
    /\ demoting # "none" /\ demoting' = "none"
    /\ \E r \in {"admin", "operator", "portal_auditor"} : roleOf' = [roleOf EXCEPT ![demoting] = r]
    /\ UNCHANGED <<reading, lastRead, staged, stagings>> /\ FilesUnmoved /\ TurnKept

(* DiagState::for_turn: what a turn on this surface gets and what stays staged.     *)
Refused(o, surface) == surface \in {"cloud", "agent"} /\ staged[o].n # 0
ForTurn(o, s, surface) ==
    CASE surface = "local" -> <<IF staged[o].session = s THEN staged[o].n ELSE 0, NothingStaged>>
      [] surface = "preview" -> <<IF staged[o].session = s THEN staged[o].n ELSE 0, staged[o]>>
      [] OTHER -> <<0, staged[o]>>

(* ---------------------------------- files --------------------------------- *)
(* The pins a loop keeps, in their order.                                         *)
Filtered(pins, wanted) ==
    LET f[i \in 0 .. Len(pins)] == IF i = 0 THEN <<>> ELSE IF pins[i] \in wanted THEN Append(f[i - 1], pins[i]) ELSE f[i - 1]
    IN f[Len(pins)]
OwnFiles(s) == {f \in FileIds : FileOwner[f] = SessionOwner[s]}
OwnPins(s, ps) == Filtered(ps, OwnFiles(s))
LivePins(s, ps) == Filtered(OwnPins(s, ps), liveFiles)
AllowsBytes(surface) == surface \in {"local", "loop", "preview"}
(* refuse_forbidden_attachments                                                   *)
FilesForbidden(surface, ids, pins) == ~AllowsBytes(surface) /\ (ids # <<>> \/ pins # <<>>)
(* attachment_ids_for_prompt: live pins, then the request's, once each, capped.     *)
Merged(pins, ids) ==
    LET f[i \in 0 .. Len(ids)] == IF i = 0 THEN pins ELSE IF ids[i] \notin Range(f[i - 1]) THEN Append(f[i - 1], ids[i]) ELSE f[i - 1]
    IN f[Len(ids)]
PromptIds(pins, ids) == LET all == Merged(pins, ids) IN SubSeq(all, 1, IF Len(all) < MaxPinned THEN Len(all) ELSE MaxPinned)
(* assemble_local_untrusted: verified_texts fails the turn on an id that is not     *)
(* the owner's live blob.                                                          *)
Readable(o, ids) == \A i \in DOMAIN ids : ids[i] \in liveFiles /\ FileOwner[ids[i]] = o
(* merge_attachment_pins: the owner's live pins and the new live ids, newest kept.  *)
MergePins(s, ids) ==
    LET mine == Merged(LivePins(s, pinned[s]), Filtered(ids, liveFiles \cap OwnFiles(s)))
    IN IF Len(mine) > MaxPinned THEN SubSeq(mine, Len(mine) - MaxPinned + 1, Len(mine)) ELSE mine

AttachFile == \E f \in FileIds \ liveFiles : liveFiles' = liveFiles \cup {f} /\ UNCHANGED <<roleOf, pinned>> /\ DiagKept /\ TurnKept
(* clear_sessions drops the excerpt, the sessions and the owner's blobs.            *)
ClearChatFiles(o) ==
    /\ staged' = [staged EXCEPT ![o] = NothingStaged]
    /\ pinned' = [s \in ChatSessions |-> IF SessionOwner[s] = o THEN <<>> ELSE pinned[s]]
    /\ liveFiles' = {f \in liveFiles : FileOwner[f] # o}
    /\ chatTurn' = IF chatTurn.owner = o THEN NoChatTurn ELSE chatTurn   \* cancel_with aborts the turn
    /\ UNCHANGED <<roleOf, reading, lastRead, stagings, demoting, carried, turnNo>>
(* clear_attachment_pins is refused while a turn generates.                         *)
Unpin(s) ==
    /\ chatTurn.pc # "running" /\ pinned[s] # <<>> /\ pinned' = [pinned EXCEPT ![s] = <<>>]
    /\ UNCHANGED <<roleOf, liveFiles>> /\ DiagKept /\ TurnKept

(* ---------------------------------- turns --------------------------------- *)
(* chat_inner reads the session and the account, then queues for the lease; the    *)
(* pins it will use are those of that snapshot.                                    *)
ChatBegins(s) ==
    /\ chatTurn.pc = "idle"
    /\ \E surface \in Surfaces, ids \in {<<>>} \cup {<<f>> : f \in liveFiles} :
         /\ roleOf[SessionOwner[s]] = "portal_auditor" => ids = <<>> /\ surface = "local"
         /\ chatTurn' = [pc |-> "sized", owner |-> SessionOwner[s], session |-> s, surface |-> surface, ids |-> ids,
                         pins |-> pinned[s], auditor |-> roleOf[SessionOwner[s]] = "portal_auditor"]
    /\ UNCHANGED <<roleOf, carried, turnNo>> /\ DiagKept /\ FilesUnmoved
ChatComposes ==
    LET t == chatTurn  pins == IF t.auditor THEN <<>> ELSE LivePins(t.session, t.pins)
        got == ForTurn(t.owner, t.session, t.surface)
        readable == t.auditor \/ ~AllowsBytes(t.surface) \/ Readable(t.owner, PromptIds(pins, t.ids)) IN
    /\ t.pc = "sized"
    /\ IF FilesForbidden(t.surface, t.ids, pins) \/ Refused(t.owner, t.surface)
       THEN chatTurn' = NoChatTurn /\ UNCHANGED <<staged, carried, turnNo>>
       ELSE /\ staged' = [staged EXCEPT ![t.owner] = got[2]]
            /\ IF readable
               THEN /\ chatTurn' = [t EXCEPT !.pc = "running"]
                    /\ carried' = IF got[1] = 0 THEN carried ELSE carried \cup {[n |-> got[1], surface |-> t.surface, session |-> t.session, turn |-> turnNo + 1]}
                    /\ turnNo' = IF got[1] = 0 THEN turnNo ELSE turnNo + 1
               ELSE chatTurn' = NoChatTurn /\ UNCHANGED <<carried, turnNo>>
    /\ UNCHANGED <<roleOf, reading, lastRead, stagings, demoting>> /\ FilesUnmoved
ChatEnds ==
    /\ chatTurn.pc = "running" /\ chatTurn' = NoChatTurn
    /\ \E replied \in BOOLEAN :
         pinned' = IF replied /\ chatTurn.surface # "cloud"
                   THEN [pinned EXCEPT ![chatTurn.session] = MergePins(chatTurn.session, chatTurn.ids)] ELSE pinned
    /\ UNCHANGED <<roleOf, liveFiles, carried, turnNo>> /\ DiagKept

ExcerptInit ==
    /\ roleOf = [o \in Readers |-> "admin"] /\ reading = {} /\ lastRead = {} /\ staged = [o \in Readers |-> NothingStaged]
    /\ stagings = 0 /\ demoting = "none" /\ liveFiles = {} /\ pinned = [s \in ChatSessions |-> <<>>]
    /\ chatTurn = NoChatTurn /\ carried = {} /\ turnNo = 0
ExcerptNext ==
    \/ \E o \in Readers : DiagRead(o) \/ DiagReadEnds(o) \/ DiagInject(o) \/ DiagForget(o) \/ Logout(o) \/ SetRoleForgets(o) \/ ClearChatFiles(o)
    \/ SetRole \/ AttachFile \/ ChatComposes \/ ChatEnds
    \/ \E s \in ChatSessions : Unpin(s) \/ ChatBegins(s)
ExcerptSpec == ExcerptInit /\ [][ExcerptNext]_excerptVars

(* ------------------------------- properties ------------------------------- *)
(* Types of the accounts, excerpts, pins and the turn.                            *)
ExcerptTypeOK ==
    /\ roleOf \in [Readers -> {"admin", "operator", "portal_auditor"}] /\ reading \subseteq Readers /\ lastRead \subseteq Readers
    /\ \A o \in Readers : staged[o].n \in 0 .. MaxStagings /\ staged[o].session \in ChatSessions \cup {"none"}
    /\ liveFiles \subseteq FileIds /\ pinned \in [ChatSessions -> Seq(FileIds)] /\ chatTurn.pc \in {"idle", "sized", "running"}

(* for_turn: a staged excerpt goes into at most one prompt, a local chat turn of the   *)
(* session it was staged for, whatever is staged, forgotten or refused in between.     *)
ExcerptOnce ==
    /\ \A a, b \in carried : a.n = b.n => a = b
    /\ \A c \in carried : c.surface = "local"
    /\ \A o \in Readers : staged[o].n # 0 => \A c \in carried : c.n # staged[o].n
(* merge_attachment_pins: a session never pins more than the cap or a file twice, and   *)
(* never a file of another account, so a full prompt always has room for every pin.     *)
PinsFit ==
    \A s \in ChatSessions :
        /\ Len(pinned[s]) <= MaxPinned /\ Len(pinned[s]) = Cardinality(Range(pinned[s]))
        /\ \A i \in DOMAIN pinned[s] : FileOwner[pinned[s][i]] = SessionOwner[s]
==============================================================================
