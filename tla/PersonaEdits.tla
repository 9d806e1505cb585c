---------------------------- MODULE PersonaEdits -----------------------------
(***************************************************************************)
(* Persona editing (server/routes/persona.rs): soul.md, its revision backups  *)
(* and the operator's proposals under soul-history/, and the marker that lets  *)
(* startup or the next persona operation finish an apply the process did not.  *)
(* Every operation holds EDIT_LOCK; each file write is atomic, may fail, and   *)
(* the process may end between any two.                                        *)
(*                                                                            *)
(* A document is its content; its revision (SHA-256) is identified with it.    *)
(***************************************************************************)
EXTENDS Integers, FiniteSets

CONSTANTS
    Texts,        \* document contents
    BadTexts,     \* those validate_content refuses
    Missing,      \* no soul.md
    PersonaIds,   \* proposal identifiers
    MaxSoulRecords,   \* MAX_RECORDS
    MaxSoulOps, MaxSoulFaults, MaxHandEdits   \* bounds

ASSUME PersonaAssumption ==
    /\ BadTexts \subseteq Texts /\ Missing \notin Texts
    /\ "none" \notin PersonaIds /\ MaxSoulRecords \in Nat

VARIABLES
    soul,         \* soul.md
    backups,      \* soul-history/<revision>.md
    soulProposals,    \* soul-history/<id>.json: [status, base, content]
    marker,       \* soul-pending-apply.json: an id, or "none"
    litter,       \* staged files a crash left in soul-history
    soulOp,       \* the operation holding EDIT_LOCK
    soulUp,       \* the server serves
    replacedBy,   \* history: proposals whose apply replaced soul.md
    disturbed,    \* history: proposals whose apply was outlived by an outside edit
    soulOps, soulFaults, handEdits

personaVars == <<soul, backups, soulProposals, marker, litter, soulOp, soulUp, replacedBy, disturbed, soulOps, soulFaults, handEdits>>

Documents == Texts \cup {Missing}
SoulIdle == [pc |-> "idle", kind |-> "none", text |-> Missing, base |-> Missing, id |-> "none", apply |-> FALSE]
NoSoulEdit == [status |-> "none", base |-> Missing, content |-> Missing]
SoulRecords == Cardinality(backups) + Cardinality({i \in PersonaIds : soulProposals[i].status # "none"}) + litter

Go(pc) == soulOp' = [soulOp EXCEPT !.pc = pc]
FilesKept == UNCHANGED <<soul, backups, soulProposals, marker>>
Counters == UNCHANGED <<litter, soulUp, soulOps, soulFaults, handEdits>>
Histories == UNCHANGED <<replacedBy, disturbed>>
Refuse == soulOp' = SoulIdle /\ FilesKept

(* ------------------------- beginning an operation ------------------------- *)
(* Requests are confirmed, name a proposal, a reviewed revision or the base the  *)
(* operator read, which may be stale.  Every operation recovers first.            *)
BeginSoul(kind, text, base, id, apply) ==
    /\ soulUp /\ soulOp.pc = "idle" /\ soulOps < MaxSoulOps
    /\ soulOps' = soulOps + 1
    /\ soulOp' = [pc |-> IF marker = "none" THEN kind ELSE "recover", kind |-> kind, text |-> text, base |-> base, id |-> id, apply |-> apply]
    /\ FilesKept /\ Histories /\ UNCHANGED <<litter, soulUp, soulFaults, handEdits>>
EditSoul == \E t \in Texts, b \in Documents : BeginSoul("save", t, b, "none", FALSE)
ProposeSoul == \E t \in Texts, b \in Documents : BeginSoul("propose", t, b, "none", FALSE)
DecideSoul == \E i \in PersonaIds, t \in Texts, a \in BOOLEAN : BeginSoul("decide", t, Missing, i, a)
(* document and review only read, after the same recovery.                        *)
ReviewSoul == marker # "none" /\ BeginSoul("read", Missing, Missing, "none", FALSE)

(* -------------------------------- recovery -------------------------------- *)
(* recover_apply: the record's status follows what soul.md turned out to be.      *)
RecoveredStatus(p) == IF soul = p.content THEN "applied" ELSE IF soul = p.base THEN "pending" ELSE "interrupted"
Recoverable == soulProposals[marker].status \in {"pending", "applied", "interrupted"}
RecoverRecord ==
    /\ soulOp.pc = "recover"
    /\ IF Recoverable
       THEN /\ soulProposals' = [soulProposals EXCEPT ![marker].status = RecoveredStatus(soulProposals[marker])]
            /\ Go("unmark") /\ UNCHANGED <<soul, backups, marker>>
       ELSE Refuse
    /\ Counters /\ Histories
RecoverUnmark ==
    /\ soulOp.pc = "unmark" /\ marker' = "none"
    /\ IF soulOp.kind \in {"read", "startup"} THEN soulOp' = SoulIdle /\ soulUp' = TRUE
       ELSE Go(soulOp.kind) /\ UNCHANGED soulUp
    /\ UNCHANGED <<soul, backups, soulProposals, litter, soulOps, soulFaults, handEdits>> /\ Histories

(* ---------------------------------- save ---------------------------------- *)
(* validate_save: acceptable text, and the document is the one reviewed.          *)
ValidContent(text) == text \notin BadTexts
SaveAllowed == ValidContent(soulOp.text) /\ soulOp.base = soul
BackUp == IF soul = Missing \/ soul \in backups THEN "kept" ELSE IF SoulRecords >= MaxSoulRecords THEN "full" ELSE "write"
SaveBackup ==
    /\ soulOp.pc = "save"
    /\ IF ~SaveAllowed \/ BackUp = "full" THEN Refuse
       ELSE /\ backups' = IF BackUp = "write" THEN backups \cup {soul} ELSE backups
            /\ Go("replace") /\ UNCHANGED <<soul, soulProposals, marker>>
    /\ Counters /\ Histories
ReplaceSoul ==
    /\ soulOp.pc = "replace" /\ soul' = soulOp.text
    /\ IF soulOp.kind = "decide"
       THEN Go("status") /\ replacedBy' = replacedBy \cup {soulOp.id}
       ELSE soulOp' = SoulIdle /\ UNCHANGED replacedBy
    /\ UNCHANGED <<backups, soulProposals, marker, disturbed>> /\ Counters

(* ------------------------------- proposals -------------------------------- *)
Propose ==
    /\ soulOp.pc = "propose"
    /\ IF SaveAllowed /\ SoulRecords < MaxSoulRecords
       THEN /\ \E i \in PersonaIds :
                 /\ soulProposals[i].status = "none"
                 /\ soulProposals' = [soulProposals EXCEPT ![i] = [status |-> "pending", base |-> soulOp.base, content |-> soulOp.text]]
            /\ soulOp' = SoulIdle /\ UNCHANGED <<soul, backups, marker>>
       ELSE Refuse
    /\ Counters /\ Histories
(* decide: still the reviewed pending revision, and for an apply still on its base; *)
(* the marker is written before the document is touched.                            *)
Reviewed == soulProposals[soulOp.id].status = "pending" /\ soulProposals[soulOp.id].content = soulOp.text
ApplyAllowed == ValidContent(soulOp.text) /\ soulProposals[soulOp.id].base = soul
Decide ==
    /\ soulOp.pc = "decide"
    /\ IF ~Reviewed \/ (soulOp.apply /\ ~ApplyAllowed) THEN Refuse
       ELSE /\ soulOp' = [soulOp EXCEPT !.pc = IF soulOp.apply THEN "save" ELSE "status", !.base = soulProposals[soulOp.id].base]
            /\ marker' = IF soulOp.apply THEN soulOp.id ELSE marker
            /\ UNCHANGED <<soul, backups, soulProposals>>
    /\ Counters /\ Histories
RecordDecision ==
    /\ soulOp.pc = "status"
    /\ soulProposals' = [soulProposals EXCEPT ![soulOp.id].status = IF soulOp.apply THEN "applied" ELSE "rejected"]
    /\ IF soulOp.apply THEN Go("done") ELSE soulOp' = SoulIdle
    /\ UNCHANGED <<soul, backups, marker>> /\ Counters /\ Histories
RemoveMarker ==
    /\ soulOp.pc = "done" /\ marker' = "none" /\ soulOp' = SoulIdle
    /\ UNCHANGED <<soul, backups, soulProposals>> /\ Counters /\ Histories

(* -------------------------- failures and restarts -------------------------- *)
(* A write, rename or removal fails: SOUL_IO, and at startup no server.             *)
SoulIoFails ==
    /\ soulOp.pc # "idle" /\ soulFaults < MaxSoulFaults /\ soulFaults' = soulFaults + 1
    /\ soulOp' = SoulIdle
    /\ FilesKept /\ Histories /\ UNCHANGED <<litter, soulUp, soulOps, handEdits>>
(* The process ends, perhaps with a staged file of soul-history behind it.          *)
SoulCrash ==
    /\ soulUp /\ soulFaults < MaxSoulFaults /\ soulFaults' = soulFaults + 1
    /\ soulUp' = FALSE /\ soulOp' = SoulIdle
    /\ litter' \in {litter} \cup (IF soulOp.pc \in {"recover", "save", "propose", "status"} THEN {litter + 1} ELSE {})
    /\ FilesKept /\ Histories /\ UNCHANGED <<soulOps, handEdits>>
(* recover_on_startup: a server that cannot recover does not start.                 *)
SoulRestart ==
    /\ ~soulUp /\ soulOp.pc = "idle"
    /\ IF marker = "none" THEN soulUp' = TRUE /\ UNCHANGED soulOp
       ELSE soulOp' = [SoulIdle EXCEPT !.pc = "recover", !.kind = "startup"] /\ UNCHANGED soulUp
    /\ FilesKept /\ Histories /\ UNCHANGED <<litter, soulOps, soulFaults, handEdits>>
(* An editor outside the console replaces soul.md between two operations.            *)
HandEdit ==
    /\ soulOp.pc = "idle" /\ handEdits < MaxHandEdits /\ handEdits' = handEdits + 1
    /\ soul' \in Documents \ {soul}
    /\ disturbed' = IF marker = "none" THEN disturbed ELSE disturbed \cup {marker}
    /\ UNCHANGED <<backups, soulProposals, marker, litter, soulOp, soulUp, replacedBy, soulOps, soulFaults>>

PersonaInit ==
    /\ soul \in {Missing} \cup Texts /\ backups = {} /\ soulProposals = [i \in PersonaIds |-> NoSoulEdit]
    /\ marker = "none" /\ litter = 0 /\ soulOp = SoulIdle /\ soulUp = TRUE
    /\ replacedBy = {} /\ disturbed = {} /\ soulOps = 0 /\ soulFaults = 0 /\ handEdits = 0

PersonaNext ==
    \/ EditSoul \/ ProposeSoul \/ DecideSoul \/ ReviewSoul
    \/ RecoverRecord \/ RecoverUnmark
    \/ SaveBackup \/ ReplaceSoul \/ Propose \/ Decide \/ RecordDecision \/ RemoveMarker
    \/ SoulIoFails \/ SoulCrash \/ SoulRestart \/ HandEdit

PersonaSpec == PersonaInit /\ [][PersonaNext]_personaVars

(* ------------------------------ properties -------------------------------- *)
(* Every variable keeps its shape and the history directory its bound.              *)
PersonaTypeOK ==
    /\ soul \in Documents /\ backups \subseteq Texts /\ marker \in PersonaIds \cup {"none"}
    /\ \A i \in PersonaIds : soulProposals[i].status \in {"none", "pending", "applied", "rejected", "interrupted"}
    /\ SoulRecords - litter <= MaxSoulRecords
    /\ replacedBy \subseteq PersonaIds

(* Whatever fails and wherever the process ends, once no marker is left and no      *)
(* operation runs a proposal says applied exactly when its apply replaced soul.md,  *)
(* unless the file was edited outside before recovery or the proposal changed        *)
(* nothing; and the marker never names a record recovery would refuse, which would   *)
(* keep the server from starting (decide, recover_apply).                             *)
OutcomeIsTrue ==
    /\ marker # "none" => Recoverable
    /\ marker = "none" /\ soulOp.pc = "idle" =>
          \A i \in PersonaIds \ disturbed :
              soulProposals[i].content # soulProposals[i].base => (soulProposals[i].status = "applied" <=> i \in replacedBy)

(* A console save never loses the text it replaces: the old document is in the       *)
(* history before soul.md changes (save).                                             *)
ReplacedIsKept == [][soul' # soul /\ soulOp.pc # "idle" => soul \in backups \cup {Missing}]_personaVars
==============================================================================
