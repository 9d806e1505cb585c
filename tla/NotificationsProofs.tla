------------------------- MODULE NotificationsProofs -------------------------
(***************************************************************************)
(* Proofs about Notifications: the outbox is honest, its rows keep to their *)
(* authority and state, and, when account retirements run one at a time,    *)
(* an acknowledged revocation holds.                                        *)
(***************************************************************************)
EXTENDS Notifications, FiniteSetTheorems, TLAPS

(* What holds of a row that was sent n times, when acc is accepted.         *)
Charged(k, row, n, acc) ==
  /\ row.attempts <= MaxAttempts /\ row.replays <= MaxReplays
  /\ row.state # "absent" => n <= row.attempts
  /\ row.state = "delivered" => k \in acc

BoxInv ==
  \A k \in Key : Charged(k, outboxDisk[k], sends[k], accepted) /\ sends[k] <= MaxAttempts

(* The file and the memory of a running outbox are the same; a worker has   *)
(* rows in flight only in a running one.                                    *)
ProcInv ==
  /\ outboxUp => outboxMem = outboxDisk
  /\ ~outboxUp => phase = "idle"

InFlight == phase \in {"reserved", "sending", "answered"}

(* A row of the request in progress is for the destination being visited,   *)
(* as this process has loaded it, and nobody else has touched it.           *)
HeldRow(k) ==
  /\ k.dest = here /\ Matches(k)
  /\ \/ outboxMem[k].state = "pending" /\ outboxMem[k].attempts > 0
     \/ outboxMem[k].state = "absent" /\ k.event \in expired

(* Its attempt is charged before it is sent.                                *)
UnsentRow(k) ==
  /\ sends[k] < MaxAttempts
  /\ outboxMem[k].state = "pending" => sends[k] < outboxMem[k].attempts

BatchInv ==
  /\ InFlight => \A k \in outBatch : HeldRow(k)
  /\ phase = "reserved" => \A k \in outBatch : UnsentRow(k)
  /\ phase = "answered" /\ answer = "ok" => outBatch \subseteq accepted

OutboxInv == BoxInv /\ ProcInv /\ BatchInv

(* One retirement at a time: the file that a revocation will write is the   *)
(* file as it is, and the owner.                                            *)
OneBusy == \A o, p \in Busy : o = p
WriteInv == \A o \in Owners : writing[o] # {} => o \in writing[o] /\ revokedFile \subseteq writing[o]
RevokedInv == OneBusy /\ WriteInv /\ acked \subseteq revokedFile

-----------------------------------------------------------------------------
(* The operators on a box.                                                  *)

LEMMA KeyParts ==
  ASSUME NEW k \in Key
  PROVE  k.event \in OutboxEvents /\ k.dest \in Dests /\ k.rev \in Grants
BY DEF Key

(* A free key and a queued row are rows.                                    *)
LEMMA BoxRowTypes == NoDelivery \in Delivery /\ QueuedRow \in Delivery
BY DEF NoDelivery, QueuedRow, Delivery, States

(* Pruning takes a row whole, and only an expired one.                      *)
LEMMA PrunedRow ==
  ASSUME NEW box \in [Key -> Delivery]
  PROVE  /\ Pruned(box) \in [Key -> Delivery]
         /\ \A k \in Key : \/ Pruned(box)[k] = box[k] /\ k.event \notin expired
                           \/ Pruned(box)[k] = NoDelivery /\ k.event \in expired
BY BoxRowTypes DEF Pruned

(* Sweeping changes the state of pending rows only, and leaves none that    *)
(* has used up its attempts.                                                *)
LEMMA SweptRow ==
  ASSUME NEW box \in [Key -> Delivery], NEW granted
  PROVE  /\ Swept(box, granted) \in [Key -> Delivery]
         /\ \A k \in Key :
              /\ Swept(box, granted)[k].attempts = box[k].attempts
              /\ Swept(box, granted)[k].replays = box[k].replays
              /\ \/ Swept(box, granted)[k] = box[k]
                    /\ (box[k].state = "pending" => box[k].attempts < MaxAttempts)
                 \/ box[k].state = "pending" /\ Swept(box, granted)[k].state \in {"revoked", "failed"}
<1> DEFINE new == Swept(box, granted)
<1>1. ASSUME NEW k \in Key
      PROVE  /\ new[k] \in Delivery
             /\ new[k].attempts = box[k].attempts /\ new[k].replays = box[k].replays
             /\ \/ new[k] = box[k] /\ (box[k].state = "pending" => box[k].attempts < MaxAttempts)
                \/ box[k].state = "pending" /\ new[k].state \in {"revoked", "failed"}
  <2>1. box[k] \in Delivery
    OBVIOUS
  <2>2. new[k] = IF box[k].state # "pending" THEN box[k]
                 ELSE IF k \notin granted THEN [box[k] EXCEPT !.state = "revoked"]
                 ELSE IF box[k].attempts >= MaxAttempts THEN [box[k] EXCEPT !.state = "failed"]
                 ELSE box[k]
    BY DEF Swept
  <2>3. QED BY <2>1, <2>2, LimitAssumption DEF Delivery, States
<1>2. new \in [Key -> Delivery]
  <2>1. new = [k \in Key |-> new[k]]
    BY DEF Swept
  <2> HIDE DEF new
  <2>2. QED BY <1>1, <2>1
<1>3. QED BY <1>1, <1>2

(* A reservation charges exactly the rows of its batch with one attempt.    *)
LEMMA ReservedRow ==
  ASSUME NEW box \in [Key -> Delivery], NEW B
  PROVE  /\ Reserved(box, B) \in [Key -> Delivery]
         /\ \A k \in Key :
              /\ Reserved(box, B)[k].state = box[k].state /\ Reserved(box, B)[k].replays = box[k].replays
              /\ Reserved(box, B)[k].attempts = IF k \in B THEN box[k].attempts + 1 ELSE box[k].attempts
BY DEF Reserved, Delivery

(* A commit writes file and memory, or neither; one that succeeds writes.   *)
LEMMA CommitCases ==
  ASSUME NEW next, NEW ok \in BOOLEAN, Commit(next, ok)
  PROVE  /\ (outboxDisk' = next /\ outboxMem' = next) \/ UNCHANGED <<outboxMem, outboxDisk>>
         /\ ok => outboxDisk' = next /\ outboxMem' = next
BY DEF Commit, Committed

(* The rows that an enqueue of event e adds are for e and were not there;   *)
(* the rows it evicts were there and not pending.                           *)
LEMMA AdmittedRows ==
  ASSUME NEW e, NEW box, NEW pick \in Admissions(box, New(e, box))
  PROVE  /\ \A k \in pick[1] : k.event = e /\ k \notin Present(box)
         /\ \A k \in pick[2] : k \in Key /\ box[k].state \notin {"absent", "pending"}
<1>1. pick[1] \subseteq New(e, box) /\ pick[2] \subseteq Evictable(box)
  BY DEF Admissions
<1>2. \A k \in New(e, box) : k.event = e /\ k \notin Present(box)
  BY DEF New
<1>3. \A k \in Evictable(box) : k \in Key /\ box[k].state \notin {"absent", "pending"}
  BY DEF Evictable, Present, Pending, In
<1>4. QED BY <1>1, <1>2, <1>3

-----------------------------------------------------------------------------
(* Type correctness.                                                        *)

(* The part of the type invariant that the processes and accounts are in,   *)
(* the worker's, and the box's.                                             *)
ProcTypes ==
  /\ outboxUp \in BOOLEAN /\ outboxBoots \in Nat
  /\ accounts \subseteq Owners /\ grantRev \in [Dests -> 0..MaxGrant]
  /\ loaded \in [Dests -> 0..MaxGrant]
  /\ revokedFile \subseteq Owners /\ suppressed \subseteq Owners
  /\ retiring \subseteq Owners /\ writing \in [Owners -> SUBSET Owners] /\ acked \subseteq Owners
  /\ edited \subseteq Dests
WorkTypes ==
  /\ phase \in {"idle", "sweeping", "visiting", "reserving", "reserved", "sending", "answered"}
  /\ left \subseteq Dests /\ here \in Dests /\ allowed \subseteq Dests
  /\ outBatch \subseteq Key /\ answer \in Answers
BoxTypes ==
  /\ outboxMem \in [Key -> Delivery] /\ outboxDisk \in [Key -> Delivery] /\ expired \subseteq OutboxEvents
  /\ sends \in [Key -> Nat] /\ accepted \subseteq Key

(* The type invariant, part by part.                                        *)
LEMMA TypeParts == OutboxTypeOK <=> ProcTypes /\ WorkTypes /\ BoxTypes
BY DEF OutboxTypeOK, ProcTypes, WorkTypes, BoxTypes

(* The same after a step.                                                   *)
LEMMA TypePartsNext == OutboxTypeOK' <=> ProcTypes' /\ WorkTypes' /\ BoxTypes'
BY DEF OutboxTypeOK, ProcTypes, WorkTypes, BoxTypes

(* A step that leaves the process and the accounts alone keeps their types. *)
LEMMA ProcQuiet == ProcTypes /\ UNCHANGED <<procVars, authVars>> => ProcTypes'
BY DEF ProcTypes, procVars, authVars

(* A step that leaves the worker alone keeps its types.                     *)
LEMMA WorkQuiet == WorkTypes /\ UNCHANGED workVars => WorkTypes'
BY DEF WorkTypes, workVars

(* A step that leaves the outbox alone keeps its types.                     *)
LEMMA BoxQuiet == BoxTypes /\ UNCHANGED boxVars => BoxTypes'
BY DEF BoxTypes, boxVars

(* The initial state has its types.                                         *)
LEMMA TypeInit == OutboxInit => OutboxTypeOK
<1> SUFFICES ASSUME OutboxInit PROVE ProcTypes /\ WorkTypes /\ BoxTypes
  BY TypeParts
<1>1. ProcTypes
  <2>1. grantRev \in [Dests -> 0..MaxGrant] /\ loaded \in [Dests -> 0..MaxGrant] /\ outboxBoots \in Nat
    BY LimitAssumption DEF OutboxInit
  <2>2. writing \in [Owners -> SUBSET Owners]
    BY DEF OutboxInit
  <2>3. outboxUp \in BOOLEAN /\ accounts \subseteq Owners /\ revokedFile \subseteq Owners
        /\ suppressed \subseteq Owners /\ retiring \subseteq Owners /\ acked \subseteq Owners
        /\ edited \subseteq Dests
    BY DEF OutboxInit
  <2>4. QED BY <2>1, <2>2, <2>3, Zenon DEF ProcTypes
<1>2. WorkTypes
  BY DEF OutboxInit, WorkTypes, Answers
<1>3. BoxTypes
  BY BoxRowTypes DEF OutboxInit, BoxTypes
<1>4. QED BY <1>1, <1>2, <1>3

(* The steps of the process, the accounts and the operator.                 *)
LEMMA TypeProc ==
  ASSUME OutboxTypeOK,
         \/ Start \/ OutboxCrash
         \/ \E e \in OutboxEvents : Expire(e)
         \/ \E d \in Dests : EditGrant(d)
         \/ \E o \in Owners : EnableAccount(o) \/ DisableAccount(o) \/ RetireRead(o) \/ RetireWrite(o)
  PROVE  OutboxTypeOK'
<1> USE TypeParts, TypePartsNext
<1>1. CASE Start
  <2>1. loaded' \in [Dests -> 0..MaxGrant] /\ outboxBoots' \in Nat
    BY <1>1, LimitAssumption DEF Start, ProcTypes
  <2>2. outboxUp' \in BOOLEAN /\ suppressed' \subseteq Owners /\ UNCHANGED authVars
    BY <1>1 DEF Start, ProcTypes
  <2>3. ProcTypes'
    BY <2>1, <2>2 DEF ProcTypes, authVars
  <2>4. QED BY <1>1, <2>3, WorkQuiet DEF Start, BoxTypes
<1>2. CASE OutboxCrash
  <2>1. loaded' \in [Dests -> 0..MaxGrant]
    BY <1>2, LimitAssumption DEF OutboxCrash
  <2>2. writing' \in [Owners -> SUBSET Owners] /\ outboxUp' \in BOOLEAN
    BY <1>2 DEF OutboxCrash
  <2>3. ProcTypes'
    BY <1>2, <2>1, <2>2 DEF OutboxCrash, ProcTypes
  <2>4. WorkTypes' /\ BoxTypes'
    BY <1>2, BoxRowTypes DEF OutboxCrash, WorkTypes, BoxTypes, Answers
  <2>5. QED BY <2>3, <2>4
<1>3. ASSUME NEW e \in OutboxEvents, Expire(e) PROVE OutboxTypeOK'
  BY <1>3, ProcQuiet, WorkQuiet DEF Expire, BoxTypes
<1>4. ASSUME NEW d \in Dests, EditGrant(d) PROVE OutboxTypeOK'
  <2>1. ProcTypes'
    BY <1>4 DEF EditGrant, ProcTypes, procVars
  <2>2. QED BY <1>4, <2>1, WorkQuiet, BoxQuiet DEF EditGrant
<1>5. ASSUME NEW o \in Owners, EnableAccount(o) \/ DisableAccount(o) PROVE OutboxTypeOK'
  BY <1>5, WorkQuiet, BoxQuiet DEF EnableAccount, DisableAccount, ProcTypes, procVars
<1>6. ASSUME NEW o \in Owners, RetireRead(o) PROVE OutboxTypeOK'
  BY <1>6, WorkQuiet, BoxQuiet DEF RetireRead, ProcTypes, procVars
<1>7. ASSUME NEW o \in Owners, RetireWrite(o) PROVE OutboxTypeOK'
  BY <1>7, WorkQuiet, BoxQuiet DEF RetireWrite, Revocation, ProcTypes
<1>8. QED BY <1>1, <1>2, <1>3, <1>4, <1>5, <1>6, <1>7

(* The steps that write rows.                                               *)
LEMMA TypeBox ==
  ASSUME OutboxTypeOK,
         \/ \E e \in OutboxEvents : EnqueueRow(e)
         \/ \E k \in Key : Replay(k)
  PROVE  OutboxTypeOK'
<1> USE TypeParts, TypePartsNext
<1>1. ASSUME NEW e \in OutboxEvents, EnqueueRow(e) PROVE OutboxTypeOK'
  <2>1. PICK pick \in Admissions(Pruned(outboxMem), New(e, Pruned(outboxMem))), ok \in BOOLEAN :
          /\ Commit([k \in Key |-> IF k \in pick[1] THEN QueuedRow
                                   ELSE IF k \in pick[2] THEN NoDelivery ELSE Pruned(outboxMem)[k]], ok)
          /\ sends' = [k \in Key |-> IF outboxMem'[k] = QueuedRow /\ k \in pick[1] THEN 0 ELSE sends[k]]
    BY <1>1, Zenon DEF EnqueueRow
  <2>2. Pruned(outboxMem) \in [Key -> Delivery]
    BY PrunedRow DEF BoxTypes
  <2>3. [k \in Key |-> IF k \in pick[1] THEN QueuedRow
                       ELSE IF k \in pick[2] THEN NoDelivery ELSE Pruned(outboxMem)[k]] \in [Key -> Delivery]
    BY <2>2, BoxRowTypes
  <2>4. outboxMem' \in [Key -> Delivery] /\ outboxDisk' \in [Key -> Delivery]
    BY <2>1, <2>3, CommitCases DEF BoxTypes
  <2>5. sends' \in [Key -> Nat]
    BY <2>1 DEF BoxTypes
  <2>6. QED BY <1>1, <2>4, <2>5, ProcQuiet, WorkQuiet DEF EnqueueRow, BoxTypes
<1>2. ASSUME NEW k \in Key, Replay(k) PROVE OutboxTypeOK'
  <2> DEFINE row == [state |-> "pending", attempts |-> 0, replays |-> outboxMem[k].replays + 1]
  <2>1. PICK ok \in BOOLEAN : Commit([outboxMem EXCEPT ![k] = row], ok)
    BY <1>2 DEF Replay
  <2>2. row \in Delivery
    BY DEF BoxTypes, Delivery, States
  <2>3. [outboxMem EXCEPT ![k] = row] \in [Key -> Delivery]
    BY <2>2 DEF BoxTypes
  <2>4. outboxMem' \in [Key -> Delivery] /\ outboxDisk' \in [Key -> Delivery]
    BY <2>1, <2>3, CommitCases DEF BoxTypes
  <2>5. sends' \in [Key -> Nat]
    BY <1>2 DEF Replay, BoxTypes
  <2>6. QED BY <1>2, <2>4, <2>5, ProcQuiet, WorkQuiet DEF Replay, BoxTypes
<1>3. QED BY <1>1, <1>2

(* The steps of the worker.                                                 *)
LEMMA TypeWorker ==
  ASSUME OutboxTypeOK, OutboxWorker
  PROVE  OutboxTypeOK'
<1> USE TypeParts, TypePartsNext
<1>1. CASE Tick \/ VisitDone
  BY <1>1, ProcQuiet, BoxQuiet DEF Tick, VisitDone, WorkTypes
<1>2. ASSUME NEW d \in Dests, Visit(d) PROVE OutboxTypeOK'
  BY <1>2, ProcQuiet, BoxQuiet DEF Visit, WorkTypes
<1>3. CASE SendBatch
  BY <1>3, ProcQuiet DEF SendBatch, WorkTypes, BoxTypes, Answers
<1>4. CASE Accept
  BY <1>4, ProcQuiet, WorkQuiet DEF Accept, WorkTypes, BoxTypes
<1>5. CASE Answer
  BY <1>5, ProcQuiet, BoxQuiet DEF Answer, WorkTypes, Answers
<1>6. CASE FinishBatch
  <2> DEFINE next == [k \in Key |-> IF k \in outBatch /\ outboxMem[k].state # "absent"
                        THEN [outboxMem[k] EXCEPT !.state = Settled(outboxMem[k])] ELSE outboxMem[k]]
  <2>1. PICK ok \in BOOLEAN : Commit(next, ok)
    BY <1>6 DEF FinishBatch
  <2>2. \A k \in Key : Settled(outboxMem[k]) \in States
    BY DEF Settled, States
  <2>3. next \in [Key -> Delivery]
    BY <2>2 DEF BoxTypes, Delivery
  <2> HIDE DEF next
  <2>4. outboxMem' \in [Key -> Delivery] /\ outboxDisk' \in [Key -> Delivery]
    BY <2>1, <2>3, CommitCases DEF BoxTypes
  <2>5. WorkTypes'
    BY <1>6 DEF FinishBatch, WorkTypes, Answers
  <2>6. QED BY <1>6, <2>4, <2>5, ProcQuiet DEF FinishBatch, BoxTypes
<1>7. ASSUME NEW ok \in BOOLEAN, Sweep(ok) PROVE OutboxTypeOK'
  <2>1. PICK granted : Commit(Swept(Pruned(outboxMem), granted), ok)
    BY <1>7 DEF Sweep
  <2>2. Swept(Pruned(outboxMem), granted) \in [Key -> Delivery]
    BY PrunedRow, SweptRow DEF BoxTypes
  <2>3. outboxMem' \in [Key -> Delivery] /\ outboxDisk' \in [Key -> Delivery]
    BY <2>1, <2>2, CommitCases DEF BoxTypes
  <2>4. WorkTypes'
    BY <1>7 DEF Sweep, WorkTypes
  <2>5. QED BY <1>7, <2>3, <2>4, ProcQuiet DEF Sweep, BoxTypes
<1>8. ASSUME NEW ok \in BOOLEAN, NEW B \in SUBSET Key, Reserve(B, ok) PROVE OutboxTypeOK'
  <2>1. PICK granted : Commit(Reserved(Swept(Pruned(outboxMem), granted), B), ok)
    BY <1>8 DEF Reserve
  <2>2. Reserved(Swept(Pruned(outboxMem), granted), B) \in [Key -> Delivery]
    BY PrunedRow, SweptRow, ReservedRow DEF BoxTypes
  <2>3. outboxMem' \in [Key -> Delivery] /\ outboxDisk' \in [Key -> Delivery]
    BY <2>1, <2>2, CommitCases DEF BoxTypes
  <2>4. WorkTypes'
    BY <1>8 DEF Reserve, ToSend, WorkTypes
  <2>5. QED BY <1>8, <2>3, <2>4, ProcQuiet DEF Reserve, BoxTypes
<1>9. QED BY <1>1, <1>2, <1>3, <1>4, <1>5, <1>6, <1>7, <1>8 DEF OutboxWorker, Reservation

(* Every step keeps the types.                                              *)
LEMMA BoxTypeStep == OutboxTypeOK /\ [OutboxNext]_outboxVars => OutboxTypeOK'
<1> SUFFICES ASSUME OutboxTypeOK, [OutboxNext]_outboxVars PROVE OutboxTypeOK'
  OBVIOUS
<1>1. CASE OutboxNext
  BY <1>1, TypeProc, TypeBox, TypeWorker DEF OutboxNext
<1>2. CASE UNCHANGED outboxVars
  BY <1>2, TypeParts, TypePartsNext, ProcQuiet, WorkQuiet, BoxQuiet DEF outboxVars
<1>3. QED BY <1>1, <1>2

(* Every variable of the outbox keeps its type.                             *)
THEOREM OutboxTypeCorrect == OutboxSpec => []OutboxTypeOK
BY TypeInit, BoxTypeStep, PTL DEF OutboxSpec

-----------------------------------------------------------------------------
(* What each step does to a row of the file.                                *)

(* The row leaves the file: it has expired, or it made room.                *)
Leaves(k) ==
  /\ outboxDisk'[k] = NoDelivery
  /\ k.event \in expired \/ outboxDisk[k].state \notin {"absent", "pending"}

(* The row keeps its counters and gets another state.                       *)
Turns(k, states) ==
  /\ outboxDisk'[k].attempts = outboxDisk[k].attempts /\ outboxDisk'[k].replays = outboxDisk[k].replays
  /\ outboxDisk'[k].state \in states

(* The row is charged with one more attempt for the destination here.       *)
Charges(k) ==
  /\ outboxDisk[k].state = "pending" /\ outboxDisk'[k].state = "pending"
  /\ outboxDisk[k].attempts < MaxAttempts
  /\ outboxDisk'[k].attempts = outboxDisk[k].attempts + 1 /\ outboxDisk'[k].replays = outboxDisk[k].replays

(* What an enqueue does to each row: it stays, leaves, or a free key gets a *)
(* fresh row.                                                               *)
LEMMA EnqueueRows ==
  ASSUME OutboxTypeOK, ProcInv, NEW e \in OutboxEvents, EnqueueRow(e)
  PROVE  /\ outboxMem' = outboxDisk'
         /\ \A k \in Key :
              /\ sends'[k] \in {0, sends[k]}
              /\ \/ outboxDisk'[k] = outboxDisk[k]
                 \/ Leaves(k)
                 \/ /\ outboxDisk'[k] = QueuedRow /\ sends'[k] = 0
                    /\ outboxDisk[k].state = "absent" /\ k.event \notin expired
<1> DEFINE kept == Pruned(outboxMem)
<1>1. PICK pick \in Admissions(kept, New(e, kept)), ok \in BOOLEAN :
        /\ Commit([k \in Key |-> IF k \in pick[1] THEN QueuedRow
                                 ELSE IF k \in pick[2] THEN NoDelivery ELSE kept[k]], ok)
        /\ sends' = [k \in Key |-> IF outboxMem'[k] = QueuedRow /\ k \in pick[1] THEN 0 ELSE sends[k]]
  BY Zenon DEF EnqueueRow
<1> DEFINE next == [k \in Key |-> IF k \in pick[1] THEN QueuedRow
                                  ELSE IF k \in pick[2] THEN NoDelivery ELSE kept[k]]
<1>2. outboxMem = outboxDisk /\ e \notin expired
  BY DEF EnqueueRow, ProcInv
<1>3. (outboxDisk' = next /\ outboxMem' = next) \/ UNCHANGED <<outboxMem, outboxDisk>>
  BY <1>1, CommitCases
<1>4. /\ \A k \in pick[1] : k.event = e /\ k \notin Present(kept)
      /\ \A k \in pick[2] : k \in Key /\ kept[k].state \notin {"absent", "pending"}
  BY <1>1, AdmittedRows
<1>5. \A k \in Key : \/ kept[k] = outboxDisk[k] /\ k.event \notin expired
                     \/ kept[k] = NoDelivery /\ k.event \in expired
  BY <1>2, PrunedRow DEF OutboxTypeOK
<1> HIDE DEF kept
<1>6. \A k \in Key : sends'[k] \in {0, sends[k]}
  BY <1>1
<1>7. ASSUME NEW k \in Key, outboxDisk' = next, outboxMem' = next
      PROVE  \/ outboxDisk'[k] = outboxDisk[k]
             \/ Leaves(k)
             \/ /\ outboxDisk'[k] = QueuedRow /\ sends'[k] = 0
                /\ outboxDisk[k].state = "absent" /\ k.event \notin expired
  <2>1. CASE k \in pick[1]
    <3>1. outboxDisk'[k] = QueuedRow /\ outboxMem'[k] = QueuedRow /\ k.event = e
      BY <1>7, <2>1, <1>4
    <3>2. sends'[k] = 0
      BY <1>1, <2>1, <3>1
    <3>3. kept[k] = outboxDisk[k] /\ kept[k].state = "absent"
      BY <1>2, <1>4, <1>5, <2>1, <3>1 DEF Present
    <3>4. QED BY <1>2, <3>1, <3>2, <3>3
  <2>2. CASE k \notin pick[1] /\ k \in pick[2]
    <3>1. outboxDisk'[k] = NoDelivery /\ kept[k].state \notin {"absent", "pending"}
      BY <1>7, <2>2, <1>4
    <3>2. QED BY <3>1, <1>5 DEF Leaves
  <2>3. CASE k \notin pick[1] /\ k \notin pick[2]
    <3>1. outboxDisk'[k] = kept[k]
      BY <1>7, <2>3
    <3>2. QED BY <3>1, <1>5 DEF Leaves
  <2>4. QED BY <2>1, <2>2, <2>3
<1> HIDE DEF next
<1>8. QED BY <1>2, <1>3, <1>6, <1>7

(* What a replay does to each row: only a settled row with replays left is  *)
(* queued again.                                                            *)
LEMMA ReplayRows ==
  ASSUME OutboxTypeOK, ProcInv, NEW l \in Key, Replay(l)
  PROVE  /\ outboxMem' = outboxDisk'
         /\ \A k \in Key :
              \/ outboxDisk'[k] = outboxDisk[k] /\ sends'[k] = sends[k]
              \/ /\ outboxDisk[k].state \in {"failed", "delivered"} /\ outboxDisk[k].replays < MaxReplays
                 /\ outboxDisk'[k] = [state |-> "pending", attempts |-> 0, replays |-> outboxDisk[k].replays + 1]
                 /\ sends'[k] = 0
<1> DEFINE row == [state |-> "pending", attempts |-> 0, replays |-> outboxMem[l].replays + 1]
<1>1. PICK ok \in BOOLEAN : Commit([outboxMem EXCEPT ![l] = row], ok)
  BY DEF Replay
<1>2. /\ outboxMem = outboxDisk /\ outboxMem[l].state \in {"failed", "delivered"}
      /\ outboxMem[l].replays < MaxReplays
      /\ sends' = IF outboxMem' # outboxMem THEN [sends EXCEPT ![l] = 0] ELSE sends
  BY DEF Replay, Replayable, ProcInv
<1>3. outboxMem \in [Key -> Delivery] /\ sends \in [Key -> Nat]
  BY DEF OutboxTypeOK
<1>4. CASE UNCHANGED <<outboxMem, outboxDisk>>
  BY <1>2, <1>4
<1>5. CASE outboxDisk' = [outboxMem EXCEPT ![l] = row] /\ outboxMem' = [outboxMem EXCEPT ![l] = row]
  <2>1. outboxMem'[l] = row /\ row.state = "pending"
    BY <1>3, <1>5
  <2>2. sends' = [sends EXCEPT ![l] = 0]
    BY <1>2, <2>1
  <2>3. QED BY <1>2, <1>3, <1>5, <2>2
<1>6. QED BY <1>1, <1>4, <1>5, CommitCases

(* Sweeping a pruned box.                                                   *)
LEMMA CleanedRow ==
  ASSUME OutboxTypeOK, ProcInv, outboxUp, NEW granted, NEW k \in Key
  PROVE  LET box == Swept(Pruned(outboxMem), granted) IN
           \/ box[k] = outboxDisk[k] /\ (outboxDisk[k].state = "pending" => outboxDisk[k].attempts < MaxAttempts)
           \/ box[k] = NoDelivery /\ k.event \in expired
           \/ /\ outboxDisk[k].state = "pending" /\ box[k].state \in {"revoked", "failed"}
              /\ box[k].attempts = outboxDisk[k].attempts /\ box[k].replays = outboxDisk[k].replays
<1> DEFINE kept == Pruned(outboxMem)
<1> DEFINE box == Swept(kept, granted)
<1>1. outboxMem = outboxDisk /\ outboxMem \in [Key -> Delivery]
  BY DEF OutboxTypeOK, ProcInv
<1>2. /\ kept \in [Key -> Delivery]
      /\ kept[k] = outboxDisk[k] \/ (kept[k] = NoDelivery /\ k.event \in expired)
  BY <1>1, PrunedRow
<1> HIDE DEF kept
<1>3. /\ box[k].attempts = kept[k].attempts /\ box[k].replays = kept[k].replays
      /\ \/ box[k] = kept[k] /\ (kept[k].state = "pending" => kept[k].attempts < MaxAttempts)
         \/ kept[k].state = "pending" /\ box[k].state \in {"revoked", "failed"}
  BY <1>2, SweptRow
<1> HIDE DEF box
<1>4. NoDelivery.state = "absent"
  BY DEF NoDelivery
<1>5. \/ box[k] = outboxDisk[k] /\ (outboxDisk[k].state = "pending" => outboxDisk[k].attempts < MaxAttempts)
      \/ box[k] = NoDelivery /\ k.event \in expired
      \/ /\ outboxDisk[k].state = "pending" /\ box[k].state \in {"revoked", "failed"}
         /\ box[k].attempts = outboxDisk[k].attempts /\ box[k].replays = outboxDisk[k].replays
  BY <1>2, <1>3, <1>4
<1>6. QED BY <1>5 DEF box, kept

(* What a sweep does to each row: it stays, leaves, or a pending row is     *)
(* revoked or failed.                                                       *)
LEMMA SweepRows ==
  ASSUME OutboxTypeOK, ProcInv, NEW ok \in BOOLEAN, Sweep(ok)
  PROVE  /\ outboxMem' = outboxDisk'
         /\ \A k \in Key :
              \/ outboxDisk'[k] = outboxDisk[k]
              \/ Leaves(k)
              \/ outboxDisk[k].state = "pending" /\ Turns(k, {"revoked", "failed"})
<1>1. PICK granted : Commit(Swept(Pruned(outboxMem), granted), ok)
  BY DEF Sweep
<1> DEFINE box == Swept(Pruned(outboxMem), granted)
<1>2. outboxUp /\ outboxMem = outboxDisk
  BY DEF Sweep, ProcInv
<1>3. (outboxDisk' = box /\ outboxMem' = box) \/ UNCHANGED <<outboxMem, outboxDisk>>
  BY <1>1, CommitCases
<1>4. ASSUME NEW k \in Key
      PROVE  \/ box[k] = outboxDisk[k]
             \/ box[k] = NoDelivery /\ k.event \in expired
             \/ /\ outboxDisk[k].state = "pending" /\ box[k].state \in {"revoked", "failed"}
                /\ box[k].attempts = outboxDisk[k].attempts /\ box[k].replays = outboxDisk[k].replays
  BY <1>2, CleanedRow
<1> HIDE DEF box
<1>5. QED BY <1>2, <1>3, <1>4 DEF Leaves, Turns

(* What a reservation does to each row: those of the batch are charged, on  *)
(* disk when the write succeeds.                                            *)
LEMMA ReserveRows ==
  ASSUME OutboxTypeOK, ProcInv, NEW ok \in BOOLEAN, NEW B \in SUBSET Key, Reserve(B, ok)
  PROVE  /\ outboxMem' = outboxDisk'
         /\ \A k \in B : k.dest = here /\ Matches(k)
         /\ ok => \A k \in B : Charges(k)
         /\ \A k \in Key :
              \/ outboxDisk'[k] = outboxDisk[k]
              \/ Leaves(k)
              \/ outboxDisk[k].state = "pending" /\ Turns(k, {"revoked", "failed"})
              \/ k \in B /\ Charges(k)
<1>1. PICK granted : /\ B \in Reservable(Swept(Pruned(outboxMem), granted))
                     /\ Commit(Reserved(Swept(Pruned(outboxMem), granted), B), ok)
  BY DEF Reserve
<1> DEFINE box == Swept(Pruned(outboxMem), granted)
<1>2. outboxUp /\ outboxMem = outboxDisk /\ outboxMem \in [Key -> Delivery]
  BY DEF Reserve, ProcInv, OutboxTypeOK
<1>3. box \in [Key -> Delivery]
  BY <1>2, PrunedRow, SweptRow
<1>4. \A k \in B : k \in Key /\ box[k].state = "pending" /\ k.dest = here /\ Matches(k)
  BY <1>1 DEF Reservable, Pending, In
<1>5. \A k \in Key :
        \/ box[k] = outboxDisk[k] /\ (outboxDisk[k].state = "pending" => outboxDisk[k].attempts < MaxAttempts)
        \/ box[k] = NoDelivery /\ k.event \in expired
        \/ /\ outboxDisk[k].state = "pending" /\ box[k].state \in {"revoked", "failed"}
           /\ box[k].attempts = outboxDisk[k].attempts /\ box[k].replays = outboxDisk[k].replays
  BY <1>2, CleanedRow
<1> DEFINE next == Reserved(box, B)
<1>6. (outboxDisk' = next /\ outboxMem' = next) \/ (~ok /\ UNCHANGED <<outboxMem, outboxDisk>>)
  BY <1>1, CommitCases
<1>7. \A k \in Key : next[k] = IF k \in B THEN [box[k] EXCEPT !.attempts = box[k].attempts + 1] ELSE box[k]
  BY DEF Reserved
<1> HIDE DEF box, next
<1>8. NoDelivery.state = "absent"
  BY DEF NoDelivery
<1>9. ASSUME NEW k \in B, outboxDisk' = next
      PROVE  Charges(k)
  <2>1. box[k] = outboxDisk[k] /\ outboxDisk[k].attempts < MaxAttempts /\ box[k].state = "pending"
    BY <1>4, <1>5, <1>8
  <2>2. /\ box[k] \in Delivery
        /\ next[k] = [box[k] EXCEPT !.attempts = box[k].attempts + 1]
    BY <1>3, <1>4, <1>7
  <2>3. QED BY <1>9, <2>1, <2>2 DEF Charges, Delivery
<1>10. ASSUME NEW k \in Key \ B, outboxDisk' = next
       PROVE  \/ outboxDisk'[k] = outboxDisk[k]
              \/ Leaves(k)
              \/ outboxDisk[k].state = "pending" /\ Turns(k, {"revoked", "failed"})
  BY <1>5, <1>7, <1>10 DEF Leaves, Turns
<1>11. QED BY <1>2, <1>4, <1>6, <1>9, <1>10

(* What the end of a request does to each row: only pending rows of the     *)
(* batch change.                                                            *)
LEMMA FinishRows ==
  ASSUME OutboxTypeOK, ProcInv, BatchInv, FinishBatch
  PROVE  /\ outboxMem' = outboxDisk'
         /\ \A k \in Key :
              \/ outboxDisk'[k] = outboxDisk[k]
              \/ /\ k \in outBatch /\ outboxDisk[k].state = "pending"
                 /\ Turns(k, {"pending", "failed", "revoked", "delivered"})
                 /\ outboxDisk'[k].state = "delivered" => k \in accepted
<1> DEFINE next == [k \in Key |-> IF k \in outBatch /\ outboxMem[k].state # "absent"
                      THEN [outboxMem[k] EXCEPT !.state = Settled(outboxMem[k])] ELSE outboxMem[k]]
<1>1. PICK ok \in BOOLEAN : Commit(next, ok)
  BY DEF FinishBatch
<1>2. outboxMem = outboxDisk /\ phase = "answered" /\ outboxMem \in [Key -> Delivery]
  BY DEF FinishBatch, ProcInv, OutboxTypeOK
<1>3. (outboxDisk' = next /\ outboxMem' = next) \/ UNCHANGED <<outboxMem, outboxDisk>>
  BY <1>1, CommitCases
<1>4. ASSUME NEW k \in Key
      PROVE  /\ Settled(outboxMem[k]) \in {"pending", "failed", "revoked", "delivered"}
             /\ Settled(outboxMem[k]) = "delivered" => answer = "ok"
  BY DEF Settled
<1>5. /\ \A k \in outBatch : outboxMem[k].state \in {"pending", "absent"}
      /\ answer = "ok" => outBatch \subseteq accepted
  BY <1>2 DEF BatchInv, InFlight, HeldRow
<1>6. ASSUME NEW k \in Key, outboxDisk' = next
      PROVE  \/ outboxDisk'[k] = outboxDisk[k]
             \/ /\ k \in outBatch /\ outboxDisk[k].state = "pending"
                /\ Turns(k, {"pending", "failed", "revoked", "delivered"})
                /\ outboxDisk'[k].state = "delivered" => k \in accepted
  <2>1. CASE k \in outBatch /\ outboxMem[k].state # "absent"
    <3>1. outboxDisk'[k] = [outboxMem[k] EXCEPT !.state = Settled(outboxMem[k])]
      BY <1>6, <2>1
    <3>2. QED BY <2>1, <3>1, <1>2, <1>4, <1>5 DEF Turns, Delivery
  <2>2. CASE ~(k \in outBatch /\ outboxMem[k].state # "absent")
    BY <1>2, <1>6, <2>2
  <2>3. QED BY <2>1, <2>2
<1> HIDE DEF next
<1>7. QED BY <1>2, <1>3, <1>6

-----------------------------------------------------------------------------
(* Every request was charged before it was sent.                            *)

LEMMA BoxSame == BoxInv /\ UNCHANGED <<outboxDisk, sends, accepted>> => BoxInv'
BY DEF BoxInv

(* A row that stays, is new, or turns from pending keeps its charges ahead  *)
(* of its sends.                                                            *)
LEMMA ChargedStep ==
  ASSUME OutboxTypeOK, BoxInv, UNCHANGED accepted, NEW k \in Key,
         sends'[k] \in {0, sends[k]},
         \/ outboxDisk'[k] = outboxDisk[k]
         \/ outboxDisk'[k] \in {NoDelivery, QueuedRow} /\ (outboxDisk'[k] = QueuedRow => sends'[k] = 0)
         \/ Turns(k, {"pending", "failed", "revoked"}) /\ outboxDisk[k].state = "pending"
  PROVE  Charged(k, outboxDisk'[k], sends'[k], accepted') /\ sends'[k] <= MaxAttempts
<1>1. /\ outboxDisk[k].attempts \in Nat /\ outboxDisk[k].replays \in Nat /\ sends[k] \in Nat
      /\ MaxAttempts \in Nat /\ MaxReplays \in Nat
  BY LimitAssumption DEF OutboxTypeOK, Delivery
<1>2. Charged(k, outboxDisk[k], sends[k], accepted) /\ sends[k] <= MaxAttempts
  BY DEF BoxInv
<1>3. CASE outboxDisk'[k] = outboxDisk[k]
  BY <1>1, <1>2, <1>3 DEF Charged
<1>4. CASE outboxDisk'[k] \in {NoDelivery, QueuedRow} /\ (outboxDisk'[k] = QueuedRow => sends'[k] = 0)
  BY <1>1, <1>2, <1>4 DEF Charged, NoDelivery, QueuedRow
<1>5. CASE Turns(k, {"pending", "failed", "revoked"}) /\ outboxDisk[k].state = "pending"
  BY <1>1, <1>2, <1>5 DEF Charged, Turns
<1>6. QED BY <1>3, <1>4, <1>5

(* An enqueue keeps what is true of the rows.                               *)
LEMMA BoxEnqueue ==
  ASSUME OutboxTypeOK, ProcInv, BoxInv, NEW e \in OutboxEvents, EnqueueRow(e)
  PROVE  BoxInv'
<1>1. UNCHANGED accepted
  BY DEF EnqueueRow
<1>2. ASSUME NEW k \in Key
      PROVE  Charged(k, outboxDisk'[k], sends'[k], accepted') /\ sends'[k] <= MaxAttempts
  <2>1. /\ sends'[k] \in {0, sends[k]}
        /\ \/ outboxDisk'[k] = outboxDisk[k]
           \/ Leaves(k)
           \/ outboxDisk'[k] = QueuedRow /\ sends'[k] = 0
    BY EnqueueRows
  <2>2. NoDelivery # QueuedRow
    BY DEF NoDelivery, QueuedRow
  <2>3. QED BY <1>1, <2>1, <2>2, ChargedStep DEF Leaves
<1>3. QED BY <1>2 DEF BoxInv

(* A replay keeps what is true of the rows.                                 *)
LEMMA BoxReplay ==
  ASSUME OutboxTypeOK, ProcInv, BoxInv, NEW l \in Key, Replay(l)
  PROVE  BoxInv'
<1>1. UNCHANGED accepted
  BY DEF Replay
<1>2. ASSUME NEW k \in Key
      PROVE  Charged(k, outboxDisk'[k], sends'[k], accepted') /\ sends'[k] <= MaxAttempts
  <2>1. CASE outboxDisk'[k] = outboxDisk[k] /\ sends'[k] = sends[k]
    BY <1>1, <2>1, ChargedStep
  <2>2. CASE /\ outboxDisk[k].replays < MaxReplays /\ sends'[k] = 0
             /\ outboxDisk'[k] = [state |-> "pending", attempts |-> 0, replays |-> outboxDisk[k].replays + 1]
    <3>1. outboxDisk[k].replays \in Nat /\ MaxAttempts \in Nat /\ MaxReplays \in Nat
      BY LimitAssumption DEF OutboxTypeOK, Delivery
    <3>2. QED BY <2>2, <3>1 DEF Charged
  <2>3. QED BY <2>1, <2>2, ReplayRows
<1>3. QED BY <1>2 DEF BoxInv

(* A sweep keeps what is true of the rows.                                  *)
LEMMA BoxSweep ==
  ASSUME OutboxTypeOK, ProcInv, BoxInv, NEW ok \in BOOLEAN, Sweep(ok)
  PROVE  BoxInv'
<1>1. UNCHANGED <<accepted, sends>>
  BY DEF Sweep
<1>2. NoDelivery # QueuedRow
  BY DEF NoDelivery, QueuedRow
<1>3. ASSUME NEW k \in Key
      PROVE  Charged(k, outboxDisk'[k], sends'[k], accepted') /\ sends'[k] <= MaxAttempts
  BY <1>1, <1>2, SweepRows, ChargedStep DEF Leaves, Turns
<1>4. QED BY <1>3 DEF BoxInv

(* A reservation keeps what is true of the rows.                            *)
LEMMA BoxReserve ==
  ASSUME OutboxTypeOK, ProcInv, BoxInv, NEW ok \in BOOLEAN, NEW B \in SUBSET Key, Reserve(B, ok)
  PROVE  BoxInv'
<1>1. UNCHANGED <<accepted, sends>>
  BY DEF Reserve
<1>2. NoDelivery # QueuedRow
  BY DEF NoDelivery, QueuedRow
<1>3. ASSUME NEW k \in Key
      PROVE  Charged(k, outboxDisk'[k], sends'[k], accepted') /\ sends'[k] <= MaxAttempts
  <2>1. CASE Charges(k)
    <3>1. /\ outboxDisk[k].attempts \in Nat /\ outboxDisk[k].replays \in Nat /\ sends[k] \in Nat
          /\ MaxAttempts \in Nat /\ MaxReplays \in Nat
      BY LimitAssumption DEF OutboxTypeOK, Delivery
    <3>2. Charged(k, outboxDisk[k], sends[k], accepted) /\ sends[k] <= MaxAttempts
      BY DEF BoxInv
    <3>3. QED BY <1>1, <2>1, <3>1, <3>2 DEF Charged, Charges
  <2>2. CASE ~Charges(k)
    BY <1>1, <1>2, <2>2, ReserveRows, ChargedStep DEF Leaves, Turns
  <2>3. QED BY <2>1, <2>2
<1>4. QED BY <1>3 DEF BoxInv

(* The end of a request keeps what is true of the rows.                     *)
LEMMA BoxFinish ==
  ASSUME OutboxTypeOK, ProcInv, BatchInv, BoxInv, FinishBatch
  PROVE  BoxInv'
<1>1. UNCHANGED <<accepted, sends>>
  BY DEF FinishBatch
<1>2. ASSUME NEW k \in Key
      PROVE  Charged(k, outboxDisk'[k], sends'[k], accepted') /\ sends'[k] <= MaxAttempts
  <2>1. CASE outboxDisk'[k] = outboxDisk[k]
    BY <1>1, <2>1, ChargedStep
  <2>2. CASE /\ outboxDisk[k].state = "pending" /\ Turns(k, {"pending", "failed", "revoked", "delivered"})
             /\ outboxDisk'[k].state = "delivered" => k \in accepted
    <3>1. Charged(k, outboxDisk[k], sends[k], accepted) /\ sends[k] <= MaxAttempts
      BY DEF BoxInv
    <3>2. QED BY <1>1, <2>2, <3>1 DEF Charged, Turns
  <2>3. QED BY <2>1, <2>2, FinishRows
<1>3. QED BY <1>2 DEF BoxInv

(* A request leaves: the rows of the batch were charged for it.             *)
LEMMA BoxSend ==
  ASSUME OutboxTypeOK, ProcInv, BatchInv, BoxInv, SendBatch
  PROVE  BoxInv'
<1>1. UNCHANGED <<accepted, outboxDisk>> /\ outboxUp /\ phase = "reserved"
  BY DEF SendBatch
<1>2. sends' = sends \/ sends' = [k \in Key |-> IF k \in outBatch THEN sends[k] + 1 ELSE sends[k]]
  BY DEF SendBatch
<1>3. ASSUME NEW k \in Key
      PROVE  Charged(k, outboxDisk'[k], sends'[k], accepted') /\ sends'[k] <= MaxAttempts
  <2>1. /\ Charged(k, outboxDisk[k], sends[k], accepted) /\ sends[k] <= MaxAttempts
        /\ sends[k] \in Nat /\ outboxDisk[k].attempts \in Nat /\ MaxAttempts \in Nat
    BY LimitAssumption DEF BoxInv, OutboxTypeOK, Delivery
  <2>2. CASE sends'[k] = sends[k]
    BY <1>1, <2>1, <2>2
  <2>3. CASE k \in outBatch /\ sends'[k] = sends[k] + 1
    <3>1. UnsentRow(k) /\ HeldRow(k) /\ outboxMem = outboxDisk
      BY <1>1, <2>3 DEF BatchInv, InFlight, ProcInv
    <3>2. /\ sends[k] < MaxAttempts
          /\ outboxDisk[k].state # "absent" => sends[k] < outboxDisk[k].attempts
          /\ outboxDisk[k].state # "delivered"
      BY <3>1 DEF UnsentRow, HeldRow
    <3>3. QED BY <1>1, <2>1, <2>3, <3>2 DEF Charged
  <2>4. QED BY <1>2, <2>2, <2>3
<1>4. QED BY <1>3 DEF BoxInv

(* The receiver accepting a request keeps what is true of the rows.         *)
LEMMA BoxAccept == BoxInv /\ Accept => BoxInv'
BY DEF BoxInv, Accept, Charged

-----------------------------------------------------------------------------
(* The rows of a request in progress.                                       *)

(* The steps of the process, the accounts and the operator.                 *)
ProcStep ==
  \/ Start \/ OutboxCrash
  \/ \E e \in OutboxEvents : Expire(e)
  \/ \E d \in Dests : EditGrant(d)
  \/ \E o \in Owners : EnableAccount(o) \/ DisableAccount(o) \/ RetireRead(o) \/ RetireWrite(o)

(* Without a request in progress there is nothing to say of its rows.       *)
LEMMA BatchIdle ==
  ASSUME phase' \notin {"reserved", "sending", "answered"}
  PROVE  BatchInv'
BY DEF BatchInv, InFlight

(* A step that leaves the worker and the rows alone keeps what is true of   *)
(* the batch.                                                               *)
LEMMA BatchSame ==
  ASSUME BatchInv, UNCHANGED <<loaded, workVars, outboxMem, sends, accepted>>, expired \subseteq expired'
  PROVE  BatchInv'
BY DEF BatchInv, InFlight, HeldRow, UnsentRow, Matches, workVars

(* Starts, crashes, time and changes to the accounts keep the invariant.    *)
LEMMA InvProcStep ==
  ASSUME OutboxTypeOK, OutboxInv, ProcStep
  PROVE  OutboxInv'
<1> USE DEF OutboxInv
<1>1. CASE Start
  <2>1. phase' = "idle" /\ outboxUp' = TRUE /\ outboxMem' = outboxDisk' /\ UNCHANGED <<outboxDisk, sends, accepted>>
    BY <1>1 DEF Start, workVars, ProcInv
  <2>2. QED BY <2>1, BatchIdle, BoxSame DEF ProcInv
<1>2. CASE OutboxCrash
  <2>1. phase' = "idle" /\ outboxUp' = FALSE /\ UNCHANGED <<outboxDisk, sends, accepted>>
    BY <1>2 DEF OutboxCrash
  <2>2. QED BY <2>1, BatchIdle, BoxSame DEF ProcInv
<1>3. ASSUME NEW e \in OutboxEvents, Expire(e) PROVE OutboxInv'
  BY <1>3, BatchSame, BoxSame DEF Expire, procVars, workVars, ProcInv
<1>4. CASE \/ \E d \in Dests : EditGrant(d)
           \/ \E o \in Owners : EnableAccount(o) \/ DisableAccount(o) \/ RetireRead(o) \/ RetireWrite(o)
  <2>1. UNCHANGED <<outboxUp, loaded, workVars, boxVars>>
    BY <1>4 DEF EditGrant, EnableAccount, DisableAccount, RetireRead, RetireWrite, procVars
  <2>2. QED BY <2>1, BatchSame, BoxSame DEF boxVars, workVars, ProcInv
<1>5. QED BY <1>1, <1>2, <1>3, <1>4 DEF ProcStep

(* An enqueue leaves the rows in flight alone: they are pending, so none is *)
(* evicted, and those that expired are not queued again.                    *)
LEMMA InvEnqueue ==
  ASSUME OutboxTypeOK, OutboxInv, NEW e \in OutboxEvents, EnqueueRow(e)
  PROVE  OutboxInv'
<1> USE DEF OutboxInv
<1>1. outboxUp /\ outboxMem = outboxDisk /\ UNCHANGED <<outboxUp, loaded, workVars, expired, accepted>>
  BY DEF EnqueueRow, procVars, ProcInv
<1>2. ProcInv'
  BY <1>1, EnqueueRows DEF ProcInv
<1>3. ASSUME NEW k \in outBatch, HeldRow(k)
      PROVE  HeldRow(k)' /\ (UnsentRow(k) => UnsentRow(k)')
  <2>1. /\ outboxMem' = outboxDisk' /\ sends'[k] \in {0, sends[k]}
        /\ \/ outboxDisk'[k] = outboxDisk[k]
           \/ Leaves(k)
           \/ outboxDisk[k].state = "absent" /\ k.event \notin expired
    BY EnqueueRows DEF OutboxTypeOK
  <2>2. outboxDisk'[k] = outboxDisk[k] \/ (outboxDisk'[k].state = "absent" /\ k.event \in expired)
    BY <1>1, <1>3, <2>1 DEF HeldRow, Leaves, NoDelivery
  <2>3. HeldRow(k)'
    BY <1>1, <1>3, <2>1, <2>2 DEF HeldRow, Matches, workVars
  <2>4. sends[k] \in Nat /\ MaxAttempts \in Nat \ {0}
    BY LimitAssumption DEF OutboxTypeOK
  <2>5. ASSUME UnsentRow(k) PROVE UnsentRow(k)'
    BY <1>1, <1>3, <2>1, <2>2, <2>4, <2>5 DEF HeldRow, UnsentRow
  <2>6. QED BY <2>3, <2>5
<1>4. BatchInv'
  BY <1>1, <1>3 DEF BatchInv, InFlight, workVars
<1>5. QED BY <1>2, <1>4, BoxEnqueue

(* A replay is refused for a pending row, so for every row in flight.       *)
LEMMA InvReplay ==
  ASSUME OutboxTypeOK, OutboxInv, NEW l \in Key, Replay(l)
  PROVE  OutboxInv'
<1> USE DEF OutboxInv
<1>1. outboxUp /\ outboxMem = outboxDisk /\ UNCHANGED <<outboxUp, loaded, workVars, expired, accepted>>
  BY DEF Replay, procVars, ProcInv
<1>2. ProcInv'
  BY <1>1, ReplayRows DEF ProcInv
<1>3. ASSUME NEW k \in outBatch, HeldRow(k)
      PROVE  HeldRow(k)' /\ (UnsentRow(k) => UnsentRow(k)')
  <2>1. outboxMem' = outboxDisk' /\ outboxDisk'[k] = outboxDisk[k] /\ sends'[k] = sends[k]
    BY <1>1, <1>3, ReplayRows DEF HeldRow, OutboxTypeOK
  <2>2. QED BY <1>1, <1>3, <2>1 DEF HeldRow, UnsentRow, Matches, workVars
<1>4. BatchInv'
  BY <1>1, <1>3 DEF BatchInv, InFlight, workVars
<1>5. QED BY <1>2, <1>4, BoxReplay

(* Every step of the worker keeps the invariant.                            *)
LEMMA InvWorker ==
  ASSUME OutboxTypeOK, OutboxInv, OutboxWorker
  PROVE  OutboxInv'
<1> USE DEF OutboxInv
<1>1. outboxUp /\ UNCHANGED <<outboxUp, loaded>>
  BY DEF OutboxWorker, Tick, VisitDone, SendBatch, Accept, Answer, FinishBatch, Sweep, Reservation, Reserve,
    Visit, procVars
<1>2. ASSUME UNCHANGED boxVars PROVE ProcInv' /\ BoxInv'
  BY <1>1, <1>2, BoxSame DEF ProcInv, boxVars
<1>3. CASE Tick \/ VisitDone
  BY <1>2, <1>3, BatchIdle DEF Tick, VisitDone
<1>4. ASSUME NEW d \in Dests, Visit(d) PROVE OutboxInv'
  BY <1>2, <1>4, BatchIdle DEF Visit
<1>5. CASE SendBatch
  <2>1. /\ UNCHANGED <<outboxMem, outboxDisk, expired, accepted, here, outBatch>> /\ phase = "reserved"
        /\ phase' = "sending" \/ (phase' = "answered" /\ answer' = "authority")
    BY <1>5 DEF SendBatch
  <2>2. BatchInv'
    BY <1>1, <2>1 DEF BatchInv, InFlight, HeldRow, Matches
  <2>3. QED BY <1>1, <1>5, <2>1, <2>2, BoxSend DEF ProcInv
<1>6. CASE Accept
  <2>1. UNCHANGED <<outboxMem, outboxDisk, expired, sends, workVars>> /\ accepted \subseteq accepted'
    BY <1>6 DEF Accept
  <2>2. BatchInv'
    BY <1>1, <2>1 DEF BatchInv, InFlight, HeldRow, UnsentRow, Matches, workVars
  <2>3. QED BY <1>1, <1>6, <2>1, <2>2, BoxAccept DEF ProcInv
<1>7. CASE Answer
  <2>1. /\ UNCHANGED <<boxVars, here, outBatch>> /\ phase = "sending" /\ phase' = "answered"
        /\ answer' = "ok" => outBatch \subseteq accepted
    BY <1>7 DEF Answer
  <2>2. BatchInv'
    BY <1>1, <2>1 DEF BatchInv, InFlight, HeldRow, Matches, boxVars
  <2>3. QED BY <1>2, <2>1, <2>2
<1>8. CASE FinishBatch
  BY <1>1, <1>8, FinishRows, BoxFinish, BatchIdle DEF FinishBatch, ProcInv
<1>9. ASSUME NEW ok \in BOOLEAN, Sweep(ok) PROVE OutboxInv'
  BY <1>1, <1>9, SweepRows, BoxSweep, BatchIdle DEF Sweep, ProcInv
<1>10. ASSUME NEW ok \in BOOLEAN, NEW B \in SUBSET Key, Reserve(B, ok) PROVE OutboxInv'
  <2>1. ProcInv' /\ BoxInv'
    BY <1>1, <1>10, ReserveRows, BoxReserve DEF ProcInv
  <2>2. CASE outBatch' = {}
    <3>1. phase' = "visiting"
      BY <1>10, <2>2 DEF Reserve
    <3>2. QED BY <2>1, <3>1, BatchIdle
  <2>3. CASE outBatch' # {}
    <3>1. phase' = "reserved" /\ outBatch' = B /\ ok /\ UNCHANGED <<here, sends>>
      BY <1>10, <2>3 DEF Reserve, ToSend
    <3>2. ASSUME NEW k \in B PROVE HeldRow(k)' /\ UnsentRow(k)'
      <4>1. /\ outboxMem' = outboxDisk' /\ k.dest = here /\ Matches(k) /\ Charges(k)
        BY <1>10, <3>1, ReserveRows
      <4>2. /\ outboxDisk[k].attempts \in Nat /\ sends[k] \in Nat /\ MaxAttempts \in Nat
            /\ sends[k] <= outboxDisk[k].attempts
        BY <4>1, LimitAssumption DEF OutboxTypeOK, Delivery, BoxInv, Charged, Charges
      <4>3. HeldRow(k)'
        BY <1>1, <3>1, <4>1, <4>2 DEF HeldRow, Matches, Charges
      <4>4. UnsentRow(k)'
        BY <3>1, <4>1, <4>2 DEF UnsentRow, Charges
      <4>5. QED BY <4>3, <4>4
    <3>3. BatchInv'
      BY <3>1, <3>2 DEF BatchInv
    <3>4. QED BY <2>1, <3>3
  <2>4. QED BY <2>2, <2>3
<1>11. QED BY <1>3, <1>4, <1>5, <1>6, <1>7, <1>8, <1>9, <1>10 DEF OutboxWorker, Reservation

(* The steps of the outbox, grouped as the proof treats them.               *)
LEMMA NextParts ==
  OutboxNext => \/ ProcStep \/ OutboxWorker
                \/ \E e \in OutboxEvents : EnqueueRow(e)
                \/ \E k \in Key : Replay(k)
BY DEF OutboxNext, ProcStep

(* The invariant holds initially.                                           *)
LEMMA InvInit == OutboxInit => OutboxInv
<1> SUFFICES ASSUME OutboxInit PROVE OutboxInv
  OBVIOUS
<1>1. BoxInv
  BY LimitAssumption DEF OutboxInit, BoxInv, Charged, NoDelivery
<1>2. ProcInv /\ BatchInv
  BY DEF OutboxInit, ProcInv, BatchInv, InFlight
<1>3. QED BY <1>1, <1>2 DEF OutboxInv

(* Every step keeps the invariant.                                          *)
LEMMA BoxInvStep == OutboxTypeOK /\ OutboxInv /\ [OutboxNext]_outboxVars => OutboxInv'
<1> SUFFICES ASSUME OutboxTypeOK, OutboxInv, [OutboxNext]_outboxVars PROVE OutboxInv'
  OBVIOUS
<1>1. CASE OutboxNext
  BY <1>1, NextParts, InvProcStep, InvWorker, InvEnqueue, InvReplay
<1>2. CASE UNCHANGED outboxVars
  <2>1. UNCHANGED <<outboxUp, loaded, workVars, boxVars>>
    BY <1>2 DEF outboxVars, procVars
  <2>2. QED BY <2>1, BoxSame, BatchSame DEF OutboxInv, ProcInv, boxVars, workVars
<1>3. QED BY <1>1, <1>2

(* The inductive invariant of the outbox holds throughout.                  *)
LEMMA OutboxInvariant == OutboxSpec => []OutboxInv
BY OutboxTypeCorrect, InvInit, BoxInvStep, PTL DEF OutboxSpec

(* What the invariant says: requests are charged on disk before they leave, *)
(* rows in flight stay what was sent, and a delivered row was accepted.     *)
LEMMA InvHonest == OutboxInv => SendsAreCharged /\ InFlightUntouched /\ DeliveredIsTrue
<1> SUFFICES ASSUME OutboxInv PROVE SendsAreCharged /\ InFlightUntouched /\ DeliveredIsTrue
  OBVIOUS
<1>1. SendsAreCharged
  BY DEF OutboxInv, BoxInv, Charged, SendsAreCharged
<1>2. InFlightUntouched
  BY DEF OutboxInv, BatchInv, InFlight, HeldRow, InFlightUntouched
<1>3. DeliveredIsTrue
  BY DEF OutboxInv, BoxInv, Charged, DeliveredIsTrue, In
<1>4. QED BY <1>1, <1>2, <1>3

(* Whatever fails, is lost, is late or dies: every request sent was charged *)
(* on disk before it left, the rows of a request in flight stay what was    *)
(* sent, and a row is delivered only if the receiver took it.               *)
THEOREM OutboxIsTruthful ==
  OutboxSpec => [](SendsAreCharged /\ InFlightUntouched /\ DeliveredIsTrue)
BY OutboxInvariant, InvHonest, PTL

-----------------------------------------------------------------------------
(* Revocations, one at a time.                                              *)

LEMMA BusyQuiet ==
  ASSUME RevokedInv, UNCHANGED <<revokedFile, retiring, writing, acked>>
  PROVE  RevokedInv'
BY DEF RevokedInv, OneBusy, WriteInv, Busy

(* A retirement begins only when no other is under way.                     *)
LEMMA NobodyBusy ==
  ASSUME OneBusy, AdminSlots = 1, Cardinality(Busy) < AdminSlots
  PROVE  Busy = {}
<1>1. SUFFICES ASSUME NEW o \in Busy PROVE FALSE
  OBVIOUS
<1>2. Busy = {o}
  BY DEF OneBusy
<1>3. Cardinality(Busy) = 1
  BY <1>2, FS_Singleton
<1>4. QED BY <1>3

(* With one administrator at a time, an acknowledged revocation stays in    *)
(* the file.                                                                *)
LEMMA RevokedStep ==
  ASSUME AdminSlots = 1, OutboxTypeOK, RevokedInv, [OutboxNext]_outboxVars
  PROVE  RevokedInv'
<1> USE DEF RevokedInv
<1>1. CASE UNCHANGED authVars
  BY <1>1, BusyQuiet DEF authVars
<1>2. CASE OutboxCrash
  BY <1>2 DEF OutboxCrash, OneBusy, WriteInv, Busy
<1>3. CASE \E d \in Dests : EditGrant(d)
  BY <1>3, BusyQuiet DEF EditGrant
<1>4. CASE \E o \in Owners : EnableAccount(o)
  BY <1>4, BusyQuiet DEF EnableAccount
<1>5. ASSUME NEW o \in Owners, DisableAccount(o) PROVE RevokedInv'
  <2>1. /\ Busy = {} /\ retiring' = retiring \cup {o} /\ UNCHANGED <<writing, revokedFile, acked>>
    BY <1>5, NobodyBusy DEF DisableAccount
  <2>2. Busy' = {o}
    BY <2>1 DEF Busy
  <2>3. QED BY <2>1, <2>2 DEF OneBusy, WriteInv
<1>6. ASSUME NEW o \in Owners, RetireRead(o) PROVE RevokedInv'
  <2>1. /\ o \in retiring /\ retiring' = retiring \ {o} /\ UNCHANGED <<revokedFile, acked>>
        /\ writing' = [writing EXCEPT ![o] = revokedFile \cup {o}] \/ writing' = writing
    BY <1>6 DEF RetireRead
  <2>2. \A p \in Owners : writing'[p] = writing[p] \/ (p = o /\ writing'[p] = revokedFile \cup {o})
    BY <2>1 DEF OutboxTypeOK
  <2>3. Busy' \subseteq Busy
    BY <2>1, <2>2 DEF Busy
  <2>4. QED BY <2>1, <2>2, <2>3 DEF OneBusy, WriteInv
<1>7. ASSUME NEW o \in Owners, RetireWrite(o) PROVE RevokedInv'
  <2>1. /\ writing[o] # {} /\ writing' = [writing EXCEPT ![o] = {}] /\ UNCHANGED retiring
        /\ \/ revokedFile' = writing[o] /\ acked' = acked \cup {o}
           \/ UNCHANGED <<revokedFile, acked>>
    BY <1>7 DEF RetireWrite, Revocation
  <2>2. writing'[o] = {} /\ \A p \in Owners : p # o => writing'[p] = writing[p]
    BY <2>1 DEF OutboxTypeOK
  <2>3. Busy' \subseteq Busy /\ o \in Busy
    BY <2>1, <2>2 DEF Busy
  <2>4. \A p \in Owners : writing'[p] = {}
    BY <2>2, <2>3 DEF OneBusy, Busy
  <2>5. QED BY <2>1, <2>3, <2>4 DEF OneBusy, WriteInv
<1>8. OutboxNext => \/ UNCHANGED authVars \/ OutboxCrash
                    \/ \E d \in Dests : EditGrant(d)
                    \/ \E o \in Owners : EnableAccount(o) \/ DisableAccount(o) \/ RetireRead(o) \/ RetireWrite(o)
  <2>1. OutboxWorker => UNCHANGED authVars
    <3>1. Tick \/ VisitDone \/ SendBatch \/ Accept \/ Answer \/ FinishBatch => UNCHANGED authVars
      BY Zenon DEF Tick, VisitDone, SendBatch, Accept, Answer, FinishBatch
    <3>2. \A ok \in BOOLEAN : Sweep(ok) \/ Reservation(ok) => UNCHANGED authVars
      BY Zenon DEF Sweep, Reservation, Reserve
    <3>3. \A d \in Dests : Visit(d) => UNCHANGED authVars
      BY Zenon DEF Visit
    <3>4. QED BY <3>1, <3>2, <3>3, Zenon DEF OutboxWorker
  <2>2. Start => UNCHANGED authVars
    BY Zenon DEF Start
  <2>3. \A e \in OutboxEvents : Expire(e) \/ EnqueueRow(e) => UNCHANGED authVars
    BY Zenon DEF Expire, EnqueueRow
  <2>4. \A k \in Key : Replay(k) => UNCHANGED authVars
    BY Zenon DEF Replay
  <2>5. QED BY <2>1, <2>2, <2>3, <2>4 DEF OutboxNext
<1>9. QED BY <1>1, <1>2, <1>3, <1>4, <1>5, <1>6, <1>7, <1>8 DEF outboxVars

(* When account retirements run one at a time the outbox is honest in full: *)
(* an acknowledged revocation holds over restarts, over enabling the        *)
(* account again and over other revocations.  (Two at a time may lose one:  *)
(* the file is read and written without a lock.)                            *)
THEOREM OutboxIsHonest ==
  ASSUME AdminSlots = 1
  PROVE  OutboxSpec => []OutboxHonest
<1>1. OutboxInit => RevokedInv
  BY DEF OutboxInit, RevokedInv, OneBusy, WriteInv, Busy
<1>2. OutboxTypeOK /\ RevokedInv /\ [OutboxNext]_outboxVars => RevokedInv'
  BY RevokedStep
<1>3. OutboxTypeOK /\ OutboxInv /\ RevokedInv => OutboxHonest
  BY InvHonest DEF OutboxHonest, RevokedInv, RevocationSticks, Authorized
<1>4. QED BY OutboxTypeCorrect, OutboxInvariant, <1>1, <1>2, <1>3, PTL DEF OutboxSpec

-----------------------------------------------------------------------------
(* Rows keep to their authority and their state.                            *)

(* A request starts in SendBatch, which looks at the authority once more.   *)
LEMMA AuthorityStep ==
  ASSUME OutboxTypeOK, OutboxInv, [OutboxNext]_outboxVars, phase = "reserved", phase' = "sending"
  PROVE  \A k \in outBatch : OwnerOf[k.dest] \in accounts \ revokedFile /\ grantRev[k.dest] = k.rev
<1>1. phase' # phase
  OBVIOUS
<1>2. SendBatch /\ MaySend
  <2>1. ~(UNCHANGED workVars) /\ ~(UNCHANGED outboxVars)
    BY <1>1 DEF workVars, outboxVars
  <2>2. OutboxWorker
    BY <2>1 DEF OutboxNext, Start, OutboxCrash, Expire, EnqueueRow, Replay, EditGrant, EnableAccount, DisableAccount,
      RetireRead, RetireWrite
  <2>3. QED
    BY <2>2 DEF OutboxWorker, Tick, VisitDone, SendBatch, Accept, workVars, Answer, FinishBatch, Sweep,
      Reservation, Reserve, Visit
<1>3. Authorized(here)
  BY <1>2 DEF MaySend
<1>4. \A k \in outBatch : k.dest = here /\ Matches(k)
  BY DEF OutboxInv, BatchInv, InFlight, HeldRow
<1>5. QED BY <1>3, <1>4 DEF Authorized, Matches

(* What any step does to a row of the file.                                 *)
LEMMA RowStep ==
  ASSUME OutboxTypeOK, OutboxInv, [OutboxNext]_outboxVars, NEW k \in Key
  PROVE  \/ outboxDisk'[k] = outboxDisk[k]
         \/ Leaves(k)
         \/ outboxDisk[k].state = "absent"
         \/ outboxDisk[k].state \in {"failed", "delivered"} /\ outboxDisk'[k].state = "pending"
         \/ outboxDisk[k].state = "pending" /\ outboxDisk'[k].state # "absent"
<1> USE DEF OutboxInv
<1>1. CASE UNCHANGED outboxDisk
  BY <1>1
<1>2. ASSUME NEW e \in OutboxEvents, EnqueueRow(e)
      PROVE  outboxDisk'[k] = outboxDisk[k] \/ Leaves(k) \/ outboxDisk[k].state = "absent"
  BY <1>2, EnqueueRows
<1>3. ASSUME NEW l \in Key, Replay(l)
      PROVE  \/ outboxDisk'[k] = outboxDisk[k]
             \/ outboxDisk[k].state \in {"failed", "delivered"} /\ outboxDisk'[k].state = "pending"
  <2>1. \/ outboxDisk'[k] = outboxDisk[k]
        \/ /\ outboxDisk[k].state \in {"failed", "delivered"}
           /\ outboxDisk'[k] = [state |-> "pending", attempts |-> 0, replays |-> outboxDisk[k].replays + 1]
    BY <1>3, ReplayRows, Zenon
  <2>2. QED BY <2>1
<1>4. ASSUME NEW ok \in BOOLEAN, Sweep(ok)
      PROVE  \/ outboxDisk'[k] = outboxDisk[k]
             \/ Leaves(k)
             \/ outboxDisk[k].state = "pending" /\ outboxDisk'[k].state # "absent"
  BY <1>4, SweepRows DEF Turns
<1>5. ASSUME NEW ok \in BOOLEAN, NEW B \in SUBSET Key, Reserve(B, ok)
      PROVE  \/ outboxDisk'[k] = outboxDisk[k]
             \/ Leaves(k)
             \/ outboxDisk[k].state = "pending" /\ outboxDisk'[k].state # "absent"
  BY <1>5, ReserveRows DEF Turns, Charges
<1>6. CASE FinishBatch
  BY <1>6, FinishRows DEF Turns
<1>7. OutboxNext => \/ UNCHANGED outboxDisk \/ FinishBatch
                    \/ \E e \in OutboxEvents : EnqueueRow(e)
                    \/ \E l \in Key : Replay(l)
                    \/ \E ok \in BOOLEAN : Sweep(ok)
                    \/ \E ok \in BOOLEAN, B \in SUBSET Key : Reserve(B, ok)
  <2>1. Start \/ OutboxCrash \/ Tick \/ VisitDone \/ SendBatch \/ Accept \/ Answer => UNCHANGED outboxDisk
    BY DEF Start, OutboxCrash, Tick, VisitDone, SendBatch, Accept, Answer, boxVars
  <2>2. \A d \in Dests : Visit(d) \/ EditGrant(d) => UNCHANGED outboxDisk
    BY DEF Visit, EditGrant, boxVars
  <2>3. \A o \in Owners : EnableAccount(o) \/ DisableAccount(o) \/ RetireRead(o) \/ RetireWrite(o)
          => UNCHANGED outboxDisk
    BY DEF EnableAccount, DisableAccount, RetireRead, RetireWrite, boxVars
  <2>4. \A e \in OutboxEvents : Expire(e) => UNCHANGED outboxDisk
    BY DEF Expire
  <2>5. OutboxWorker => \/ UNCHANGED outboxDisk \/ FinishBatch
                        \/ \E ok \in BOOLEAN : Sweep(ok)
                        \/ \E ok \in BOOLEAN, B \in SUBSET Key : Reserve(B, ok)
    BY <2>1, <2>2, Zenon DEF OutboxWorker, Reservation
  <2>6. QED BY <2>1, <2>2, <2>3, <2>4, <2>5 DEF OutboxNext
<1>8. UNCHANGED outboxVars => UNCHANGED outboxDisk
  BY DEF outboxVars, boxVars
<1>9. QED BY <1>1, <1>2, <1>3, <1>4, <1>5, <1>6, <1>7, <1>8

(* A request starts only with authority that holds at that moment, a        *)
(* pending row is never dropped under pressure, and a revoked one never     *)
(* comes back.                                                              *)
THEOREM RowsAreKept == OutboxSpec => RowsKept
<1>1. OutboxTypeOK /\ OutboxInv /\ [OutboxNext]_outboxVars =>
        [phase = "reserved" /\ phase' = "sending" =>
           \A k \in outBatch : OwnerOf[k.dest] \in accounts \ revokedFile /\ grantRev[k.dest] = k.rev]_outboxVars
  BY AuthorityStep
<1>2. OutboxTypeOK /\ OutboxInv /\ [OutboxNext]_outboxVars =>
        [\A k \in Pending(outboxDisk) : outboxDisk'[k].state = "absent" => k.event \in expired]_outboxVars
  BY RowStep DEF Pending, In, Leaves
<1>3. OutboxTypeOK /\ OutboxInv /\ [OutboxNext]_outboxVars =>
        [\A k \in In(outboxDisk, {"revoked"}) : outboxDisk'[k].state \in {"revoked", "absent"}]_outboxVars
  BY RowStep DEF In, Leaves, NoDelivery
<1>4. OutboxSpec => SendsWithAuthority
  BY OutboxTypeCorrect, OutboxInvariant, <1>1, PTL DEF OutboxSpec, SendsWithAuthority
<1>5. OutboxSpec => PendingKept
  BY OutboxTypeCorrect, OutboxInvariant, <1>2, PTL DEF OutboxSpec, PendingKept
<1>6. OutboxSpec => RevokedIsFinal
  BY OutboxTypeCorrect, OutboxInvariant, <1>3, PTL DEF OutboxSpec, RevokedIsFinal
<1>7. QED BY <1>4, <1>5, <1>6 DEF RowsKept
===============================================================================
