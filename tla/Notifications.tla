--------------------------- MODULE Notifications ---------------------------
(***************************************************************************)
(* Completion webhooks: the durable outbox (server/notification_outbox.rs), *)
(* the Notifier that fills, sweeps and sends it (server/notifications.rs),  *)
(* and the owner revocation that account changes trigger (routes/auth.rs).  *)
(*                                                                          *)
(* The outbox mutex makes enqueue, replay and each commit of the worker one *)
(* action.  What the worker reads before it takes the mutex (its authority) *)
(* is a step of its own, and so is the request it sends without the mutex.  *)
(* Times are left out: a pending row may be due or not, the receiver may    *)
(* answer or not, and an event expires once (the clock is monotone here).   *)
(***************************************************************************)
EXTENDS Naturals, FiniteSets

CONSTANTS
  Owners,       \* account identities
  Dests,        \* configured destination ids
  OwnerOf,      \* the owner of a destination
  OutboxEvents,       \* completions, numbered in the order of finished_at
  Targets,      \* the destinations of the event's owner that subscribe to it
  MaxGrant,     \* bound: edits of a destination's grant are numbered 1..MaxGrant
  Capacity,     \* settings.capacity
  BatchSize,    \* settings.batch_size
  MaxAttempts,  \* settings.attempts
  MaxReplays,   \* settings.max_replays
  AdminSlots,   \* how many account retirements run at a time
  MaxOutboxBoots      \* bound: how often the server starts

ASSUME OwnerAssumption == OwnerOf \in [Dests -> Owners]
ASSUME EventAssumption == OutboxEvents \subseteq Nat /\ Targets \in [OutboxEvents -> SUBSET Dests]
ASSUME LimitAssumption ==
  /\ MaxGrant \in Nat \ {0} /\ Capacity \in Nat \ {0} /\ BatchSize \in Nat \ {0}
  /\ MaxAttempts \in Nat \ {0} /\ MaxReplays \in Nat
  /\ AdminSlots \in Nat /\ MaxOutboxBoots \in Nat

VARIABLES
  outboxUp, outboxBoots,
  accounts,     \* enabled admin/operator accounts
  grantRev,        \* the destination's grant in the configuration file, 0: none
  loaded,       \* the grant this process loaded, 0: none or disabled
  revokedFile,  \* revoked-owners.json
  suppressed,   \* Inner.suppressed_owners
  retiring,     \* disabled accounts whose revocation has not begun
  writing,      \* what a revocation under way will write, {} for none
  acked,        \* owners whose revocation was acknowledged, ever
  edited,       \* destinations granted anew since their owner was revoked
  outboxMem,          \* Outbox.data
  outboxDisk,         \* outbox.json
  expired,      \* events past their retention
  phase,        \* where the worker's tick stands
  left,         \* destinations the tick has still to visit
  here,         \* the destination it is visiting
  allowed,      \* destinations found authorized before the mutex was taken
  outBatch,        \* rows reserved for the request in progress
  answer,       \* its result
  sends,        \* requests sent for a row since it was queued or replayed
  accepted      \* rows a receiver has accepted, ever

procVars == <<outboxUp, outboxBoots, loaded, suppressed>>
authVars == <<accounts, grantRev, revokedFile, retiring, writing, acked, edited>>
workVars == <<phase, left, here, allowed, outBatch, answer>>
boxVars == <<outboxMem, outboxDisk, expired, sends, accepted>>
outboxVars == <<procVars, authVars, workVars, boxVars>>

-----------------------------------------------------------------------------
Grants == 1..MaxGrant
Key == [event : OutboxEvents, dest : Dests, rev : Grants]
States == {"absent", "pending", "delivered", "failed", "revoked"}
Answers == {"ok", "retry", "refuse", "authority"}

Delivery == [state : States, attempts : Nat, replays : Nat]
NoDelivery == [state |-> "absent", attempts |-> 0, replays |-> 0]
QueuedRow == [state |-> "pending", attempts |-> 0, replays |-> 0]

In(box, states) == {k \in Key : box[k].state \in states}
Present(box) == {k \in Key : box[k].state # "absent"}
Pending(box) == In(box, {"pending"})

(* Rows past their retention go with every write.                           *)
Pruned(box) == [k \in Key |-> IF k.event \in expired THEN NoDelivery ELSE box[k]]

(* Inner::authorized: what was loaded at the start, checked against the     *)
(* account, the revocations and the configuration as they are now.          *)
Authorized(d) ==
  /\ loaded[d] # 0 /\ OwnerOf[d] \notin suppressed
  /\ OwnerOf[d] \in accounts
  /\ loaded[d] = grantRev[d] /\ OwnerOf[d] \notin revokedFile

(* The row was made for a destination as this process has loaded it.        *)
Matches(k) == loaded[k.dest] = k.rev

(* Outbox::commit.  An unchanged box is not written.  A write that fails    *)
(* before the rename changes nothing; one whose directory sync fails has    *)
(* changed file and memory, and still reports an error.                     *)
Committed(next, ok) == outboxDisk' = next /\ outboxMem' = next

Commit(next, ok) ==
  \/ Committed(next, ok) /\ (next = outboxMem => ok)
  \/ ~ok /\ next # outboxMem /\ UNCHANGED <<outboxMem, outboxDisk>>

-----------------------------------------------------------------------------
OutboxInit ==
  /\ outboxUp = FALSE /\ outboxBoots = 0 /\ loaded = [d \in Dests |-> 0] /\ suppressed = {}
  /\ accounts = Owners /\ grantRev = [d \in Dests |-> 1]
  /\ revokedFile = {} /\ retiring = {} /\ writing = [o \in Owners |-> {}] /\ acked = {} /\ edited = {}
  /\ outboxMem = [k \in Key |-> NoDelivery] /\ outboxDisk = [k \in Key |-> NoDelivery] /\ expired = {}
  /\ phase = "idle" /\ left = {} /\ here \in Dests /\ allowed = {} /\ outBatch = {} /\ answer = "ok"
  /\ sends = [k \in Key |-> 0] /\ accepted = {}

(* Notifier::start.                                                         *)
Start ==
  /\ ~outboxUp /\ outboxBoots < MaxOutboxBoots
  /\ outboxUp' = TRUE /\ outboxBoots' = outboxBoots + 1
  /\ loaded' = [d \in Dests |-> IF OwnerOf[d] \in revokedFile THEN 0 ELSE grantRev[d]]
  /\ suppressed' = revokedFile
  /\ outboxMem' = outboxDisk
  /\ UNCHANGED <<authVars, workVars, outboxDisk, expired, sends, accepted>>

(* The process ends: killed, or stopped with a request in flight.           *)
OutboxCrash ==
  /\ outboxUp /\ outboxBoots < MaxOutboxBoots
  /\ outboxUp' = FALSE /\ loaded' = [d \in Dests |-> 0] /\ suppressed' = {}
  /\ retiring' = {} /\ writing' = [o \in Owners |-> {}]
  /\ outboxMem' = [k \in Key |-> NoDelivery]
  /\ phase' = "idle" /\ left' = {} /\ allowed' = {} /\ outBatch' = {} /\ answer' = "ok"
  /\ UNCHANGED <<outboxBoots, accounts, grantRev, revokedFile, acked, edited, here, outboxDisk, expired, sends, accepted>>

(* An event's retention ends.                                               *)
Expire(e) ==
  /\ e \notin expired
  /\ expired' = expired \cup {e}
  /\ UNCHANGED <<procVars, authVars, workVars, outboxMem, outboxDisk, sends, accepted>>

-----------------------------------------------------------------------------
(* Authority                                                                *)

(* The operator edits the destination's grant in the configuration file.    *)
EditGrant(d) ==
  /\ \E g \in (0..MaxGrant) \ {grantRev[d]} :
       /\ grantRev' = [grantRev EXCEPT ![d] = g]
       /\ edited' = IF g # 0 /\ OwnerOf[d] \in acked THEN edited \cup {d} ELSE edited \ {d}
  /\ UNCHANGED <<procVars, accounts, revokedFile, retiring, writing, acked, workVars, boxVars>>

Busy == retiring \cup {o \in Owners : writing[o] # {}}

EnableAccount(o) ==
  /\ outboxUp /\ o \notin accounts
  /\ accounts' = accounts \cup {o}
  /\ UNCHANGED <<procVars, grantRev, revokedFile, retiring, writing, acked, edited, workVars, boxVars>>

(* set_disabled: the account goes first.                                    *)
DisableAccount(o) ==
  /\ outboxUp /\ o \in accounts /\ o \notin Busy /\ Cardinality(Busy) < AdminSlots
  /\ accounts' = accounts \ {o} /\ retiring' = retiring \cup {o}
  /\ UNCHANGED <<procVars, grantRev, revokedFile, writing, acked, edited, workVars, boxVars>>

(* disable_owner reads the file and adds the owner, unless the cancellation *)
(* of the owner's schedules, which comes first, failed.                     *)
RetireRead(o) ==
  /\ outboxUp /\ o \in retiring
  /\ retiring' = retiring \ {o}
  /\ writing' \in {[writing EXCEPT ![o] = revokedFile \cup {o}], writing}
  /\ UNCHANGED <<procVars, accounts, grantRev, revokedFile, acked, edited, workVars, boxVars>>

(* It writes the file and only then suppresses the owner in memory; a       *)
(* failed write is reported.                                                *)
Revocation(o) == writing[o]

RetireWrite(o) ==
  /\ outboxUp /\ writing[o] # {}
  /\ writing' = [writing EXCEPT ![o] = {}]
  /\ \/ /\ revokedFile' = Revocation(o)
        /\ suppressed' = suppressed \cup {o}
        /\ acked' = acked \cup {o}
        /\ edited' = {d \in edited : OwnerOf[d] # o}
     \/ UNCHANGED <<revokedFile, suppressed, acked, edited>>
  /\ UNCHANGED <<outboxUp, outboxBoots, loaded, accounts, grantRev, retiring, workVars, boxVars>>

-----------------------------------------------------------------------------
(* Filling the outbox                                                       *)

(* Room for the new rows: at capacity the oldest rows that are not pending  *)
(* make place; what still does not fit is refused.                          *)
Evictable(box) == Present(box) \ Pending(box)

Admissions(box, new) ==
  LET room  == Capacity - Cardinality(Present(box))
      most  == room + Cardinality(Evictable(box))
      admit == IF Cardinality(new) <= most THEN Cardinality(new) ELSE most
      evict == IF admit <= room THEN 0 ELSE admit - room
  IN {p \in (SUBSET new) \X (SUBSET Evictable(box)) :
        /\ Cardinality(p[1]) = admit /\ Cardinality(p[2]) = evict
        /\ \A k \in p[2], l \in Evictable(box) \ p[2] : k.event <= l.event}

(* enqueue: called when a job ends and, for every retained job, at the      *)
(* start.  An expired event is ignored, a row that is there is kept.        *)
New(e, box) ==
  {[event |-> e, dest |-> d, rev |-> loaded[d]] : d \in {t \in Targets[e] : Authorized(t)}}
    \ Present(box)

EnqueueRow(e) ==
  /\ outboxUp /\ e \notin expired
  /\ LET kept == Pruned(outboxMem) IN
       \E pick \in Admissions(kept, New(e, kept)), ok \in BOOLEAN :
         LET next == [k \in Key |-> IF k \in pick[1] THEN QueuedRow
                                    ELSE IF k \in pick[2] THEN NoDelivery ELSE kept[k]]
         IN /\ Commit(next, ok)
            /\ sends' = [k \in Key |-> IF outboxMem'[k] = QueuedRow /\ k \in pick[1] THEN 0 ELSE sends[k]]
  /\ UNCHANGED <<procVars, authVars, workVars, expired, accepted>>

(* replay: the owner asks for one more cycle.                               *)
Replayable(k) == outboxMem[k].state \in {"failed", "delivered"} /\ outboxMem[k].replays < MaxReplays

Replay(k) ==
  /\ outboxUp /\ Matches(k) /\ Authorized(k.dest)
  /\ Replayable(k) /\ k.event \notin expired
  /\ \E ok \in BOOLEAN :
       Commit([outboxMem EXCEPT ![k] = [state |-> "pending", attempts |-> 0,
                                  replays |-> outboxMem[k].replays + 1]], ok)
  /\ sends' = IF outboxMem' # outboxMem THEN [sends EXCEPT ![k] = 0] ELSE sends
  /\ UNCHANGED <<procVars, authVars, workVars, expired, accepted>>

-----------------------------------------------------------------------------
(* The worker                                                               *)

(* A tick first reads which destinations are authorized.                    *)
Tick ==
  /\ outboxUp /\ phase = "idle"
  /\ phase' = "sweeping" /\ allowed' = {d \in Dests : Authorized(d)}
  /\ UNCHANGED <<procVars, authVars, boxVars, left, here, outBatch, answer>>

(* A pending row without authority is revoked, one out of attempts fails.   *)
Swept(box, granted) ==
  [k \in Key |->
     IF box[k].state # "pending" THEN box[k]
     ELSE IF k \notin granted THEN [box[k] EXCEPT !.state = "revoked"]
     ELSE IF box[k].attempts >= MaxAttempts THEN [box[k] EXCEPT !.state = "failed"]
     ELSE box[k]]

Sweep(ok) ==
  /\ outboxUp /\ phase = "sweeping"
  /\ LET granted == {k \in Key : k.dest \in allowed /\ Matches(k)}
     IN Commit(Swept(Pruned(outboxMem), granted), ok)
  /\ IF ok THEN phase' = "visiting" /\ left' = Dests
     ELSE phase' = "idle" /\ UNCHANGED left
  /\ allowed' = {}
  /\ UNCHANGED <<procVars, authVars, expired, sends, accepted, here, outBatch, answer>>

(* The next destination: its authority is read before the mutex is taken.   *)
Visit(d) ==
  /\ outboxUp /\ phase = "visiting" /\ d \in left
  /\ phase' = "reserving" /\ left' = left \ {d} /\ here' = d
  /\ allowed' = IF Authorized(d) THEN {d} ELSE {}
  /\ UNCHANGED <<procVars, authVars, boxVars, outBatch, answer>>

(* The rows this visit may reserve: any that are due, at most a batch.      *)
Reservable(box) ==
  IF here \notin allowed THEN {{}}
  ELSE {B \in SUBSET {k \in Pending(box) : k.dest = here /\ Matches(k)} : Cardinality(B) <= BatchSize}

MutantReserved(box, B) == box
Reserved(box, B) == [k \in Key |-> IF k \in B THEN [box[k] EXCEPT !.attempts = @ + 1] ELSE box[k]]

(* A failed write means no request.                                         *)
MutantToSend(B, ok) == B
ToSend(B, ok) == IF ok THEN B ELSE {}

Reserve(B, ok) ==
  /\ outboxUp /\ phase = "reserving"
  /\ LET granted == {k \in Key : Matches(k) /\ (k.dest = here => here \in allowed)}
         box == Swept(Pruned(outboxMem), granted)
     IN /\ B \in Reservable(box)
        /\ Commit(Reserved(box, B), ok)
  /\ outBatch' = ToSend(B, ok)
  /\ phase' = IF outBatch' = {} THEN "visiting" ELSE "reserved"
  /\ allowed' = IF outBatch' = {} THEN {} ELSE allowed
  /\ UNCHANGED <<procVars, authVars, expired, sends, accepted, left, here, answer>>

VisitDone ==
  /\ outboxUp /\ phase = "visiting" /\ left = {}
  /\ phase' = "idle"
  /\ UNCHANGED <<procVars, authVars, boxVars, left, here, allowed, outBatch, answer>>

(* The authority is checked once more, right before the request.            *)
MutantMaySend == here \in allowed
MaySend == Authorized(here)

SendBatch ==
  /\ outboxUp /\ phase = "reserved"
  /\ \/ /\ MaySend
        /\ phase' = "sending"
        /\ sends' = [k \in Key |-> IF k \in outBatch THEN sends[k] + 1 ELSE sends[k]]
        /\ UNCHANGED answer
     \/ /\ ~MaySend
        /\ phase' = "answered" /\ answer' = "authority"
        /\ UNCHANGED sends
  /\ UNCHANGED <<procVars, authVars, outboxMem, outboxDisk, expired, accepted, left, here, allowed, outBatch>>

(* The receiver takes the batch, whether or not its answer comes back.      *)
Accept ==
  /\ outboxUp /\ phase = "sending" /\ ~(outBatch \subseteq accepted)
  /\ accepted' = accepted \cup outBatch
  /\ UNCHANGED <<procVars, authVars, workVars, outboxMem, outboxDisk, expired, sends>>

(* The answer: 2xx only from a receiver that accepted; a timeout, transport *)
(* error, 429 or 5xx may be retried; anything else is final.                *)
Answer ==
  /\ outboxUp /\ phase = "sending"
  /\ phase' = "answered"
  /\ \/ answer' = "ok" /\ outBatch \subseteq accepted
     \/ answer' \in {"retry", "refuse"}
  /\ UNCHANGED <<procVars, authVars, boxVars, left, here, allowed, outBatch>>

(* The result goes to the rows of the batch that are still there.           *)
Settled(row) ==
  CASE answer = "ok" -> "delivered"
    [] answer = "authority" -> "revoked"
    [] answer = "retry" /\ row.attempts < MaxAttempts -> "pending"
    [] OTHER -> "failed"

FinishBatch ==
  /\ outboxUp /\ phase = "answered"
  /\ \E ok \in BOOLEAN :
       Commit([k \in Key |-> IF k \in outBatch /\ outboxMem[k].state # "absent"
                             THEN [outboxMem[k] EXCEPT !.state = Settled(outboxMem[k])] ELSE outboxMem[k]], ok)
  /\ phase' = "visiting" /\ outBatch' = {} /\ allowed' = {} /\ answer' = "ok"
  /\ UNCHANGED <<procVars, authVars, expired, sends, accepted, left, here>>

-----------------------------------------------------------------------------
Reservation(ok) == \E B \in SUBSET Key : Reserve(B, ok)

OutboxWorker ==
  \/ Tick \/ VisitDone \/ SendBatch \/ Accept \/ Answer \/ FinishBatch
  \/ \E ok \in BOOLEAN : Sweep(ok) \/ Reservation(ok)
  \/ \E d \in Dests : Visit(d)

OutboxNext ==
  \/ Start \/ OutboxCrash \/ OutboxWorker
  \/ \E e \in OutboxEvents : Expire(e) \/ EnqueueRow(e)
  \/ \E k \in Key : Replay(k)
  \/ \E d \in Dests : EditGrant(d)
  \/ \E o \in Owners : EnableAccount(o) \/ DisableAccount(o) \/ RetireRead(o) \/ RetireWrite(o)

OutboxSpec == OutboxInit /\ [][OutboxNext]_outboxVars

(* The worker task is polled, its request is bounded by a timeout, every    *)
(* backoff ends, and the storage does not refuse every write for ever.      *)
OutboxFairness ==
  /\ WF_outboxVars(OutboxWorker)
  /\ SF_outboxVars(Sweep(TRUE)) /\ SF_outboxVars(Reservation(TRUE))
  /\ \A k \in Key : SF_outboxVars(\E B \in SUBSET Key : k \in B /\ Reserve(B, TRUE))

OutboxFairSpec == OutboxSpec /\ OutboxFairness

-----------------------------------------------------------------------------
(* Properties                                                               *)

(* Type correctness of every variable.                                      *)
OutboxTypeOK ==
  /\ outboxUp \in BOOLEAN /\ outboxBoots \in Nat
  /\ accounts \subseteq Owners /\ grantRev \in [Dests -> 0..MaxGrant]
  /\ loaded \in [Dests -> 0..MaxGrant]
  /\ revokedFile \subseteq Owners /\ suppressed \subseteq Owners
  /\ retiring \subseteq Owners /\ writing \in [Owners -> SUBSET Owners] /\ acked \subseteq Owners
  /\ edited \subseteq Dests
  /\ outboxMem \in [Key -> Delivery] /\ outboxDisk \in [Key -> Delivery] /\ expired \subseteq OutboxEvents
  /\ phase \in {"idle", "sweeping", "visiting", "reserving", "reserved", "sending", "answered"}
  /\ left \subseteq Dests /\ here \in Dests /\ allowed \subseteq Dests
  /\ outBatch \subseteq Key /\ answer \in Answers
  /\ sends \in [Key -> Nat] /\ accepted \subseteq Key

(* "Attempts persist before networking": across crashes and failed writes   *)
(* the file has charged every request that was ever sent for a row, and a   *)
(* row is sent at most MaxAttempts times between replays.                   *)
SendsAreCharged ==
  \A k \in Key : /\ outboxDisk[k].state # "absent" => sends[k] <= outboxDisk[k].attempts
                 /\ outboxDisk[k].attempts <= MaxAttempts /\ outboxDisk[k].replays <= MaxReplays
                 /\ sends[k] <= MaxAttempts

(* While a request is in flight its rows stay what was sent: a concurrent   *)
(* enqueue, replay or eviction leaves them pending and charged, so that the *)
(* answer is applied to the attempt it belongs to; only expiry takes one.   *)
InFlightUntouched ==
  phase \in {"reserved", "sending", "answered"} =>
    \A k \in outBatch : \/ outboxMem[k].state = "pending" /\ outboxMem[k].attempts > 0
                        \/ outboxMem[k].state = "absent" /\ k.event \in expired

(* A row is reported delivered, over every restart, only if the receiver    *)
(* accepted it.                                                             *)
DeliveredIsTrue == \A k \in In(outboxDisk, {"delivered"}) : k \in accepted

(* A request starts only with authority that holds at that moment, however  *)
(* long ago the sweep and the reservation looked.                           *)
SendsWithAuthority ==
  [][phase = "reserved" /\ phase' = "sending" =>
       \A k \in outBatch : OwnerOf[k.dest] \in accounts \ revokedFile /\ grantRev[k.dest] = k.rev]_outboxVars

(* Undelivered work is not lost to pressure: a pending row leaves the file  *)
(* only by expiry, or by getting a terminal state.                          *)
PendingKept ==
  [][\A k \in Pending(outboxDisk) : outboxDisk'[k].state = "absent" => k.event \in expired]_outboxVars

(* A revoked row stays revoked: no replay, late answer or restart brings it *)
(* back, even when the account is enabled again.                            *)
RevokedIsFinal ==
  [][\A k \in In(outboxDisk, {"revoked"}) : outboxDisk'[k].state \in {"revoked", "absent"}]_outboxVars

(* An acknowledged revocation holds over restarts and over re-enabling the  *)
(* account (SPEND_AND_NOTIFICATIONS.md: "Re-enabling the account does not   *)
(* restore the grants").                                                    *)
RevocationSticks == \A d \in Dests : OwnerOf[d] \in acked => ~Authorized(d)

(* disable_owner: "Stop this owner's destinations until an operator edits   *)
(* the grant and restarts": a server that starts with a grant edited since  *)
(* the revocation, for an enabled account, has that destination again.      *)
EditedGrantWorks ==
  [][\A d \in edited : ~outboxUp /\ outboxUp' /\ OwnerOf[d] \in accounts => loaded'[d] = grantRev[d]]_outboxVars

(* Every pending row is settled: delivered, failed, revoked or expired.     *)
PendingSettles == \A k \in Key : outboxMem[k].state = "pending" ~> outboxMem[k].state # "pending"

(* The outbox tells the truth: every request sent was charged on disk       *)
(* before it left, the rows of a request in flight stay what was sent, a    *)
(* row is delivered only if the receiver took it, and an acknowledged       *)
(* revocation holds over restarts and over enabling the account again       *)
(* (notifications.rs).                                                      *)
OutboxHonest ==
  OutboxTypeOK /\ SendsAreCharged /\ InFlightUntouched /\ DeliveredIsTrue /\ RevocationSticks

(* What the outbox does to a row keeps to its authority and its state: a    *)
(* request starts only with authority that holds at that moment, a pending  *)
(* row is never dropped under pressure, a revoked one never comes back      *)
(* (notifications.rs).                                                      *)
RowsKept == SendsWithAuthority /\ PendingKept /\ RevokedIsFinal
=============================================================================
