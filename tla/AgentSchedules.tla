--------------------------- MODULE AgentSchedules ---------------------------
(***************************************************************************)
(* Recurring agent work: the ScheduleStore (server/agent_schedules.rs), the *)
(* polling loop that dispatches due occurrences (routes/agent.rs) and the   *)
(* retirement of a disabled account's schedules (routes/auth.rs).           *)
(*                                                                          *)
(* `now' is the wall clock and may be set back.  A store method runs under  *)
(* the store's mutex and is one action, except that consume_and_dispatch    *)
(* keeps the mutex while start_job runs: `firing' is the occurrence it has  *)
(* consumed and is about to start.  Account changes do not take that mutex. *)
(* A failed write leaves the file unchanged (write_atomic).                 *)
(***************************************************************************)
EXTENDS Naturals, FiniteSets

CONSTANTS
  Ids,             \* preview and schedule identifiers (random_hex)
  Owners,          \* account identities
  OwnerOf,         \* the owner whose request an identifier stands for
  MaxSchedules,    \* settings.max_schedules
  MaxPreviews,     \* settings.max_previews
  PreviewTtl,      \* settings.preview_ttl_secs
  Grace,           \* settings.dispatch_grace_secs
  PreviewRuns,     \* occurrences a preview computes (5)
  Step,            \* seconds of an interval schedule
  Horizon,         \* end of the supported calendar (the year 2100)
  CalendarNext,    \* the calendar iterator: an instant for each t, 0 for none
  MaxNow,          \* bound: the wall clock ranges over 0..MaxNow
  MaxBoots         \* bound: how often the server opens the store

ASSUME OwnerAssumption == OwnerOf \in [Ids -> Owners]
ASSUME SettingsAssumption ==
  /\ MaxSchedules \in Nat \ {0} /\ MaxPreviews \in Nat \ {0}
  /\ PreviewTtl \in Nat \ {0} /\ Grace \in Nat /\ PreviewRuns \in Nat \ {0}
  /\ Step \in Nat \ {0} /\ MaxNow \in Nat /\ MaxBoots \in Nat
ASSUME CalendarAssumption ==
  Horizon \in Nat /\ CalendarNext \in [0..Horizon -> Nat]
(* The iterator answers with the first instant of the calendar after t: an  *)
(* instant between t and that answer has the same one.                      *)
ASSUME FirstInstantAssumption ==
  \A t, u \in 0..Horizon :
    t <= u /\ u < CalendarNext[t] => CalendarNext[u] = CalendarNext[t]

VARIABLES
  up, boots,
  now,         \* the wall clock
  authorized,  \* enabled admin/operator accounts
  retiring,    \* disabled accounts whose schedules are still to be cancelled
  rows,        \* ScheduleStore.inner
  disk,        \* console-schedules.json
  previews,    \* ScheduleStore.previews
  used,        \* identifiers handed out, ever
  polled,      \* due rows of the running poll: [id, at], not yet dispatched
  pollNow,     \* the clock value that poll was given
  firing,      \* the consumed occurrence whose start is in progress
  started,     \* occurrences handed to start_job and accepted, ever
  retired,     \* schedules whose cancellation was acknowledged, ever
  recovered,   \* rows this process read from disk
  bootNow      \* the clock when it did

procVars == <<up, boots, recovered, bootNow>>
authVars == <<authorized, retiring>>
pollVars == <<polled, pollNow, firing>>
vars == <<procVars, now, authVars, rows, disk, previews, used, pollVars, started, retired>>

-----------------------------------------------------------------------------
Times == 0..MaxNow
Specs == {"interval", "cron"}
Dispatches == {"none", "attempted", "skipped_late", "skipped_refused",
               "skipped_revoked", "skipped_downtime"}

Row == [status : {"absent", "active", "cancelled", "exhausted"}, spec : Specs,
        anchor : Nat, next : Nat, lastAt : Nat, last : Dispatches]
Absent == [status |-> "absent", spec |-> "interval", anchor |-> 0, next |-> 0,
           lastAt |-> 0, last |-> "none"]
Preview == [spec : Specs, anchor : Nat, expires : Nat, first : Nat]
NoPreview == [spec |-> "interval", anchor |-> 0, expires |-> 0, first |-> 0]
Occurrence == [id : Ids, at : Nat]
Idle == {}

Present(r) == {i \in Ids : r[i].status # "absent"}
Active(r) == {i \in Ids : r[i].status = "active"}

(* ScheduleSpec::next: strictly after `after', 0 when there is none.  The   *)
(* interval cadence stays anchored to creation.                             *)
MutantUnanchored(spec, after, anchor) ==
  IF spec = "interval" THEN after + Step
  ELSE IF after > Horizon THEN 0 ELSE CalendarNext[after]
NextAt(spec, after, anchor) ==
  LET ordinal == (IF after < anchor THEN 0 ELSE (after - anchor) \div Step) + 1
      at == IF spec = "interval" THEN anchor + ordinal * Step
            ELSE IF after > Horizon THEN 0 ELSE CalendarNext[after]
  IN IF at <= after THEN 0 ELSE at

(* A preview lists PreviewRuns occurrences, so that many must exist.        *)
HasRuns(spec, t) ==
  LET runs[n \in 0..PreviewRuns] == IF n = 0 THEN t
                                    ELSE IF runs[n-1] = 0 /\ n > 1 THEN 0
                                    ELSE NextAt(spec, runs[n-1], t)
  IN \A n \in 1..PreviewRuns : runs[n] # 0

(* The row after its occurrence was consumed at time t.                     *)
Advanced(row, t, mark) ==
  LET next == NextAt(row.spec, t, row.anchor) IN
  [row EXCEPT !.lastAt = row.next, !.last = mark,
              !.next = IF next = 0 THEN @ ELSE next,
              !.status = IF next = 0 THEN "exhausted" ELSE @]

(* open_at: an active row that came due while nothing ran is skipped, even  *)
(* within the grace.                                                        *)
MutantRecoverWithinGrace(row, t) ==
  IF row.status = "active" /\ row.next + Grace < t
  THEN Advanced(row, t, "skipped_downtime") ELSE row
RecoveredRow(row, t) ==
  IF row.status = "active" /\ row.next <= t
  THEN Advanced(row, t, "skipped_downtime") ELSE row

(* What open_at accepts.                                                    *)
Readable(r) ==
  /\ Cardinality(Present(r)) <= MaxSchedules
  /\ \A i \in Present(r) : r[i].next > r[i].anchor

-----------------------------------------------------------------------------
Init ==
  /\ up = FALSE /\ boots = 0 /\ recovered = {} /\ bootNow = 0
  /\ now \in Times /\ authorized = Owners /\ retiring = {}
  /\ rows = [i \in Ids |-> Absent] /\ disk = [i \in Ids |-> Absent]
  /\ previews = [i \in Ids |-> NoPreview] /\ used = {}
  /\ polled = {} /\ pollNow = 0 /\ firing = Idle
  /\ started = {} /\ retired = {}

(* The wall clock moves, forwards or backwards.                             *)
SetClock ==
  /\ now' \in Times \ {now}
  /\ UNCHANGED <<procVars, authVars, rows, disk, previews, used, pollVars, started, retired>>

Open ==
  /\ ~up /\ boots < MaxBoots /\ Readable(disk)
  /\ boots' = boots + 1
  /\ LET fresh == [i \in Ids |-> RecoveredRow(disk[i], now)] IN
       /\ disk' = fresh
       /\ \/ /\ up' = TRUE /\ rows' = fresh
             /\ recovered' = Present(fresh) /\ bootNow' = now
          \/ /\ boots + 1 < MaxBoots
             /\ UNCHANGED <<up, rows, recovered, bootNow>>
  /\ UNCHANGED <<now, authVars, previews, used, pollVars, started, retired>>

Die ==
  /\ up /\ boots < MaxBoots
  /\ up' = FALSE /\ recovered' = {} /\ bootNow' = 0 /\ UNCHANGED boots
  /\ rows' = [i \in Ids |-> Absent]
  /\ previews' = [i \in Ids |-> NoPreview]
  /\ polled' = {} /\ pollNow' = 0 /\ firing' = Idle /\ retiring' = {}

Crash == Die /\ UNCHANGED <<now, authorized, disk, used, started, retired>>

Unlocked == up /\ firing = Idle

-----------------------------------------------------------------------------
(* Requests                                                                 *)

Live(p) == {i \in Ids : p[i] # NoPreview}

(* preview: compute the runs, drop expired previews, refuse at the cap.     *)
PreviewSchedule(i) ==
  /\ up /\ i \notin used
  /\ \E spec \in Specs :
       LET kept == [k \in Ids |-> IF previews[k].expires > now THEN previews[k] ELSE NoPreview]
           first == NextAt(spec, now, now)
           ttl == now + PreviewTtl
       IN /\ HasRuns(spec, now)
          /\ \/ /\ Cardinality(Live(kept)) < MaxPreviews
                /\ used' = used \cup {i}
                /\ previews' = [kept EXCEPT ![i] =
                     [spec |-> spec, anchor |-> now, first |-> first,
                      expires |-> IF ttl < first THEN ttl ELSE first]]
             \/ /\ Cardinality(Live(kept)) >= MaxPreviews
                /\ previews' = kept /\ UNCHANGED used
  /\ UNCHANGED <<procVars, now, authVars, rows, disk, pollVars, started, retired>>

Activatable(p) == p # NoPreview /\ p.expires > now /\ now >= p.anchor /\ p.first > now

(* create_spec: at the cap the rows that are no longer active go first.     *)
Dropped(r) == IF Cardinality(Present(r)) >= MaxSchedules
              THEN Present(r) \ Active(r) ELSE {}

Fits(kept) == Cardinality(Present(kept)) < MaxSchedules

(* activate: a preview is used once, and only if the schedule was saved.    *)
Activate(i) ==
  /\ Unlocked /\ Activatable(previews[i])
  /\ LET p == previews[i]
         kept == [k \in Ids |-> IF k \in Dropped(rows) THEN Absent ELSE rows[k]]
         row == [status |-> "active", spec |-> p.spec, anchor |-> p.anchor,
                 next |-> NextAt(p.spec, now, p.anchor), lastAt |-> 0, last |-> "none"]
     IN \/ /\ Fits(kept) /\ row.next # 0
           /\ rows' = [kept EXCEPT ![i] = row] /\ disk' = rows'
           /\ previews' = [previews EXCEPT ![i] = NoPreview]
        \/ /\ ~Fits(kept)
           /\ rows' = kept
           /\ UNCHANGED <<disk, previews>>
  /\ UNCHANGED <<procVars, now, authVars, used, pollVars, started, retired>>

(* cancel: acknowledged only when the write succeeded, else undone.         *)
MutantCancelSaved(r) == {r, disk}
CancelSaved(r) == {r}

Cancel(i) ==
  /\ Unlocked /\ rows[i].status # "absent"
  /\ rows' = [rows EXCEPT ![i].status = "cancelled"]
  /\ disk' \in CancelSaved(rows')
  /\ retired' = retired \cup {i}
  /\ UNCHANGED <<procVars, now, authVars, previews, used, pollVars, started>>

(* An administrator disables an account: its authority is gone at once, its *)
(* schedules are cancelled in a second step.                                *)
Disable(o) ==
  /\ up /\ o \in authorized
  /\ authorized' = authorized \ {o} /\ retiring' = retiring \cup {o}
  /\ UNCHANGED <<procVars, now, rows, disk, previews, used, pollVars, started, retired>>

(* cancel_owner; a failed write restores every row and reports an error.    *)
CancelOwner(o) ==
  /\ Unlocked /\ o \in retiring
  /\ retiring' = retiring \ {o}
  /\ LET mine == {i \in Active(rows) : OwnerOf[i] = o} IN
       \/ /\ rows' = [i \in Ids |-> IF i \in mine THEN [rows[i] EXCEPT !.status = "cancelled"]
                                    ELSE rows[i]]
          /\ disk' = IF mine = {} THEN disk ELSE rows'
          /\ retired' = retired \cup mine
       \/ mine # {} /\ UNCHANGED <<rows, disk, retired>>
  /\ UNCHANGED <<procVars, now, authorized, previews, used, pollVars, started>>

Enable(o) ==
  /\ up /\ o \notin authorized
  /\ authorized' = authorized \cup {o}
  /\ UNCHANGED <<procVars, now, retiring, rows, disk, previews, used, pollVars, started, retired>>

-----------------------------------------------------------------------------
(* The polling loop                                                         *)

(* tick_schedules asks for the due rows once, with one clock value.         *)
Poll ==
  /\ Unlocked /\ polled = {}
  /\ LET due == {i \in Active(rows) : now >= rows[i].next} IN
       /\ due # {}
       /\ polled' = {[id |-> i, at |-> rows[i].next] : i \in due}
       /\ pollNow' = now
  /\ UNCHANGED <<procVars, now, authVars, rows, disk, previews, used, firing, started, retired>>

StillDue(d) == rows[d.id].status = "active" /\ rows[d.id].next = d.at

(* The row changed since it was polled: nothing happens.                    *)
DispatchStale(d) ==
  /\ Unlocked /\ d \in polled /\ ~StillDue(d)
  /\ polled' = polled \ {d}
  /\ UNCHANGED <<procVars, now, authVars, rows, disk, previews, used, pollNow, firing,
                 started, retired>>

(* The gate finds the owner revoked: cancel the row, or leave it on a       *)
(* failed write.                                                            *)
DispatchRevoked(d) ==
  /\ Unlocked /\ d \in polled /\ StillDue(d) /\ OwnerOf[d.id] \notin authorized
  /\ polled' = polled \ {d}
  /\ \/ /\ rows' = [rows EXCEPT ![d.id].status = "cancelled", ![d.id].lastAt = d.at,
                                ![d.id].last = "skipped_revoked"]
        /\ disk' = rows'
     \/ UNCHANGED <<rows, disk>>
  /\ UNCHANGED <<procVars, now, authVars, previews, used, pollNow, firing, started, retired>>

Timely(d) == pollNow - d.at <= Grace

(* Consume the occurrence: the advanced row is on disk before anything is   *)
(* started; a failed write undoes it.  A refused request or a late poll     *)
(* stops here, otherwise the store stays locked while the start runs.       *)
Reserved(d, refused) ==
  IF ~Timely(d) /\ ~refused THEN "skipped_late" ELSE "skipped_refused"

MutantConsumed(r) == {r, disk}
Consumed(r) == {r}

Consume(d) ==
  /\ Unlocked /\ d \in polled /\ StillDue(d) /\ OwnerOf[d.id] \in authorized
  /\ polled' = polled \ {d}
  /\ \E refused \in BOOLEAN :
       \/ /\ rows' = [rows EXCEPT ![d.id] = Advanced(@, pollNow, Reserved(d, refused))]
          /\ disk' \in Consumed(rows')
          /\ firing' = IF refused \/ ~Timely(d) THEN Idle ELSE {d}
       \/ UNCHANGED <<rows, disk, firing>>
  /\ UNCHANGED <<procVars, now, authVars, previews, used, pollNow, started, retired>>

(* The second authority check and start_job, then the outcome is recorded;  *)
(* the outcome of that last write is ignored.                               *)
Marked(i, mark) ==
  IF rows[i].status = "absent" THEN rows
  ELSE [rows EXCEPT ![i].last = mark,
                    ![i].status = IF mark = "skipped_revoked" THEN "cancelled" ELSE @]

StartMarks(i) == IF OwnerOf[i] \in authorized
                 THEN {"attempted", "skipped_refused"} ELSE {"skipped_revoked"}

Start(d) ==
  /\ up /\ firing = {d}
  /\ firing' = Idle
  /\ \E mark \in StartMarks(d.id) :
       /\ rows' = Marked(d.id, mark)
       /\ disk' \in {rows', disk}
       /\ started' = IF mark = "attempted" THEN started \cup {d} ELSE started
  /\ UNCHANGED <<procVars, now, authVars, previews, used, polled, pollNow, retired>>

(* The process dies after start_job accepted and before that last write.    *)
StartThenDie(d) ==
  /\ firing = {d} /\ OwnerOf[d.id] \in authorized
  /\ started' = started \cup {d}
  /\ Die
  /\ UNCHANGED <<now, authorized, disk, used, retired>>

-----------------------------------------------------------------------------
Next ==
  \/ SetClock \/ Open \/ Crash \/ Poll
  \/ \E i \in Ids : PreviewSchedule(i) \/ Activate(i) \/ Cancel(i)
  \/ \E o \in Owners : Disable(o) \/ CancelOwner(o) \/ Enable(o)
  \/ \E d \in polled : DispatchStale(d) \/ DispatchRevoked(d) \/ Consume(d)
  \/ \E d \in firing : Start(d) \/ StartThenDie(d)

Spec == Init /\ [][Next]_vars

-----------------------------------------------------------------------------
(* Properties                                                               *)

(* Type correctness of every variable.                                      *)
TypeOK ==
  /\ up \in BOOLEAN /\ boots \in Nat /\ now \in Nat /\ authorized \subseteq Owners
  /\ retiring \subseteq Owners
  /\ rows \in [Ids -> Row] /\ disk \in [Ids -> Row]
  /\ previews \in [Ids -> Preview] /\ used \subseteq Ids
  /\ polled \subseteq Occurrence /\ pollNow \in Nat
  /\ firing \subseteq Occurrence
  /\ started \subseteq Occurrence /\ retired \subseteq Ids
  /\ recovered \subseteq Ids /\ bootNow \in Nat

(* No occurrence is started twice.                                          *)
AtMostOnce == firing \cap started = {}

(* A schedule whose cancellation was acknowledged (by its owner, or by the  *)
(* retirement of the account) never fires again, not after a restart and    *)
(* not after the account is enabled again.                                  *)
CancelledNeverFires == \A d \in firing : d.id \notin retired

(* Recovery never dispatches elapsed work: what a recovered row fires came  *)
(* due after this start.                                                    *)
NoElapsedWork == \A d \in firing : d.id \in recovered => d.at > bootNow

(* `attempted' is reported, in memory or on disk, only for an occurrence    *)
(* whose job was accepted.                                                  *)
AttemptedIsTrue ==
  \A i \in Ids : \A r \in {rows[i], disk[i]} :
    r.last = "attempted" => [id |-> i, at |-> r.lastAt] \in started

(* The file can always be opened again: the inventory stays within its      *)
(* bound and every row's next run lies after its creation, even when the    *)
(* clock is set back.                                                       *)
AlwaysReadable == Readable(disk)

(* What was previewed is what is scheduled: the first run of an activated   *)
(* schedule is the first run the owner confirmed.                           *)
PreviewHonoured ==
  [][\A i \in Ids : rows[i].status = "absent" /\ previews[i] # NoPreview /\
                    rows'[i].status = "active" => rows'[i].next = previews[i].first]_vars

(* The schedule file tells the truth over restarts: no run elapsed while    *)
(* the server was down is started late, an attempt is recorded as one only  *)
(* when it was made, and the file a crash leaves behind can be read         *)
(* (agent_schedules.rs open_at, consume_and_dispatch).                      *)
ScheduleRecordsHold == TypeOK /\ NoElapsedWork /\ AttemptedIsTrue /\ AlwaysReadable
=============================================================================
