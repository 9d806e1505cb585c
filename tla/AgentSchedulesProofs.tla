------------------------ MODULE AgentSchedulesProofs ------------------------
(***************************************************************************)
(* Proofs about AgentSchedules: an occurrence is started at most once and a *)
(* cancelled schedule never fires, for any number of schedules, restarts    *)
(* and clock steps.                                                         *)
(***************************************************************************)
EXTENDS AgentSchedules, FiniteSetTheorems, TLAPS

(* Whatever the schedule says, its next occurrence lies strictly after the  *)
(* instant asked about, or there is none.                                   *)
LEMMA NextIsLater ==
  ASSUME NEW spec \in Specs, NEW after \in Nat, NEW anchor \in Nat
  PROVE  /\ NextAt(spec, after, anchor) \in Nat
         /\ NextAt(spec, after, anchor) = 0 \/ NextAt(spec, after, anchor) > after
<1> DEFINE ordinal == (IF after < anchor THEN 0 ELSE (after - anchor) \div Step) + 1
           at == IF spec = "interval" THEN anchor + ordinal * Step
                 ELSE IF after > Horizon THEN 0 ELSE CalendarNext[after]
<1>1. Step \in Nat /\ Step > 0
  BY SettingsAssumption
<1>2. ordinal \in Nat
  BY <1>1
<1> HIDE DEF ordinal
<1>3. anchor + ordinal * Step \in Nat
  BY <1>1, <1>2
<1>4. at \in Nat
  BY <1>3, CalendarAssumption
<1>5. NextAt(spec, after, anchor) = IF at <= after THEN 0 ELSE at
  BY DEF NextAt, ordinal
<1> HIDE DEF at
<1> QED BY <1>4, <1>5

(* A consumed row keeps its type; if it is still active, its next run lies  *)
(* after the instant it was consumed at.                                    *)
LEMMA AdvancedRow ==
  ASSUME NEW row \in Row, NEW t \in Nat, NEW mark \in Dispatches
  PROVE  /\ Advanced(row, t, mark) \in Row
         /\ Advanced(row, t, mark).status \in {row.status, "exhausted"}
         /\ Advanced(row, t, mark).status = "active" => Advanced(row, t, mark).next > t
<1>1. row.spec \in Specs /\ row.anchor \in Nat /\ row.next \in Nat
  BY DEF Row
<1> DEFINE next == NextAt(row.spec, t, row.anchor)
<1>2. next \in Nat /\ (next = 0 \/ next > t)
  BY <1>1, NextIsLater
<1>3. Advanced(row, t, mark) =
        [row EXCEPT !.lastAt = row.next, !.last = mark,
                    !.next = IF next = 0 THEN @ ELSE next,
                    !.status = IF next = 0 THEN "exhausted" ELSE @]
  BY DEF Advanced
<1> HIDE DEF next
<1> QED BY <1>1, <1>2, <1>3 DEF Row

(* Recovery keeps the type, never makes a row active, and never moves an    *)
(* active row's next run back.                                              *)
LEMMA RecoveredRowFacts ==
  ASSUME NEW row \in Row, NEW t \in Nat
  PROVE  /\ RecoveredRow(row, t) \in Row
         /\ RecoveredRow(row, t).status = "active" =>
              row.status = "active" /\ RecoveredRow(row, t).next >= row.next
         /\ row.status = "absent" => RecoveredRow(row, t).status = "absent"
<1>1. CASE row.status = "active" /\ row.next <= t
  <2>1. RecoveredRow(row, t) = Advanced(row, t, "skipped_downtime")
    BY <1>1 DEF RecoveredRow
  <2>2. "skipped_downtime" \in Dispatches
    BY DEF Dispatches
  <2> QED BY <1>1, <2>1, <2>2, AdvancedRow DEF Row
<1>2. CASE ~(row.status = "active" /\ row.next <= t)
  BY <1>2 DEF RecoveredRow, Row
<1> QED BY <1>1, <1>2

(* What every request and every dispatch writes is a row again.             *)
LEMMA RowFacts ==
  /\ Absent \in Row /\ NoPreview \in Preview
  /\ \A row \in Row : [row EXCEPT !.status = "cancelled"] \in Row
  /\ \A row \in Row, t \in Nat :
       [row EXCEPT !.status = "cancelled", !.lastAt = t, !.last = "skipped_revoked"] \in Row
BY DEF Absent, NoPreview, Row, Preview, Specs, Dispatches

(* Death of the process keeps the types.                                    *)
LEMMA DieTypes ==
  ASSUME TypeOK, Die
  PROVE  /\ up' \in BOOLEAN /\ boots' \in Nat /\ rows' \in [Ids -> Row]
         /\ previews' \in [Ids -> Preview] /\ polled' \subseteq Occurrence
         /\ pollNow' \in Nat /\ firing' \subseteq Occurrence /\ retiring' \subseteq Owners
         /\ recovered' \subseteq Ids /\ bootNow' \in Nat
BY RowFacts DEF TypeOK, Die, Idle

(* TypeOK is inductive: one step per action.                                *)
LEMMA TypeStep == TypeOK /\ [Next]_vars => TypeOK'
<1> SUFFICES ASSUME TypeOK, [Next]_vars PROVE TypeOK'
  OBVIOUS
<1> USE DEF TypeOK
<1>1. CASE SetClock
  BY <1>1, SettingsAssumption DEF SetClock, Times, procVars, authVars, pollVars
<1>2. CASE Open
  <2> DEFINE fresh == [i \in Ids |-> RecoveredRow(disk[i], now)]
  <2>1. \A i \in Ids : RecoveredRow(disk[i], now) \in Row
    BY RecoveredRowFacts
  <2>2. fresh \in [Ids -> Row]
    BY <2>1
  <2>3. /\ boots' = boots + 1 /\ disk' = fresh
        /\ \/ up' = TRUE /\ rows' = fresh /\ recovered' = Present(fresh) /\ bootNow' = now
           \/ UNCHANGED <<up, rows, recovered, bootNow>>
        /\ UNCHANGED <<now, authVars, previews, used, pollVars, started, retired>>
    BY <1>2 DEF Open
  <2>4. Present(fresh) \subseteq Ids
    BY DEF Present
  <2> HIDE DEF fresh
  <2>5. rows' \in [Ids -> Row] /\ disk' \in [Ids -> Row]
    <3>1. rows' = fresh \/ rows' = rows
      BY <2>3
    <3> QED BY <2>2, <2>3, <3>1
  <2>8. boots' \in Nat
    BY <2>3
  <2>9. up' \in BOOLEAN
    BY <2>3, Zenon
  <2>6. recovered' \subseteq Ids /\ bootNow' \in Nat
    BY <2>3, <2>4
  <2>7. UNCHANGED <<now, authorized, retiring, previews, used, polled, pollNow, firing, started, retired>>
    BY <2>3 DEF authVars, pollVars
  <2> QED BY <2>5, <2>6, <2>7, <2>8, <2>9
<1>3. CASE Crash
  BY <1>3, DieTypes DEF Crash
<1>4. CASE Poll
  <2>1. \A i \in Ids : rows[i].next \in Nat
    BY DEF Row
  <2>2. /\ polled' = {[id |-> i, at |-> rows[i].next] : i \in {k \in Active(rows) : now >= rows[k].next}}
        /\ pollNow' = now
        /\ UNCHANGED <<procVars, now, authVars, rows, disk, previews, used, firing, started, retired>>
    BY <1>4 DEF Poll
  <2>3. polled' \subseteq Occurrence
    BY <2>1, <2>2 DEF Active, Occurrence
  <2> QED BY <2>2, <2>3 DEF procVars, authVars
<1>5. ASSUME NEW i \in Ids, PreviewSchedule(i) PROVE TypeOK'
  <2> DEFINE kept == [k \in Ids |-> IF previews[k].expires > now THEN previews[k] ELSE NoPreview]
  <2>1. kept \in [Ids -> Preview]
    BY RowFacts
  <2> DEFINE made(spec) ==
               LET first == NextAt(spec, now, now) ttl == now + PreviewTtl IN
               [spec |-> spec, anchor |-> now, first |-> first,
                expires |-> IF ttl < first THEN ttl ELSE first]
  <2>2. PICK spec \in Specs :
          \/ used' = used \cup {i} /\ previews' = [kept EXCEPT ![i] = made(spec)]
          \/ previews' = kept /\ UNCHANGED used
    BY <1>5, Zenon DEF PreviewSchedule
  <2>3. NextAt(spec, now, now) \in Nat /\ now + PreviewTtl \in Nat
    BY NextIsLater, SettingsAssumption
  <2>a. made(spec) \in Preview
    BY <2>3 DEF Preview
  <2> HIDE DEF kept, made
  <2>4. previews' \in [Ids -> Preview] /\ used' \subseteq Ids
    BY <2>1, <2>2, <2>a
  <2> QED BY <1>5, <2>4 DEF PreviewSchedule, procVars, authVars, pollVars
<1>6. ASSUME NEW i \in Ids, Activate(i) PROVE TypeOK'
  <2> DEFINE kept == [k \in Ids |-> IF k \in Dropped(rows) THEN Absent ELSE rows[k]]
             p == previews[i]
             row == [status |-> "active", spec |-> p.spec, anchor |-> p.anchor,
                     next |-> NextAt(p.spec, now, p.anchor), lastAt |-> 0, last |-> "none"]
  <2>1. kept \in [Ids -> Row]
    BY RowFacts
  <2>2. p.spec \in Specs /\ p.anchor \in Nat
    BY DEF Preview
  <2>3. row \in Row
    BY <2>2, NextIsLater DEF Row, Dispatches
  <2>4. \/ rows' = [kept EXCEPT ![i] = row] /\ disk' = rows'
           /\ previews' = [previews EXCEPT ![i] = NoPreview]
        \/ rows' = kept /\ UNCHANGED <<disk, previews>>
    BY <1>6 DEF Activate
  <2> HIDE DEF kept, row, p
  <2>a. NoPreview \in Preview
    BY RowFacts
  <2>5. rows' \in [Ids -> Row] /\ disk' \in [Ids -> Row] /\ previews' \in [Ids -> Preview]
    BY <2>1, <2>3, <2>4, <2>a
  <2> QED BY <1>6, <2>5 DEF Activate, procVars, authVars, pollVars
<1>7. ASSUME NEW i \in Ids, Cancel(i) PROVE TypeOK'
  <2>1. rows' \in [Ids -> Row] /\ disk' = rows'
    BY <1>7, RowFacts DEF Cancel, CancelSaved
  <2> QED BY <1>7, <2>1 DEF Cancel, procVars, authVars, pollVars
<1>8. ASSUME NEW o \in Owners, Disable(o) PROVE TypeOK'
  BY <1>8 DEF Disable, procVars, pollVars
<1>9. ASSUME NEW o \in Owners, CancelOwner(o) PROVE TypeOK'
  <2> DEFINE mine == {i \in Active(rows) : OwnerOf[i] = o}
             after == [i \in Ids |-> IF i \in mine THEN [rows[i] EXCEPT !.status = "cancelled"]
                                     ELSE rows[i]]
  <2>a. after \in [Ids -> Row] /\ mine \subseteq Ids
    BY DEF Row, Active
  <2>b. \/ rows' = after /\ disk' \in {rows', disk} /\ retired' = retired \cup mine
        \/ UNCHANGED <<rows, disk, retired>>
    BY <1>9 DEF CancelOwner
  <2> HIDE DEF after, mine
  <2>1. rows' \in [Ids -> Row] /\ disk' \in {rows', disk} /\ retired' \subseteq Ids
    BY <2>a, <2>b
  <2> QED BY <1>9, <2>1 DEF CancelOwner, procVars, pollVars
<1>10. ASSUME NEW o \in Owners, Enable(o) PROVE TypeOK'
  BY <1>10 DEF Enable, procVars, pollVars
<1>11. ASSUME NEW d \in polled, DispatchStale(d) PROVE TypeOK'
  BY <1>11 DEF DispatchStale, procVars, authVars
<1>12. ASSUME NEW d \in polled, DispatchRevoked(d) PROVE TypeOK'
  <2>1. d.id \in Ids /\ d.at \in Nat
    BY DEF Occurrence
  <2>2. \/ rows' = [rows EXCEPT ![d.id].status = "cancelled", ![d.id].lastAt = d.at,
                                ![d.id].last = "skipped_revoked"] /\ disk' = rows'
        \/ UNCHANGED <<rows, disk>>
    BY <1>12 DEF DispatchRevoked
  <2>3. rows' \in [Ids -> Row] /\ disk' \in [Ids -> Row]
    BY <2>1, <2>2 DEF Row, Dispatches
  <2> QED BY <1>12, <2>3 DEF DispatchRevoked, procVars, authVars
<1>13. ASSUME NEW d \in polled, Consume(d) PROVE TypeOK'
  <2>1. d.id \in Ids /\ d.at \in Nat /\ d \in Occurrence
    BY DEF Occurrence
  <2>2. PICK refused \in BOOLEAN :
          \/ /\ rows' = [rows EXCEPT ![d.id] = Advanced(rows[d.id], pollNow, Reserved(d, refused))]
             /\ disk' = rows'
             /\ firing' = IF refused \/ ~Timely(d) THEN Idle ELSE {d}
          \/ UNCHANGED <<rows, disk, firing>>
    BY <1>13, <2>1 DEF Consume, Consumed
  <2>3. Reserved(d, refused) \in Dispatches
    BY DEF Reserved, Dispatches
  <2>4. Advanced(rows[d.id], pollNow, Reserved(d, refused)) \in Row
    BY <2>1, <2>3, AdvancedRow
  <2>5. rows' \in [Ids -> Row] /\ disk' \in [Ids -> Row] /\ firing' \subseteq Occurrence
    BY <2>1, <2>2, <2>4 DEF Idle
  <2> QED BY <1>13, <2>5 DEF Consume, procVars, authVars
<1>14. ASSUME NEW d \in firing, Start(d) PROVE TypeOK'
  <2>1. d.id \in Ids /\ d \in Occurrence
    BY DEF Occurrence
  <2>2. PICK mark \in {"attempted", "skipped_refused", "skipped_revoked"} :
          rows' = Marked(d.id, mark) /\ disk' \in {rows', disk}
    BY <1>14 DEF Start, StartMarks
  <2>3. rows' \in [Ids -> Row]
    BY <2>1, <2>2 DEF Marked, Row, Dispatches
  <2>4. started' \subseteq Occurrence /\ firing' = {}
    BY <1>14, <2>1 DEF Start, Idle
  <2> QED BY <1>14, <2>2, <2>3, <2>4 DEF Start, procVars, authVars
<1>15. ASSUME NEW d \in firing, StartThenDie(d) PROVE TypeOK'
  BY <1>15, DieTypes DEF StartThenDie
<1>16. CASE UNCHANGED vars
  BY <1>16 DEF vars, procVars, authVars, pollVars
<1> QED BY <1>1, <1>2, <1>3, <1>4, <1>5, <1>6, <1>7, <1>8, <1>9, <1>10, <1>11, <1>12,
           <1>13, <1>14, <1>15, <1>16 DEF Next

(* The initial state is well-typed.                                         *)
LEMMA InitType == Init => TypeOK
<1> SUFFICES ASSUME Init PROVE TypeOK
  OBVIOUS
<1>1. Absent \in Row /\ NoPreview \in Preview
  BY RowFacts
<1>2. rows \in [Ids -> Row] /\ disk \in [Ids -> Row] /\ previews \in [Ids -> Preview]
  BY <1>1 DEF Init
<1>3. now \in Nat
  BY SettingsAssumption DEF Init, Times
<1> QED BY <1>2, <1>3 DEF Init, TypeOK, Idle

(* Every variable keeps its type, for every inventory, clock and calendar.  *)
THEOREM TypeCorrect == Spec => []TypeOK
BY InitType, TypeStep, PTL DEF Spec

-----------------------------------------------------------------------------
(* The inductive invariant.                                                 *)

(* An occurrence is consumed before its job starts: once started, neither   *)
(* the file nor the store offers it, or an earlier one, again, whatever     *)
(* crash, failed write, restart or clock step follows.                      *)
StartedIsConsumed ==
  \A o \in started :
    /\ disk[o.id].status = "active" => disk[o.id].next > o.at
    /\ rows[o.id].status = "active" => rows[o.id].next > o.at

(* Neither the store nor the file offers occurrence o again.                *)
Gone(o) ==
  /\ disk[o.id].status = "active" => disk[o.id].next > o.at
  /\ rows[o.id].status = "active" => rows[o.id].next > o.at

Dead(i) == rows[i].status # "active" /\ disk[i].status # "active"
Blank(i) == rows[i].status = "absent" /\ disk[i].status = "absent"
Unseen(i) == i \notin retired /\ \A o \in started \cup polled \cup firing : o.id # i

(* A polled occurrence was due when it was polled.                          *)
PollInv == \A d \in polled : pollNow >= d.at
(* The occurrence being started is consumed, new, and not of a cancelled    *)
(* schedule.                                                                *)
FireInv == \A d \in firing : Gone(d) /\ d \notin started /\ d.id \notin retired
(* An acknowledged cancellation is in the store and in the file.            *)
RetiredInv == \A i \in retired : Dead(i)
(* An identifier has no row and no history before its preview is activated. *)
NewInv == \A i \in Ids : /\ i \notin used => previews[i] = NoPreview
                         /\ i \notin used \/ previews[i] # NoPreview => Blank(i) /\ Unseen(i)

Inv == TypeOK /\ PollInv /\ StartedIsConsumed /\ FireInv /\ RetiredInv /\ NewInv

(* A row r that is at most as alive as q: it is no earlier, and it is not   *)
(* active or present unless q is.                                           *)
Tamer(r, q) == /\ r.status = "active" => q.status = "active" /\ r.next >= q.next
               /\ q.status = "absent" => r.status = "absent"
Tame(k) == /\ \E q \in {rows[k], disk[k], Absent} : Tamer(rows'[k], q)
           /\ \E q \in {rows[k], disk[k], Absent} : Tamer(disk'[k], q)

(* A tame change of row k offers nothing again that was gone and revives    *)
(* nothing.                                                                 *)
LEMMA TameKeeps ==
  ASSUME TypeOK, TypeOK', NEW k \in Ids, Tame(k)
  PROVE  /\ \A o \in Occurrence : o.id = k /\ Gone(o) => Gone(o)'
         /\ Dead(k) => Dead(k)'
         /\ Blank(k) => Blank(k)'
<1>1. /\ rows[k].next \in Nat /\ disk[k].next \in Nat
      /\ rows'[k].next \in Nat /\ disk'[k].next \in Nat
  BY DEF TypeOK, Row
<1>2. \A o \in Occurrence : o.at \in Nat
  BY DEF Occurrence
<1>3. Absent.status = "absent"
  BY DEF Absent
<1>4. PICK q \in {rows[k], disk[k], Absent} : Tamer(rows'[k], q)
  BY DEF Tame
<1>5. PICK u \in {rows[k], disk[k], Absent} : Tamer(disk'[k], u)
  BY DEF Tame
<1>6. Dead(k) => Dead(k)'
  BY <1>3, <1>4, <1>5 DEF Dead, Tamer
<1>7. Blank(k) => Blank(k)'
  BY <1>3, <1>4, <1>5 DEF Blank, Tamer
<1>8. ASSUME NEW o \in Occurrence, o.id = k, Gone(o) PROVE Gone(o)'
  <2>1. rows'[k].status = "active" => rows'[k].next > o.at
    BY <1>1, <1>2, <1>3, <1>4, <1>8 DEF Tamer, Gone
  <2>2. disk'[k].status = "active" => disk'[k].next > o.at
    BY <1>1, <1>2, <1>3, <1>5, <1>8 DEF Tamer, Gone
  <2> QED BY <1>8, <2>1, <2>2 DEF Gone
<1> QED BY <1>6, <1>7, <1>8

(* The actions that neither add an identifier nor poll: every row changes   *)
(* tamely, what starts was being started, what is being started was polled  *)
(* and is consumed, and what is retired is dead.                            *)
LEMMA QuietStep ==
  ASSUME Inv, TypeOK',
         \A k \in Ids : Tame(k),
         used' = used,
         \A i \in Ids : previews'[i] \in {previews[i], NoPreview},
         started \subseteq started' /\ started' \subseteq started \cup firing,
         started' = started \/ firing' = {},
         \A d \in firing' : \/ d \in firing
                            \/ d \in polled /\ Gone(d)' /\ d \notin started /\ d.id \notin retired,
         polled' \subseteq polled, polled' = {} \/ pollNow' = pollNow,
         retired \subseteq retired',
         retired' = retired \/ firing' = {},
         \A i \in retired' \ retired : Dead(i)' /\ ~Blank(i)
  PROVE  Inv'
<1>0. /\ started \subseteq Occurrence /\ firing \subseteq Occurrence /\ polled \subseteq Occurrence
      /\ retired \subseteq Ids /\ retired' \subseteq Ids
      /\ \A o \in Occurrence : o.id \in Ids
  BY DEF Inv, TypeOK, Occurrence
<1>1. \A o \in Occurrence : Gone(o) => Gone(o)'
  BY <1>0, TameKeeps DEF Inv
<1>2. \A k \in Ids : (Dead(k) => Dead(k)') /\ (Blank(k) => Blank(k)')
  BY TameKeeps DEF Inv
<1>3. PollInv'
  BY DEF Inv, PollInv
<1>4. StartedIsConsumed'
  <2>1. \A o \in started' : Gone(o)
    BY DEF Inv, StartedIsConsumed, FireInv, Gone
  <2>2. \A o \in started' : Gone(o)'
    BY <1>0, <1>1, <2>1
  <2> QED BY <2>2 DEF StartedIsConsumed, Gone
<1>5. FireInv'
  <2> SUFFICES ASSUME NEW d \in firing' PROVE Gone(d)' /\ d \notin started' /\ d.id \notin retired'
    BY DEF FireInv
  <2>1. started' = started /\ retired' = retired
    OBVIOUS
  <2>2. CASE d \in firing
    BY <1>0, <1>1, <2>1, <2>2 DEF Inv, FireInv
  <2>3. CASE d \in polled /\ Gone(d)' /\ d \notin started /\ d.id \notin retired
    BY <2>1, <2>3
  <2> QED BY <2>2, <2>3
<1>6. RetiredInv'
  BY <1>0, <1>2 DEF Inv, RetiredInv
<1>7. NewInv'
  <2> SUFFICES ASSUME NEW i \in Ids
               PROVE  /\ i \notin used' => previews'[i] = NoPreview
                      /\ i \notin used' \/ previews'[i] # NoPreview => Blank(i)' /\ Unseen(i)'
    BY DEF NewInv
  <2>1. i \notin used' => previews'[i] = NoPreview
    BY DEF Inv, NewInv
  <2>2. ASSUME i \notin used' \/ previews'[i] # NoPreview PROVE Blank(i)' /\ Unseen(i)'
    <3>1. Blank(i) /\ Unseen(i)
      BY <2>2 DEF Inv, NewInv
    <3>2. i \notin retired'
      BY <3>1 DEF Unseen
    <3>3. \A o \in started' \cup polled' \cup firing' : o \in started \cup polled \cup firing
      OBVIOUS
    <3> QED BY <1>2, <3>1, <3>2, <3>3 DEF Unseen
  <2> QED BY <2>1, <2>2
<1> QED BY <1>3, <1>4, <1>5, <1>6, <1>7 DEF Inv

(* A row that stays as it is, or goes, is tame; so is one that is cancelled *)
(* or consumed.                                                             *)
LEMMA TamerRows ==
  /\ \A r \in Row : Tamer(r, r) /\ Tamer(Absent, r)
  /\ \A r \in Row, q \in Row :
       r.status \notin {"absent", "active"} /\ q.status # "absent" => Tamer(r, q)
  /\ \A q \in Row, t \in Nat, mark \in Dispatches :
       q.status = "active" /\ q.next <= t => Tamer(Advanced(q, t, mark), q)
<1>1. \A r \in Row : r.next \in Nat
  BY DEF Row
<1>2. \A r \in Row : Tamer(r, r) /\ Tamer(Absent, r)
  BY <1>1 DEF Tamer, Absent
<1>3. ASSUME NEW q \in Row, NEW t \in Nat, NEW mark \in Dispatches, q.status = "active", q.next <= t
      PROVE  Tamer(Advanced(q, t, mark), q)
  <2>1. Advanced(q, t, mark) \in Row
    BY AdvancedRow
  <2>2. Advanced(q, t, mark).status = "active" => Advanced(q, t, mark).next > t
    BY AdvancedRow
  <2> QED BY <1>1, <1>3, <2>1, <2>2 DEF Tamer
<1> QED BY <1>2, <1>3 DEF Tamer

(* Death empties the store and leaves the file: every row changes tamely.   *)
LEMMA DieTame ==
  ASSUME TypeOK, Die, disk' = disk
  PROVE  /\ \A k \in Ids : Tame(k)
         /\ \A i \in Ids : previews'[i] = NoPreview
         /\ firing' = {} /\ polled' = {}
<1>1. \A k \in Ids : rows'[k] = Absent /\ rows[k] \in Row /\ disk'[k] = disk[k] /\ disk[k] \in Row
  BY DEF TypeOK, Die
<1>2. \A k \in Ids : Tame(k)
  BY <1>1, TamerRows DEF Tame
<1> QED BY <1>2 DEF Die, Idle

(* Inv is inductive: one step per action.                                   *)
LEMMA InvStep == Inv /\ [Next]_vars => Inv'
<1> SUFFICES ASSUME Inv, [Next]_vars PROVE Inv'
  OBVIOUS
<1>t. TypeOK /\ TypeOK'
  BY TypeStep DEF Inv
<1>r. \A k \in Ids : rows[k] \in Row /\ disk[k] \in Row
  BY <1>t DEF TypeOK
<1>s. (UNCHANGED <<rows, disk>>) => \A k \in Ids : Tame(k)
  BY <1>r, TamerRows DEF Tame
<1>o. /\ polled \subseteq Occurrence /\ firing \subseteq Occurrence
      /\ \A o \in Occurrence : o.id \in Ids /\ o.at \in Nat
  BY <1>t DEF TypeOK, Occurrence
<1>1. CASE SetClock
  BY <1>1, <1>s, <1>t, QuietStep DEF SetClock, pollVars
<1>2. CASE Open
  <2>1. \A k \in Ids : RecoveredRow(disk[k], now) \in Row /\ Tamer(RecoveredRow(disk[k], now), disk[k])
    <3>1. now \in Nat
      BY <1>t DEF TypeOK
    <3> QED BY <1>r, <3>1, RecoveredRowFacts DEF Tamer
  <2>2. \A k \in Ids : disk'[k] = RecoveredRow(disk[k], now) /\ rows'[k] \in {disk'[k], rows[k]}
    BY <1>2 DEF Open
  <2>3. \A k \in Ids : Tame(k)
    BY <1>r, <2>1, <2>2, TamerRows DEF Tame
  <2>4. UNCHANGED <<previews, used, polled, pollNow, firing, started, retired>>
    BY <1>2 DEF Open, pollVars
  <2> QED BY <1>t, <2>3, <2>4, QuietStep
<1>3. CASE Crash
  <2>1. Die /\ disk' = disk /\ UNCHANGED <<used, started, retired>>
    BY <1>3 DEF Crash
  <2> QED BY <1>t, <2>1, DieTame, QuietStep
<1>4. CASE Poll
  <2>1. /\ \A d \in polled' : d.id \in Ids /\ rows[d.id].status = "active" /\ now >= d.at
        /\ pollNow' = now
        /\ UNCHANGED <<rows, disk, previews, used, firing, started, retired>>
    BY <1>4 DEF Poll, Active
  <2>2. PollInv'
    BY <2>1 DEF PollInv
  <2>3. StartedIsConsumed' /\ FireInv' /\ RetiredInv'
    BY <2>1 DEF Inv, StartedIsConsumed, FireInv, RetiredInv, Gone, Dead
  <2>4. NewInv'
    BY <2>1 DEF Inv, NewInv, Blank, Unseen
  <2> QED BY <1>t, <2>2, <2>3, <2>4 DEF Inv
<1>5. ASSUME NEW i \in Ids, PreviewSchedule(i) PROVE Inv'
  <2>1. /\ used' = used \/ (i \notin used /\ used' = used \cup {i})
        /\ \A k \in Ids : previews'[k] \in {previews[k], NoPreview} \/ (k = i /\ used' = used \cup {i})
        /\ UNCHANGED <<rows, disk, polled, pollNow, firing, started, retired>>
    BY <1>5 DEF PreviewSchedule, pollVars
  <2>2. PollInv' /\ StartedIsConsumed' /\ FireInv' /\ RetiredInv'
    BY <2>1 DEF Inv, PollInv, StartedIsConsumed, FireInv, RetiredInv, Gone, Dead
  <2>3. i \notin used
    BY <1>5 DEF PreviewSchedule
  <2>4. NewInv'
    BY <2>1, <2>3 DEF Inv, NewInv, Blank, Unseen
  <2> QED BY <1>t, <2>2, <2>4 DEF Inv
<1>6. ASSUME NEW i \in Ids, Activate(i) PROVE Inv'
  <2>1. previews[i] # NoPreview
    BY <1>6 DEF Activate, Activatable
  <2>2. i \in used /\ Blank(i) /\ Unseen(i)
    BY <2>1 DEF Inv, NewInv
  <2>3. UNCHANGED <<used, polled, pollNow, firing, started, retired>>
    BY <1>6 DEF Activate, pollVars
  <2>4. \A k \in Ids \ {i} : /\ rows'[k] \in {rows[k], Absent} /\ disk'[k] \in {rows'[k], disk[k]}
                            /\ previews'[k] = previews[k]
    BY <1>6, <1>t DEF Activate, TypeOK
  <2>5. \/ previews'[i] = NoPreview
        \/ UNCHANGED previews /\ disk' = disk /\ rows'[i] \in {rows[i], Absent}
    BY <1>6, <1>t DEF Activate, TypeOK
  <2>6. \A k \in Ids \ {i} : Tame(k)
    BY <1>r, <2>4, TamerRows DEF Tame
  <2>7. \A o \in Occurrence : o.id # i /\ Gone(o) => Gone(o)'
    BY <1>o, <1>t, <2>6, TameKeeps
  <2>8. \A k \in Ids \ {i} : (Dead(k) => Dead(k)') /\ (Blank(k) => Blank(k)')
    BY <1>t, <2>6, TameKeeps
  <2>9. PollInv'
    BY <2>3 DEF Inv, PollInv
  <2>10. StartedIsConsumed'
    <3>1. \A o \in started : o \in Occurrence /\ o.id # i /\ Gone(o)
      BY <1>t, <2>2 DEF Inv, TypeOK, Unseen, StartedIsConsumed, Gone
    <3>2. \A o \in started' : Gone(o)'
      BY <2>3, <2>7, <3>1
    <3> QED BY <3>2 DEF StartedIsConsumed, Gone
  <2>11. FireInv'
    <3>1. \A d \in firing : d \in Occurrence /\ d.id # i /\ Gone(d) /\ d \notin started /\ d.id \notin retired
      BY <1>o, <2>2 DEF Inv, Unseen, FireInv
    <3> QED BY <2>3, <2>7, <3>1 DEF FireInv
  <2>12. RetiredInv'
    <3>1. \A k \in retired : k \in Ids \ {i} /\ Dead(k)
      BY <1>t, <2>2 DEF Inv, TypeOK, Unseen, RetiredInv
    <3> QED BY <2>3, <2>8, <3>1 DEF RetiredInv
  <2>13. NewInv'
    <3> SUFFICES ASSUME NEW k \in Ids
                 PROVE  /\ k \notin used' => previews'[k] = NoPreview
                        /\ k \notin used' \/ previews'[k] # NoPreview => Blank(k)' /\ Unseen(k)'
      BY DEF NewInv
    <3>1. CASE k # i
      BY <2>3, <2>4, <2>8, <3>1 DEF Inv, NewInv, Unseen
    <3>2. CASE k = i
      <4>1. CASE previews'[i] = NoPreview
        BY <2>2, <2>3, <3>2, <4>1
      <4>2. CASE UNCHANGED previews /\ disk' = disk /\ rows'[i] \in {rows[i], Absent}
        BY <2>2, <2>3, <3>2, <4>2 DEF Blank, Unseen, Absent
      <4> QED BY <2>5, <4>1, <4>2
    <3> QED BY <3>1, <3>2
  <2> QED BY <1>t, <2>9, <2>10, <2>11, <2>12, <2>13 DEF Inv
<1>7. ASSUME NEW i \in Ids, Cancel(i) PROVE Inv'
  <2>1. /\ rows' = [rows EXCEPT ![i].status = "cancelled"] /\ disk' = rows'
        /\ rows[i].status # "absent" /\ firing = {} /\ retired' = retired \cup {i}
        /\ UNCHANGED <<previews, used, polled, pollNow, firing, started>>
    BY <1>7 DEF Cancel, CancelSaved, Unlocked, Idle, pollVars
  <2>2. rows'[i].status = "cancelled" /\ \A k \in Ids \ {i} : rows'[k] = rows[k]
    BY <1>r, <1>t, <2>1 DEF TypeOK, Row
  <2>3. \A k \in Ids : rows'[k] \in Row
    BY <1>t DEF TypeOK
  <2>4. \A k \in Ids : Tamer(rows'[k], rows[k])
    BY <1>r, <2>1, <2>2, <2>3, TamerRows
  <2>5. \A k \in Ids : Tame(k)
    BY <2>1, <2>4 DEF Tame
  <2>6. Dead(i)' /\ ~Blank(i)
    BY <2>1, <2>2 DEF Dead, Blank
  <2> QED BY <1>t, <2>1, <2>5, <2>6, QuietStep
<1>8. ASSUME NEW o \in Owners, Disable(o) PROVE Inv'
  BY <1>8, <1>s, <1>t, QuietStep DEF Disable, pollVars
<1>9. ASSUME NEW o \in Owners, CancelOwner(o) PROVE Inv'
  <2> DEFINE mine == {i \in Active(rows) : OwnerOf[i] = o}
  <2>1. /\ \/ /\ rows' = [i \in Ids |-> IF i \in mine THEN [rows[i] EXCEPT !.status = "cancelled"]
                                         ELSE rows[i]]
              /\ disk' = IF mine = {} THEN disk ELSE rows'
              /\ retired' = retired \cup mine
           \/ UNCHANGED <<rows, disk, retired>>
        /\ firing = {}
        /\ UNCHANGED <<previews, used, polled, pollNow, firing, started>>
    BY <1>9 DEF CancelOwner, Unlocked, Idle, pollVars
  <2>2. CASE UNCHANGED <<rows, disk, retired>>
    BY <1>s, <1>t, <2>1, <2>2, QuietStep
  <2>3. CASE /\ rows' = [i \in Ids |-> IF i \in mine THEN [rows[i] EXCEPT !.status = "cancelled"]
                                       ELSE rows[i]]
             /\ disk' = IF mine = {} THEN disk ELSE rows'
             /\ retired' = retired \cup mine
    <3>1. \A k \in Ids : /\ k \in mine => rows'[k].status = "cancelled" /\ rows[k].status = "active"
                         /\ k \notin mine => rows'[k] = rows[k]
                         /\ rows'[k] \in Row
      BY <1>r, <1>t, <2>3 DEF TypeOK, Row, Active
    <3>2. mine \subseteq Ids
      BY DEF Active
    <3>3. disk' = rows' \/ disk' = disk
      BY <2>3
    <3>4. mine # {} => disk' = rows'
      BY <2>3
    <3> HIDE DEF mine
    <3>5. \A k \in Ids : Tamer(rows'[k], rows[k])
      BY <1>r, <3>1, TamerRows
    <3>6. \A k \in Ids : Tame(k)
      BY <1>r, <3>3, <3>5, TamerRows DEF Tame
    <3>7. \A k \in mine : Dead(k)' /\ ~Blank(k)
      BY <3>1, <3>2, <3>4 DEF Dead, Blank
    <3> QED BY <1>t, <2>1, <2>3, <3>6, <3>7, QuietStep
  <2> QED BY <2>1, <2>2, <2>3
<1>10. ASSUME NEW o \in Owners, Enable(o) PROVE Inv'
  BY <1>10, <1>s, <1>t, QuietStep DEF Enable, pollVars
<1>11. ASSUME NEW d \in polled, DispatchStale(d) PROVE Inv'
  <2>1. polled' = polled \ {d}
        /\ UNCHANGED <<rows, disk, previews, used, pollNow, firing, started, retired>>
    BY <1>11 DEF DispatchStale
  <2> QED BY <1>s, <1>t, <2>1, QuietStep
<1>12. ASSUME NEW d \in polled, DispatchRevoked(d) PROVE Inv'
  <2>1. /\ polled' = polled \ {d} /\ rows[d.id].status = "active"
        /\ UNCHANGED <<previews, used, pollNow, firing, started, retired>>
        /\ \/ /\ rows' = [rows EXCEPT ![d.id].status = "cancelled", ![d.id].lastAt = d.at,
                                      ![d.id].last = "skipped_revoked"]
              /\ disk' = rows'
           \/ UNCHANGED <<rows, disk>>
    BY <1>12 DEF DispatchRevoked, StillDue
  <2>2. CASE UNCHANGED <<rows, disk>>
    BY <1>s, <1>t, <2>1, <2>2, QuietStep
  <2>3. CASE /\ rows' = [rows EXCEPT ![d.id].status = "cancelled", ![d.id].lastAt = d.at,
                                     ![d.id].last = "skipped_revoked"]
             /\ disk' = rows'
    <3>1. d.id \in Ids
      BY <1>o
    <3>2. rows'[d.id].status = "cancelled" /\ \A k \in Ids \ {d.id} : rows'[k] = rows[k]
      BY <1>r, <1>t, <2>3, <3>1 DEF TypeOK, Row
    <3>3. \A k \in Ids : rows'[k] \in Row
      BY <1>t DEF TypeOK
    <3>4. \A k \in Ids : Tamer(rows'[k], rows[k])
      BY <1>r, <2>1, <3>2, <3>3, TamerRows
    <3>5. \A k \in Ids : Tame(k)
      BY <2>3, <3>4 DEF Tame
    <3> QED BY <1>t, <2>1, <3>5, QuietStep
  <2> QED BY <2>1, <2>2, <2>3
<1>13. ASSUME NEW d \in polled, Consume(d) PROVE Inv'
  <2>1. /\ polled' = polled \ {d} /\ rows[d.id].status = "active" /\ rows[d.id].next = d.at
        /\ firing = {}
        /\ UNCHANGED <<previews, used, pollNow, started, retired>>
    BY <1>13 DEF Consume, StillDue, Unlocked, Idle
  <2>2. d.id \in Ids /\ d \in Occurrence /\ d.at \in Nat /\ pollNow \in Nat /\ pollNow >= d.at
    BY <1>o, <1>t DEF Inv, PollInv, TypeOK
  <2>3. PICK refused \in BOOLEAN :
          \/ /\ rows' = [rows EXCEPT ![d.id] = Advanced(rows[d.id], pollNow, Reserved(d, refused))]
             /\ disk' = rows'
             /\ firing' \subseteq {d}
          \/ UNCHANGED <<rows, disk, firing>>
    BY <1>13, <2>2 DEF Consume, Consumed, Idle
  <2>4. CASE UNCHANGED <<rows, disk, firing>>
    BY <1>s, <1>t, <2>1, <2>4, QuietStep
  <2>5. CASE /\ rows' = [rows EXCEPT ![d.id] = Advanced(rows[d.id], pollNow, Reserved(d, refused))]
             /\ disk' = rows'
             /\ firing' \subseteq {d}
    <3> DEFINE mark == Reserved(d, refused)
    <3>1. mark \in Dispatches
      BY DEF Reserved, Dispatches
    <3> HIDE DEF mark
    <3>2. rows'[d.id] = Advanced(rows[d.id], pollNow, mark) /\ \A k \in Ids \ {d.id} : rows'[k] = rows[k]
      BY <1>t, <2>2, <2>5 DEF TypeOK, mark
    <3>3. Tamer(rows'[d.id], rows[d.id])
      BY <1>r, <2>1, <2>2, <3>1, <3>2, TamerRows
    <3>4. \A k \in Ids : Tame(k)
      BY <1>r, <2>5, <3>2, <3>3, TamerRows DEF Tame
    <3>5. rows'[d.id].status = "active" => rows'[d.id].next > pollNow
      BY <1>r, <2>2, <3>1, <3>2, AdvancedRow
    <3>6. rows'[d.id].next \in Nat
      BY <1>t, <2>2 DEF TypeOK, Row
    <3>7. Gone(d)'
      BY <2>2, <2>5, <3>5, <3>6 DEF Gone
    <3>8. d \notin started
      BY <2>1, <2>2 DEF Inv, StartedIsConsumed
    <3>9. d.id \notin retired
      BY <2>1 DEF Inv, RetiredInv, Dead
    <3> QED BY <1>t, <2>1, <2>5, <3>4, <3>7, <3>8, <3>9, QuietStep
  <2> QED BY <2>3, <2>4, <2>5
<1>14. ASSUME NEW d \in firing, Start(d) PROVE Inv'
  <2>1. /\ firing' = {} /\ started' \in {started, started \cup {d}}
        /\ UNCHANGED <<previews, used, polled, pollNow, retired>>
    BY <1>14 DEF Start, Idle
  <2>2. PICK mark \in {"attempted", "skipped_refused", "skipped_revoked"} :
          rows' = Marked(d.id, mark) /\ disk' \in {rows', disk}
    BY <1>14 DEF Start, StartMarks
  <2>3. d.id \in Ids
    BY <1>o
  <2>4. /\ rows'[d.id].next = rows[d.id].next
        /\ \/ rows'[d.id].status = rows[d.id].status
           \/ rows'[d.id].status = "cancelled" /\ rows[d.id].status # "absent"
        /\ \A k \in Ids \ {d.id} : rows'[k] = rows[k]
    <3>1. CASE rows[d.id].status = "absent"
      <4>1. rows' = rows
        BY <2>2, <3>1, Zenon DEF Marked
      <4> QED BY <4>1
    <3>2. CASE rows[d.id].status # "absent"
      <4>1. rows' = [rows EXCEPT ![d.id].last = mark,
                                 ![d.id].status = IF mark = "skipped_revoked" THEN "cancelled" ELSE @]
        BY <2>2, <3>2 DEF Marked
      <4> QED BY <1>r, <1>t, <2>3, <3>2, <4>1 DEF TypeOK, Row
    <3> QED BY <3>1, <3>2
  <2>6. Tamer(rows'[d.id], rows[d.id])
    BY <1>r, <2>3, <2>4 DEF Tamer, Row
  <2>7. \A k \in Ids : Tame(k)
    BY <1>r, <2>2, <2>4, <2>6, TamerRows DEF Tame
  <2> QED BY <1>t, <2>1, <2>7, QuietStep
<1>15. ASSUME NEW d \in firing, StartThenDie(d) PROVE Inv'
  <2>1. Die /\ disk' = disk /\ started' = started \cup {d} /\ UNCHANGED <<used, retired>>
    BY <1>15 DEF StartThenDie
  <2> QED BY <1>t, <2>1, DieTame, QuietStep
<1>16. CASE UNCHANGED vars
  BY <1>16, <1>s, <1>t, QuietStep DEF vars, pollVars
<1> QED BY <1>1, <1>2, <1>3, <1>4, <1>5, <1>6, <1>7, <1>8, <1>9, <1>10, <1>11, <1>12,
           <1>13, <1>14, <1>15, <1>16 DEF Next

(* The invariant holds in every reachable state.                            *)
LEMMA InvHolds == Spec => []Inv
<1>1. Init => Inv
  BY InitType DEF Init, Inv, PollInv, StartedIsConsumed, FireInv, RetiredInv, NewInv,
                  Blank, Unseen, Absent, Idle
<1> QED BY <1>1, InvStep, PTL DEF Spec

(* Consumption is durable before the start: whatever crash, failed write,   *)
(* restart or clock step follows, a started occurrence is never offered     *)
(* again by the store or the file.                                          *)
THEOREM ConsumedBeforeStart == Spec => []StartedIsConsumed
<1>1. Inv => StartedIsConsumed
  BY DEF Inv
<1> QED BY <1>1, InvHolds, PTL

(* consume_and_dispatch starts no occurrence twice, for any inventory, any  *)
(* calendar and any movement of the wall clock.                             *)
THEOREM OccurrenceAtMostOnce == Spec => []AtMostOnce
<1>1. Inv => AtMostOnce
  BY DEF Inv, FireInv, AtMostOnce
<1> QED BY <1>1, InvHolds, PTL

(* A schedule whose cancellation was acknowledged never fires again.        *)
THEOREM CancellationHolds == Spec => []CancelledNeverFires
<1>1. Inv => CancelledNeverFires
  BY DEF Inv, FireInv, CancelledNeverFires
<1> QED BY <1>1, InvHolds, PTL

-----------------------------------------------------------------------------
(* The records.  A process that is down holds nothing; a recovered row that *)
(* is still active runs next after the start, and its identifier is never   *)
(* previewed again; the occurrence being started is the last one its row    *)
(* consumed; a row's next run lies after its creation; and memory and file  *)
(* stay within the inventory bound.                                         *)

DownInv == ~up => /\ firing = {} /\ polled = {} /\ recovered = {}
                  /\ \A i \in Ids : previews[i] = NoPreview /\ rows[i] = Absent

BootInv == \A i \in recovered : /\ i \in used /\ previews[i] = NoPreview
                                /\ rows[i].status = "active" => rows[i].next > bootNow

LastInv == \A d \in firing : rows[d.id].lastAt = d.at

Sane(row) == row.status # "absent" => row.next > row.anchor

Few(S) == IsFiniteSet(S) /\ Cardinality(S) <= MaxSchedules

RowsInv == /\ \A i \in Ids : Sane(rows[i]) /\ Sane(disk[i])
           /\ Few(Present(rows)) /\ Few(Present(disk))

PreviewInv == \A i \in Ids : previews[i] # NoPreview =>
                previews[i].first = NextAt(previews[i].spec, previews[i].anchor, previews[i].anchor)

Told(k, row) == row.last = "attempted" => [id |-> k, at |-> row.lastAt] \in started

RecordInv == /\ DownInv /\ BootInv /\ LastInv /\ RowsInv /\ PreviewInv
             /\ NoElapsedWork /\ AttemptedIsTrue


(* A consumed row keeps its schedule; its next run moves forward or stays,  *)
(* and what it consumed is on record.                                       *)
LEMMA AdvancedFacts ==
  ASSUME NEW row \in Row, NEW t \in Nat, NEW mark \in Dispatches, row.status # "absent",
         row.next > row.anchor, t >= row.next
  PROVE  /\ Advanced(row, t, mark).status # "absent" /\ Sane(Advanced(row, t, mark))
         /\ Advanced(row, t, mark).status = "active" => row.status = "active"
         /\ Advanced(row, t, mark).next >= row.next
         /\ Advanced(row, t, mark).lastAt = row.next /\ Advanced(row, t, mark).last = mark
<1>1. row.spec \in Specs /\ row.anchor \in Nat /\ row.next \in Nat
  BY DEF Row
<1> DEFINE next == NextAt(row.spec, t, row.anchor)
<1>2. next \in Nat /\ (next = 0 \/ next > t)
  BY <1>1, NextIsLater
<1>3. Advanced(row, t, mark) =
        [row EXCEPT !.lastAt = row.next, !.last = mark,
                    !.next = IF next = 0 THEN @ ELSE next,
                    !.status = IF next = 0 THEN "exhausted" ELSE @]
  BY DEF Advanced
<1> HIDE DEF next
<1> QED BY <1>1, <1>2, <1>3 DEF Row, Sane

(* Steps that keep the rows present, move no run back and tell no untruth   *)
(* about what was started.                                                  *)
LEMMA RecordQuiet ==
  ASSUME TypeOK, TypeOK', RecordInv,
         up \/ UNCHANGED <<rows, polled, firing>>,
         UNCHANGED <<up, recovered, bootNow, used, previews>>,
         \A k \in Ids : /\ rows'[k].status = "absent" <=> rows[k].status = "absent"
                        /\ Sane(rows'[k])
                        /\ rows'[k].status = "active" =>
                             rows[k].status = "active" /\ rows'[k].next >= rows[k].next
                        /\ Told(k, rows[k])',
         disk' = rows' \/ disk' = disk,
         started \subseteq started',
         \A d \in firing' : /\ rows'[d.id].lastAt = d.at
                            /\ d.id \in recovered => d.at > bootNow
  PROVE  RecordInv'
<1>1. DownInv'
  BY DEF RecordInv, DownInv
<1>2. BootInv'
  <2> SUFFICES ASSUME NEW i \in recovered, rows'[i].status = "active" PROVE rows'[i].next > bootNow
    BY DEF RecordInv, BootInv
  <2>1. i \in Ids /\ bootNow \in Nat
    BY DEF TypeOK
  <2>2. rows[i].next \in Nat /\ rows'[i].next \in Nat
    BY <2>1 DEF TypeOK, Row
  <2>3. rows[i].next > bootNow /\ rows'[i].next >= rows[i].next
    BY <2>1 DEF RecordInv, BootInv
  <2> QED BY <2>1, <2>2, <2>3
<1>3. LastInv' /\ NoElapsedWork'
  BY DEF LastInv, NoElapsedWork
<1>4. RowsInv'
  <2>1. Present(rows') = Present(rows) /\ (Present(disk') = Present(rows') \/ Present(disk') = Present(disk))
    BY DEF Present
  <2>2. Few(Present(rows)) /\ Few(Present(disk)) /\ \A k \in Ids : Sane(disk[k])
    BY DEF RecordInv, RowsInv
  <2>3. Few(Present(rows'))
    BY <2>1, <2>2
  <2>4. Few(Present(disk'))
    BY <2>1, <2>2
  <2>5. \A k \in Ids : Sane(rows'[k]) /\ Sane(disk'[k])
    BY <2>2
  <2> QED BY <2>3, <2>4, <2>5 DEF RowsInv, Few
<1>5. PreviewInv'
  BY DEF RecordInv, PreviewInv
<1>6. AttemptedIsTrue'
  <2>1. \A k \in Ids : Told(k, disk[k])
    BY DEF RecordInv, AttemptedIsTrue, Told
  <2>2. \A k \in Ids : Told(k, disk[k])'
    BY <2>1 DEF Told
  <2> QED BY <2>2 DEF AttemptedIsTrue, Told
<1> QED BY <1>1, <1>2, <1>3, <1>4, <1>5, <1>6 DEF RecordInv

(* A step that touches no row and starts nothing.                           *)
LEMMA RecordSame ==
  ASSUME TypeOK, TypeOK', RecordInv, up \/ UNCHANGED polled,
         UNCHANGED <<up, recovered, bootNow, used, previews, rows, disk, firing, started>>
  PROVE  RecordInv'
<1>1. \A k \in Ids : rows[k].next \in Nat
  BY DEF TypeOK, Row
<1>2. \A k \in Ids : Told(k, rows[k])'
  BY DEF RecordInv, AttemptedIsTrue, Told
<1>3. \A k \in Ids : Sane(rows[k])
  BY DEF RecordInv, RowsInv
<1>4. \A d \in firing : rows[d.id].lastAt = d.at /\ (d.id \in recovered => d.at > bootNow)
  BY DEF RecordInv, LastInv, NoElapsedWork
<1> QED BY <1>1, <1>2, <1>3, <1>4, RecordQuiet

(* The death of the process.                                                *)
LEMMA RecordDie ==
  ASSUME TypeOK, RecordInv, Die, UNCHANGED disk, started \subseteq started'
  PROVE  RecordInv'
<1>1. /\ up' = FALSE /\ recovered' = {} /\ polled' = {} /\ firing' = {}
      /\ \A i \in Ids : rows'[i] = Absent /\ previews'[i] = NoPreview
  BY DEF Die, Idle
<1>2. Absent.status = "absent" /\ Absent.last = "none"
  BY DEF Absent
<1>3. Few({})
  BY FS_EmptySet, SettingsAssumption DEF Few
<1>4. Present(rows') = {} /\ Present(disk') = Present(disk)
  BY <1>1, <1>2 DEF Present
<1>5. RowsInv'
  <2>1. Few(Present(rows')) /\ Few(Present(disk'))
    BY <1>3, <1>4 DEF RecordInv, RowsInv
  <2>2. \A i \in Ids : Sane(rows'[i]) /\ Sane(disk'[i])
    BY <1>1, <1>2 DEF RecordInv, RowsInv, Sane
  <2> QED BY <2>1, <2>2 DEF RowsInv, Few
<1>6. AttemptedIsTrue'
  BY <1>1, <1>2 DEF RecordInv, AttemptedIsTrue
<1> QED BY <1>1, <1>5, <1>6 DEF RecordInv, DownInv, BootInv, LastInv, PreviewInv, NoElapsedWork

(* Opening the file: what came due while nothing ran is skipped, so every   *)
(* recovered run lies after this start.                                     *)
LEMMA RecordOpen ==
  ASSUME Inv, TypeOK', RecordInv, Open
  PROVE  RecordInv'
<1>0. /\ TypeOK /\ now \in Nat /\ ~up
      /\ firing = {} /\ recovered = {} /\ \A i \in Ids : previews[i] = NoPreview /\ rows[i] = Absent
  BY DEF Inv, TypeOK, Open, RecordInv, DownInv
<1>1. /\ \A k \in Ids : disk'[k] = RecoveredRow(disk[k], now)
      /\ \/ /\ up' = TRUE /\ rows' = disk' /\ recovered' = Present(disk') /\ bootNow' = now
         \/ UNCHANGED <<up, rows, recovered, bootNow>>
      /\ UNCHANGED <<previews, used, polled, firing, started>>
  BY DEF Open, pollVars
<1>2. \A k \in Ids : /\ disk'[k].status = "absent" <=> disk[k].status = "absent"
                     /\ Sane(disk'[k])
                     /\ disk'[k].status = "active" => disk'[k].next > now
                     /\ Told(k, disk'[k])
  <2> SUFFICES ASSUME NEW k \in Ids
               PROVE  /\ disk'[k].status = "absent" <=> disk[k].status = "absent"
                      /\ Sane(disk'[k])
                      /\ disk'[k].status = "active" => disk'[k].next > now
                      /\ Told(k, disk'[k])
    OBVIOUS
  <2>1. disk[k] \in Row /\ Sane(disk[k]) /\ disk[k].next \in Nat
    BY <1>0 DEF TypeOK, RecordInv, RowsInv, Row
  <2>2. CASE disk[k].status = "active" /\ disk[k].next <= now
    <3>1. disk'[k] = Advanced(disk[k], now, "skipped_downtime")
      BY <1>1, <2>2 DEF RecoveredRow
    <3>2. "skipped_downtime" \in Dispatches /\ disk[k].next > disk[k].anchor
      BY <2>1, <2>2 DEF Dispatches, Sane
    <3>3. disk'[k].status = "active" => disk'[k].next > now
      BY <1>0, <2>1, <3>1, <3>2, AdvancedRow
    <3>4. disk'[k].status # "absent" /\ Sane(disk'[k]) /\ disk'[k].last = "skipped_downtime"
      BY <1>0, <2>1, <2>2, <3>1, <3>2, AdvancedFacts
    <3> QED BY <2>2, <3>3, <3>4 DEF Told
  <2>3. CASE ~(disk[k].status = "active" /\ disk[k].next <= now)
    <3>1. disk'[k] = disk[k]
      BY <1>1, <2>3 DEF RecoveredRow
    <3>2. Told(k, disk[k])
      BY DEF RecordInv, AttemptedIsTrue, Told
    <3> QED BY <1>0, <2>1, <2>3, <3>1, <3>2
  <2> QED BY <2>2, <2>3
<1>3. Present(disk') = Present(disk)
  BY <1>2 DEF Present
<1>4. Few(Present(rows)) /\ Few(Present(disk)) /\ \A k \in Ids : Sane(rows[k])
  BY DEF RecordInv, RowsInv
<1>5. Few(Present(rows')) /\ Few(Present(disk'))
  <2>1. rows' = disk' \/ rows' = rows
    BY <1>1
  <2> QED BY <1>3, <1>4, <2>1
<1>6. RowsInv'
  <2>1. rows' = disk' \/ rows' = rows
    BY <1>1
  <2>2. \A k \in Ids : Sane(rows'[k]) /\ Sane(disk'[k])
    BY <1>2, <1>4, <2>1
  <2> QED BY <1>5, <2>2 DEF RowsInv, Few
<1>7. DownInv'
  BY <1>0, <1>1 DEF RecordInv, DownInv
<1>8. BootInv'
  <2>1. CASE recovered' = Present(disk') /\ rows' = disk' /\ bootNow' = now
    <3> SUFFICES ASSUME NEW i \in Present(disk')
                 PROVE  /\ i \in used /\ previews[i] = NoPreview
                        /\ rows'[i].status = "active" => rows'[i].next > now
      BY <1>1, <2>1 DEF BootInv
    <3>1. i \in Ids /\ disk[i].status # "absent"
      BY <1>3 DEF Present
    <3>2. i \in used /\ previews[i] = NoPreview
      BY <3>1 DEF Inv, NewInv, Blank
    <3> QED BY <1>2, <2>1, <3>1, <3>2
  <2>2. CASE UNCHANGED <<up, rows, recovered, bootNow>>
    BY <1>0, <2>2 DEF BootInv
  <2> QED BY <1>1, <2>1, <2>2
<1>9. AttemptedIsTrue'
  <2>1. rows' = disk' \/ rows' = rows
    BY <1>1
  <2>2. \A k \in Ids : Told(k, Absent)
    BY DEF Told, Absent
  <2>3. \A k \in Ids : Told(k, rows'[k]) /\ Told(k, disk'[k])
    BY <1>0, <1>2, <2>1, <2>2
  <2> QED BY <1>1, <2>3 DEF AttemptedIsTrue, Told
<1>10. LastInv' /\ NoElapsedWork' /\ PreviewInv'
  BY <1>0, <1>1 DEF LastInv, NoElapsedWork, PreviewInv
<1> QED BY <1>6, <1>7, <1>8, <1>9, <1>10 DEF RecordInv


(* Between its creation and its first run, a schedule's next run is that    *)
(* first run, or there is none left.                                        *)
LEMMA NextIsFirst ==
  ASSUME NEW spec \in Specs, NEW anchor \in Nat, NEW t \in Nat, anchor <= t,
         t < NextAt(spec, anchor, anchor)
  PROVE  NextAt(spec, t, anchor) \in {0, NextAt(spec, anchor, anchor)}
<1>0. Step \in Nat /\ Step > 0
  BY SettingsAssumption
<1>1. CASE spec = "interval"
  <2>1. (anchor - anchor) \div Step = 0
    BY <1>0
  <2>2. NextAt(spec, anchor, anchor) = anchor + Step
    BY <1>0, <1>1, <2>1 DEF NextAt
  <2>3. t - anchor \in Nat /\ t - anchor < Step
    BY <1>0, <2>2
  <2>4. (t - anchor) \div Step = 0
    BY <1>0, <2>3
  <2>5. NextAt(spec, t, anchor) \in {0, anchor + Step}
    BY <1>0, <1>1, <2>4 DEF NextAt
  <2> QED BY <2>2, <2>5
<1>2. CASE spec # "interval"
  <2>1. \A a \in Nat : NextAt(spec, a, anchor) \in
          {0, IF a > Horizon THEN 0 ELSE CalendarNext[a]}
    BY <1>2 DEF NextAt
  <2>2. CASE t > Horizon
    <3>1. NextAt(spec, t, anchor) \in {0, IF t > Horizon THEN 0 ELSE CalendarNext[t]}
      BY <2>1
    <3> QED BY <2>2, <3>1
  <2>3. CASE ~(t > Horizon)
    <3>1. t \in 0..Horizon /\ anchor \in 0..Horizon
      BY <2>3, CalendarAssumption
    <3>2. NextAt(spec, anchor, anchor) = CalendarNext[anchor]
      <4>1. NextAt(spec, anchor, anchor) # 0
        BY DEF Specs
      <4>2. NextAt(spec, anchor, anchor) \in {0, IF anchor > Horizon THEN 0 ELSE CalendarNext[anchor]}
        BY <2>1
      <4> QED BY <4>1, <4>2
    <3>3. CalendarNext[t] = CalendarNext[anchor]
      BY <3>1, <3>2, FirstInstantAssumption
    <3>4. NextAt(spec, t, anchor) \in {0, CalendarNext[t]}
      <4>1. NextAt(spec, t, anchor) \in {0, IF t > Horizon THEN 0 ELSE CalendarNext[t]}
        BY <2>1
      <4> QED BY <2>3, <4>1
    <3> QED BY <3>2, <3>3, <3>4
  <2> QED BY <2>2, <2>3
<1> QED BY <1>1, <1>2

(* A preview records the first run its schedule would have.                 *)
LEMMA RecordPreview ==
  ASSUME Inv, TypeOK', RecordInv, NEW i \in Ids, PreviewSchedule(i)
  PROVE  RecordInv'
<1>0. TypeOK /\ now \in Nat
  BY DEF Inv, TypeOK
<1>1. /\ up /\ UNCHANGED <<up, recovered, bootNow, rows, disk, firing, started>>
      /\ used \subseteq used' /\ i \notin used
  BY DEF PreviewSchedule, procVars, pollVars
<1>2. PICK spec \in Specs :
        LET kept == [k \in Ids |-> IF previews[k].expires > now THEN previews[k] ELSE NoPreview]
            first == NextAt(spec, now, now)
            ttl == now + PreviewTtl
        IN /\ HasRuns(spec, now)
           /\ \/ previews' = [kept EXCEPT ![i] =
                   [spec |-> spec, anchor |-> now, first |-> first,
                    expires |-> IF ttl < first THEN ttl ELSE first]]
              \/ previews' = kept
  BY DEF PreviewSchedule
<1>5. \A k \in Ids : \/ previews'[k] \in {previews[k], NoPreview}
                     \/ /\ k = i /\ previews'[k].first = NextAt(spec, now, now)
                        /\ previews'[k].spec = spec /\ previews'[k].anchor = now
  <2> DEFINE kept == [k \in Ids |-> IF previews[k].expires > now THEN previews[k] ELSE NoPreview]
             new == [spec |-> spec, anchor |-> now, first |-> NextAt(spec, now, now),
                     expires |-> IF now + PreviewTtl < NextAt(spec, now, now)
                                 THEN now + PreviewTtl ELSE NextAt(spec, now, now)]
  <2>1. previews' = [kept EXCEPT ![i] = new] \/ previews' = kept
    BY <1>2
  <2>2. new.first = NextAt(spec, now, now) /\ new.spec = spec /\ new.anchor = now
    OBVIOUS
  <2>3. \A k \in Ids : kept[k] \in {previews[k], NoPreview}
    OBVIOUS
  <2>4. kept \in [Ids -> {kept[k] : k \in Ids}]
    OBVIOUS
  <2> HIDE DEF kept, new
  <2> QED BY <2>1, <2>2, <2>3, <2>4
<1>6. PreviewInv'
  BY <1>5 DEF RecordInv, PreviewInv
<1>7. BootInv'
  <2>1. \A k \in recovered : k \in Ids /\ k # i
    BY <1>0, <1>1 DEF RecordInv, BootInv, TypeOK
  <2> QED BY <1>1, <1>5, <2>1 DEF RecordInv, BootInv
<1>8. DownInv' /\ LastInv' /\ NoElapsedWork'
  BY <1>1 DEF RecordInv, DownInv, LastInv, NoElapsedWork
<1>9. RowsInv'
  BY <1>1 DEF RecordInv, RowsInv, Present, Sane, Few
<1>10. AttemptedIsTrue'
  BY <1>1 DEF RecordInv, AttemptedIsTrue
<1> QED BY <1>6, <1>7, <1>8, <1>9, <1>10 DEF RecordInv


(* What activation does to the rows: at the cap the rows that are no longer *)
(* active go; then the new row, with a run after its creation, is added if  *)
(* there is room.                                                           *)
LEMMA ActivateEffect ==
  ASSUME Inv, NEW i \in Ids, Activate(i)
  PROVE  /\ previews[i] # NoPreview /\ now >= previews[i].anchor /\ previews[i].first > now
         /\ \A k \in Ids \ {i} : rows'[k] \in {rows[k], Absent} /\ previews'[k] = previews[k]
         /\ \/ /\ Cardinality(Present(rows') \ {i}) < MaxSchedules
               /\ disk' = rows' /\ previews'[i] = NoPreview
               /\ rows'[i].status = "active" /\ rows'[i].last = "none"
               /\ rows'[i].anchor = previews[i].anchor
               /\ rows'[i].next = NextAt(previews[i].spec, now, previews[i].anchor)
               /\ rows'[i].next # 0
            \/ UNCHANGED <<disk, previews>> /\ rows'[i] \in {rows[i], Absent}
         /\ up /\ firing = {}
         /\ UNCHANGED <<up, recovered, bootNow, used, polled, firing, started>>
<1>0. TypeOK
  BY DEF Inv
<1> DEFINE p == previews[i]
           kept == [k \in Ids |-> IF k \in Dropped(rows) THEN Absent ELSE rows[k]]
           row == [status |-> "active", spec |-> p.spec, anchor |-> p.anchor,
                   next |-> NextAt(p.spec, now, p.anchor), lastAt |-> 0, last |-> "none"]
<1>1. /\ up /\ firing = {} /\ UNCHANGED <<up, recovered, bootNow, used, polled, firing, started>>
      /\ p # NoPreview /\ now >= p.anchor /\ p.first > now
  BY DEF Activate, Activatable, Unlocked, Idle, procVars, pollVars
<1>2. \/ /\ Fits(kept) /\ row.next # 0 /\ rows' = [kept EXCEPT ![i] = row] /\ disk' = rows'
         /\ previews' = [previews EXCEPT ![i] = NoPreview]
      \/ rows' = kept /\ UNCHANGED <<disk, previews>>
  BY DEF Activate
<1>3. /\ row.status = "active" /\ row.last = "none" /\ row.anchor = p.anchor
      /\ row.next = NextAt(p.spec, now, p.anchor)
  OBVIOUS
<1>4. \A k \in Ids : kept[k] \in {rows[k], Absent}
  OBVIOUS
<1>5. CASE rows' = kept /\ UNCHANGED <<disk, previews>>
  BY <1>1, <1>4, <1>5
<1>6. CASE /\ Fits(kept) /\ row.next # 0 /\ rows' = [kept EXCEPT ![i] = row] /\ disk' = rows'
           /\ previews' = [previews EXCEPT ![i] = NoPreview]
  <2>1. rows'[i] = row /\ \A k \in Ids \ {i} : rows'[k] = kept[k]
    BY <1>6
  <2>2. previews'[i] = NoPreview /\ \A k \in Ids \ {i} : previews'[k] = previews[k]
    BY <1>0, <1>6 DEF TypeOK
  <2>3. rows[i].status = "absent" /\ Absent.status = "absent"
    BY <1>1 DEF Inv, NewInv, Blank, Absent
  <2>4. Present(rows') \ {i} = Present(kept)
    <3>1. kept[i].status = "absent"
      BY <1>4, <2>3
    <3> HIDE DEF kept
    <3> QED BY <2>1, <3>1 DEF Present
  <2>5. Cardinality(Present(rows') \ {i}) < MaxSchedules
    BY <1>6, <2>4 DEF Fits
  <2> HIDE DEF kept, row
  <2> QED BY <1>1, <1>3, <1>4, <1>6, <2>1, <2>2, <2>5
<1> QED BY <1>2, <1>5, <1>6

(* Activation keeps the records.                                            *)
LEMMA RecordActivate ==
  ASSUME Inv, TypeOK', RecordInv, NEW i \in Ids, Activate(i)
  PROVE  RecordInv'
<1>0. TypeOK /\ now \in Nat /\ previews[i] \in Preview
  BY DEF Inv, TypeOK
<1>1. /\ previews[i] # NoPreview /\ now >= previews[i].anchor
      /\ \A k \in Ids \ {i} : rows'[k] \in {rows[k], Absent} /\ previews'[k] = previews[k]
      /\ up /\ firing = {} /\ UNCHANGED <<up, recovered, bootNow, used, polled, firing, started>>
  BY ActivateEffect
<1>2. \/ /\ Cardinality(Present(rows') \ {i}) < MaxSchedules
         /\ disk' = rows' /\ previews'[i] = NoPreview
         /\ rows'[i].status = "active" /\ rows'[i].last = "none"
         /\ rows'[i].anchor = previews[i].anchor
         /\ rows'[i].next = NextAt(previews[i].spec, now, previews[i].anchor)
         /\ rows'[i].next # 0
      \/ UNCHANGED <<disk, previews>> /\ rows'[i] \in {rows[i], Absent}
  BY ActivateEffect
<1>3. i \notin recovered
  BY <1>1 DEF RecordInv, BootInv
<1>4. DownInv' /\ LastInv' /\ NoElapsedWork'
  BY <1>1 DEF DownInv, LastInv, NoElapsedWork
<1>5. BootInv'
  <2>1. \A k \in recovered : k \in Ids \ {i}
    BY <1>0, <1>3 DEF TypeOK
  <2> QED BY <1>1, <2>1 DEF RecordInv, BootInv, Absent
<1>6. PreviewInv'
  <2>1. \A k \in Ids : previews'[k] \in {previews[k], NoPreview}
    BY <1>1, <1>2
  <2> QED BY <2>1 DEF RecordInv, PreviewInv
<1>7. AttemptedIsTrue'
  <2>1. \A k \in Ids : Told(k, rows[k]) /\ Told(k, disk[k]) /\ Told(k, Absent)
    BY DEF RecordInv, AttemptedIsTrue, Told, Absent
  <2>2. rows'[i].last = "none" => Told(i, rows'[i])
    BY DEF Told
  <2>3. \A k \in Ids : Told(k, rows'[k])
    BY <1>1, <1>2, <2>1, <2>2
  <2>4. \A k \in Ids : Told(k, disk'[k])
    BY <1>2, <2>1, <2>3
  <2> QED BY <1>1, <2>3, <2>4 DEF AttemptedIsTrue, Told
<1>8. \A k \in Ids : Sane(rows'[k])
  <2>1. \A k \in Ids : Sane(rows[k]) /\ Sane(Absent)
    BY DEF RecordInv, RowsInv, Sane, Absent
  <2>2. rows'[i].status = "active" /\ rows'[i] \notin {rows[i], Absent} => Sane(rows'[i])
    <3> SUFFICES ASSUME rows'[i] \notin {rows[i], Absent} PROVE Sane(rows'[i])
      OBVIOUS
    <3>1. /\ rows'[i].anchor = previews[i].anchor
          /\ rows'[i].next = NextAt(previews[i].spec, now, previews[i].anchor)
          /\ rows'[i].next # 0
      BY <1>2
    <3>2. previews[i].spec \in Specs /\ previews[i].anchor \in Nat
      BY <1>0 DEF Preview
    <3>3. rows'[i].next > now /\ rows'[i].next \in Nat
      BY <1>0, <3>1, <3>2, NextIsLater
    <3> QED BY <1>0, <1>1, <3>1, <3>2, <3>3 DEF Sane
  <2> QED BY <1>1, <1>2, <2>1, <2>2
<1>9. Few(Present(rows'))
  <2>1. Few(Present(rows)) /\ MaxSchedules \in Nat
    BY SettingsAssumption DEF RecordInv, RowsInv
  <2>2. Present(rows') \ {i} \subseteq Present(rows)
    BY <1>1 DEF Present, Absent
  <2> DEFINE R == Present(rows') \ {i}
  <2>3. IsFiniteSet(R) /\ Cardinality(R) <= Cardinality(Present(rows))
    BY <2>1, <2>2, FS_Subset DEF Few
  <2>4. Cardinality(R) \in Nat /\ Cardinality(Present(rows)) \in Nat
    BY <2>1, <2>3, FS_CardinalityType DEF Few
  <2>5. CASE i \notin Present(rows')
    <3>1. Present(rows') = R
      BY <2>5
    <3> HIDE DEF R
    <3> QED BY <2>1, <2>3, <2>4, <3>1 DEF Few
  <2>6. CASE i \in Present(rows')
    <3>1. Present(rows') = R \cup {i} /\ i \notin R
      BY <2>6
    <3>2. rows[i].status = "absent"
      BY <1>1 DEF Inv, NewInv, Blank
    <3>3. Cardinality(R) < MaxSchedules
      BY <1>2, <2>6, <3>2 DEF Present, Absent
    <3> HIDE DEF R
    <3>4. IsFiniteSet(R \cup {i}) /\ Cardinality(R \cup {i}) = Cardinality(R) + 1
      BY <2>3, <3>1, FS_AddElement
    <3> QED BY <2>1, <2>4, <3>1, <3>3, <3>4 DEF Few
  <2> QED BY <2>5, <2>6
<1>10. RowsInv'
  <2>1. Few(Present(disk')) /\ \A k \in Ids : Sane(disk'[k])
    <3>1. Few(Present(disk)) /\ \A k \in Ids : Sane(disk[k])
      BY DEF RecordInv, RowsInv
    <3>2. disk' = rows' \/ disk' = disk
      BY <1>2
    <3> QED BY <1>8, <1>9, <3>1, <3>2
  <2> QED BY <1>8, <1>9, <2>1 DEF RowsInv, Few
<1> QED BY <1>4, <1>5, <1>6, <1>7, <1>10 DEF RecordInv


(* Consuming an occurrence puts it on the row's record.                     *)
LEMMA RecordConsume ==
  ASSUME Inv, TypeOK', RecordInv, NEW d \in polled, Consume(d)
  PROVE  RecordInv'
<1>0. TypeOK /\ d \in Occurrence /\ d.id \in Ids /\ d.at \in Nat /\ pollNow \in Nat /\ pollNow >= d.at
  BY DEF Inv, TypeOK, Occurrence, PollInv
<1>1. /\ rows[d.id].status = "active" /\ rows[d.id].next = d.at /\ up /\ firing = {}
      /\ UNCHANGED <<up, recovered, bootNow, previews, used, started>>
  BY DEF Consume, StillDue, Unlocked, Idle, procVars
<1>2. PICK refused \in BOOLEAN :
        \/ /\ rows' = [rows EXCEPT ![d.id] = Advanced(rows[d.id], pollNow, Reserved(d, refused))]
           /\ disk' = rows' /\ firing' \subseteq {d}
        \/ UNCHANGED <<rows, disk, firing>>
  BY <1>0 DEF Consume, Consumed, Idle
<1>3. CASE UNCHANGED <<rows, disk, firing>>
  BY <1>0, <1>1, <1>3, RecordSame
<1>4. CASE /\ rows' = [rows EXCEPT ![d.id] = Advanced(rows[d.id], pollNow, Reserved(d, refused))]
           /\ disk' = rows' /\ firing' \subseteq {d}
  <2> DEFINE mark == Reserved(d, refused)
             row == Advanced(rows[d.id], pollNow, mark)
  <2>1. mark \in Dispatches /\ mark # "attempted"
    BY DEF Reserved, Dispatches
  <2>2. rows[d.id] \in Row /\ rows[d.id].next > rows[d.id].anchor
    BY <1>0, <1>1 DEF TypeOK, RecordInv, RowsInv, Sane
  <2> HIDE DEF mark
  <2>3. /\ row.status # "absent" /\ Sane(row) /\ row.next >= rows[d.id].next
        /\ row.lastAt = d.at /\ row.last = mark
    BY <1>0, <1>1, <2>1, <2>2, AdvancedFacts
  <2>4. rows'[d.id] = row /\ \A k \in Ids \ {d.id} : rows'[k] = rows[k]
    BY <1>0, <1>4 DEF TypeOK, mark
  <2> HIDE DEF row
  <2>5. \A k \in Ids : Told(k, rows[k])'
    <3>1. \A k \in Ids : Told(k, rows[k])
      BY DEF RecordInv, AttemptedIsTrue, Told
    <3>2. rows'[d.id].last # "attempted"
      BY <2>1, <2>3, <2>4
    <3> QED BY <1>1, <2>4, <3>1, <3>2 DEF Told
  <2>6. \A k \in Ids : /\ rows'[k].status = "absent" <=> rows[k].status = "absent"
                       /\ Sane(rows'[k])
                       /\ rows'[k].status = "active" =>
                            rows[k].status = "active" /\ rows'[k].next >= rows[k].next
    <3>1. \A k \in Ids : Sane(rows[k]) /\ rows[k].next \in Nat
      BY <1>0 DEF RecordInv, RowsInv, TypeOK, Row
    <3> QED BY <1>1, <2>3, <2>4, <3>1
  <2>7. d.id \in recovered => d.at > bootNow
    BY <1>1 DEF RecordInv, BootInv
  <2>8. \A e \in firing' : rows'[e.id].lastAt = e.at /\ (e.id \in recovered => e.at > bootNow)
    BY <1>4, <2>3, <2>4, <2>7
  <2> QED BY <1>0, <1>1, <1>4, <2>5, <2>6, <2>8, RecordQuiet
<1> QED BY <1>2, <1>3, <1>4

(* Recording the outcome of the start: `attempted' is said of exactly the   *)
(* occurrence that was consumed.                                            *)
LEMMA RecordStart ==
  ASSUME Inv, TypeOK', RecordInv, NEW d \in firing, Start(d)
  PROVE  RecordInv'
<1>0. TypeOK /\ d \in Occurrence /\ d.id \in Ids /\ d = [id |-> d.id, at |-> d.at]
  BY DEF Inv, TypeOK, Occurrence
<1>1. /\ up /\ firing' = {} /\ UNCHANGED <<up, recovered, bootNow, previews, used, polled>>
      /\ rows[d.id].lastAt = d.at
  BY DEF Start, Idle, procVars, RecordInv, LastInv
<1>2. PICK mark \in {"attempted", "skipped_refused", "skipped_revoked"} :
        /\ rows' = Marked(d.id, mark) /\ disk' \in {rows', disk}
        /\ started' = IF mark = "attempted" THEN started \cup {d} ELSE started
  BY DEF Start, StartMarks
<1>3. \A k \in Ids : Told(k, rows[k]) /\ Sane(rows[k]) /\ rows[k] \in Row /\ rows[k].next \in Nat
  BY <1>0 DEF RecordInv, AttemptedIsTrue, RowsInv, Told, TypeOK, Row
<1>4. CASE rows[d.id].status = "absent"
  <2>1. rows' = rows
    BY <1>2, <1>4, Zenon DEF Marked
  <2>2. \A k \in Ids : Told(k, rows[k])'
    BY <1>2, <1>3, <2>1 DEF Told
  <2> QED BY <1>0, <1>1, <1>2, <1>3, <2>1, <2>2, RecordQuiet
<1>5. CASE rows[d.id].status # "absent"
  <2>1. rows' = [rows EXCEPT ![d.id].last = mark,
                             ![d.id].status = IF mark = "skipped_revoked" THEN "cancelled" ELSE @]
    BY <1>2, <1>5 DEF Marked
  <2>2. /\ rows'[d.id].last = mark /\ rows'[d.id].lastAt = d.at
        /\ rows'[d.id].next = rows[d.id].next /\ rows'[d.id].anchor = rows[d.id].anchor
        /\ rows'[d.id].status \in {rows[d.id].status, "cancelled"}
        /\ \A k \in Ids \ {d.id} : rows'[k] = rows[k]
    BY <1>0, <1>1, <1>3, <2>1 DEF TypeOK, Row
  <2>3. \A k \in Ids : Told(k, rows[k])'
    <3>1. started \subseteq started' /\ (mark = "attempted" => d \in started')
      BY <1>2
    <3>2. Told(d.id, rows[d.id])'
      BY <1>0, <2>2, <3>1 DEF Told
    <3>3. \A k \in Ids \ {d.id} : Told(k, rows[k])'
      BY <1>3, <2>2, <3>1 DEF Told
    <3> QED BY <3>2, <3>3
  <2>4. \A k \in Ids : /\ rows'[k].status = "absent" <=> rows[k].status = "absent"
                       /\ Sane(rows'[k])
                       /\ rows'[k].status = "active" =>
                            rows[k].status = "active" /\ rows'[k].next >= rows[k].next
    BY <1>3, <1>5, <2>2 DEF Sane
  <2> QED BY <1>0, <1>1, <1>2, <2>3, <2>4, RecordQuiet
<1> QED BY <1>4, <1>5

(* A cancellation, by the owner, by the account's retirement or by the      *)
(* gate, keeps the records.                                                 *)
LEMMA RecordCancel ==
  ASSUME TypeOK, TypeOK', RecordInv, up,
         UNCHANGED <<up, recovered, bootNow, used, previews, firing, started>>, firing = {},
         \A k \in Ids : \/ rows'[k] = rows[k]
                        \/ /\ rows[k].status # "absent" /\ rows'[k].status = "cancelled"
                           /\ rows'[k].next = rows[k].next /\ rows'[k].anchor = rows[k].anchor
                           /\ \/ rows'[k].last = rows[k].last /\ rows'[k].lastAt = rows[k].lastAt
                              \/ rows'[k].last = "skipped_revoked",
         disk' = rows' \/ disk' = disk
  PROVE  RecordInv'
<1>1. \A k \in Ids : Told(k, rows[k]) /\ Sane(rows[k]) /\ rows[k].next \in Nat
  BY DEF RecordInv, AttemptedIsTrue, RowsInv, Told, TypeOK, Row
<1>2. \A k \in Ids : Told(k, rows[k])'
  BY <1>1 DEF Told
<1>3. \A k \in Ids : /\ rows'[k].status = "absent" <=> rows[k].status = "absent"
                     /\ Sane(rows'[k])
                     /\ rows'[k].status = "active" =>
                          rows[k].status = "active" /\ rows'[k].next >= rows[k].next
  BY <1>1 DEF Sane
<1> QED BY <1>2, <1>3, RecordQuiet

(* RecordInv is inductive: one step per action.                             *)
LEMMA RecordStep == Inv /\ Inv' /\ RecordInv /\ [Next]_vars => RecordInv'
<1> SUFFICES ASSUME Inv, Inv', RecordInv, [Next]_vars PROVE RecordInv'
  OBVIOUS
<1>t. TypeOK /\ TypeOK' /\ \A k \in Ids : rows[k] \in Row
  BY DEF Inv, TypeOK
<1>1. CASE SetClock
  BY <1>1, <1>t, RecordSame DEF SetClock, procVars, pollVars
<1>2. CASE Open
  BY <1>2, <1>t, RecordOpen
<1>3. CASE Crash
  BY <1>3, <1>t, RecordDie DEF Crash
<1>4. CASE Poll
  BY <1>4, <1>t, RecordSame DEF Poll, Unlocked, procVars
<1>5. ASSUME NEW i \in Ids, PreviewSchedule(i) PROVE RecordInv'
  BY <1>5, <1>t, RecordPreview
<1>6. ASSUME NEW i \in Ids, Activate(i) PROVE RecordInv'
  BY <1>6, <1>t, RecordActivate
<1>7. ASSUME NEW i \in Ids, Cancel(i) PROVE RecordInv'
  <2>1. /\ rows' = [rows EXCEPT ![i].status = "cancelled"] /\ disk' = rows'
        /\ rows[i].status # "absent" /\ firing = {} /\ up
        /\ UNCHANGED <<up, recovered, bootNow, used, previews, firing, started>>
    BY <1>7 DEF Cancel, CancelSaved, Unlocked, Idle, procVars, pollVars
  <2>2. /\ rows'[i].status = "cancelled" /\ rows'[i].next = rows[i].next
        /\ rows'[i].anchor = rows[i].anchor /\ rows'[i].last = rows[i].last
        /\ rows'[i].lastAt = rows[i].lastAt /\ \A k \in Ids \ {i} : rows'[k] = rows[k]
    BY <1>t, <2>1 DEF TypeOK, Row
  <2> QED BY <1>t, <2>1, <2>2, RecordCancel
<1>8. ASSUME NEW o \in Owners, Disable(o) \/ Enable(o) PROVE RecordInv'
  BY <1>8, <1>t, RecordSame DEF Disable, Enable, procVars, pollVars
<1>9. ASSUME NEW o \in Owners, CancelOwner(o) PROVE RecordInv'
  <2> DEFINE mine == {i \in Active(rows) : OwnerOf[i] = o}
  <2>1. /\ \/ /\ rows' = [i \in Ids |-> IF i \in mine THEN [rows[i] EXCEPT !.status = "cancelled"]
                                         ELSE rows[i]]
              /\ disk' = IF mine = {} THEN disk ELSE rows'
           \/ UNCHANGED <<rows, disk>>
        /\ firing = {} /\ up
        /\ UNCHANGED <<up, recovered, bootNow, used, previews, polled, firing, started>>
    BY <1>9 DEF CancelOwner, Unlocked, Idle, procVars, pollVars
  <2>2. CASE UNCHANGED <<rows, disk>>
    BY <1>t, <2>1, <2>2, RecordSame
  <2>3. CASE /\ rows' = [i \in Ids |-> IF i \in mine THEN [rows[i] EXCEPT !.status = "cancelled"]
                                       ELSE rows[i]]
             /\ disk' = IF mine = {} THEN disk ELSE rows'
    <3>1. \A k \in Ids :
            \/ rows'[k] = rows[k]
            \/ /\ rows[k].status # "absent" /\ rows'[k].status = "cancelled"
               /\ rows'[k].next = rows[k].next /\ rows'[k].anchor = rows[k].anchor
               /\ rows'[k].last = rows[k].last /\ rows'[k].lastAt = rows[k].lastAt
      BY <1>t, <2>3 DEF Row, Active
    <3>2. disk' = rows' \/ disk' = disk
      BY <2>3
    <3> QED BY <1>t, <2>1, <3>1, <3>2, RecordCancel
  <2> QED BY <2>1, <2>2, <2>3
<1>10. ASSUME NEW d \in polled, DispatchStale(d) PROVE RecordInv'
  BY <1>10, <1>t, RecordSame DEF DispatchStale, Unlocked, procVars
<1>11. ASSUME NEW d \in polled, DispatchRevoked(d) PROVE RecordInv'
  <2>1. /\ rows[d.id].status = "active" /\ firing = {} /\ up
        /\ UNCHANGED <<up, recovered, bootNow, previews, used, firing, started>>
        /\ \/ /\ rows' = [rows EXCEPT ![d.id].status = "cancelled", ![d.id].lastAt = d.at,
                                      ![d.id].last = "skipped_revoked"]
              /\ disk' = rows'
           \/ UNCHANGED <<rows, disk>>
    BY <1>11 DEF DispatchRevoked, StillDue, Unlocked, Idle, procVars
  <2>2. d.id \in Ids
    BY <1>t DEF TypeOK, Occurrence
  <2>3. CASE UNCHANGED <<rows, disk>>
    BY <1>t, <2>1, <2>3, RecordSame
  <2>4. CASE /\ rows' = [rows EXCEPT ![d.id].status = "cancelled", ![d.id].lastAt = d.at,
                                     ![d.id].last = "skipped_revoked"]
             /\ disk' = rows'
    <3>1. /\ rows'[d.id].status = "cancelled" /\ rows'[d.id].next = rows[d.id].next
          /\ rows'[d.id].anchor = rows[d.id].anchor /\ rows'[d.id].last = "skipped_revoked"
          /\ \A k \in Ids \ {d.id} : rows'[k] = rows[k]
      BY <1>t, <2>2, <2>4 DEF TypeOK, Row
    <3> QED BY <1>t, <2>1, <2>4, <3>1, RecordCancel
  <2> QED BY <2>1, <2>3, <2>4
<1>12. ASSUME NEW d \in polled, Consume(d) PROVE RecordInv'
  BY <1>12, <1>t, RecordConsume
<1>13. ASSUME NEW d \in firing, Start(d) PROVE RecordInv'
  BY <1>13, <1>t, RecordStart
<1>14. ASSUME NEW d \in firing, StartThenDie(d) PROVE RecordInv'
  BY <1>14, <1>t, RecordDie DEF StartThenDie
<1>15. CASE UNCHANGED vars
  BY <1>15, <1>t, RecordSame DEF vars, procVars, pollVars
<1> QED BY <1>1, <1>2, <1>3, <1>4, <1>5, <1>6, <1>7, <1>8, <1>9, <1>10, <1>11, <1>12,
           <1>13, <1>14, <1>15 DEF Next

(* RecordInv holds in every reachable state.                                *)
LEMMA RecordHolds == Spec => []RecordInv
<1>1. Init => RecordInv
  <2> SUFFICES ASSUME Init PROVE RecordInv
    OBVIOUS
  <2>1. Present(rows) = {} /\ Present(disk) = {}
    BY DEF Init, Present, Absent
  <2>2. Few({})
    BY FS_EmptySet, SettingsAssumption DEF Few
  <2>3. RowsInv
    BY <2>1, <2>2 DEF Init, RowsInv, Sane, Absent
  <2> QED BY <2>3 DEF Init, RecordInv, DownInv, BootInv, LastInv, PreviewInv, NoElapsedWork,
                      AttemptedIsTrue, Absent, Idle
<1>2. Inv /\ Inv' /\ RecordInv /\ [Next]_vars => RecordInv'
  BY RecordStep
<1> QED BY <1>1, <1>2, InvHolds, PTL DEF Spec

(* The schedule file tells the truth over restarts, for every inventory,    *)
(* calendar and movement of the clock: nothing that elapsed while the       *)
(* server was down is started, `attempted' is said only of a started        *)
(* occurrence, and the file a crash leaves can be read.                     *)
THEOREM ScheduleRecordsAreSound == Spec => []ScheduleRecordsHold
<1>1. Inv /\ RecordInv => ScheduleRecordsHold
  <2> SUFFICES ASSUME Inv, RecordInv PROVE ScheduleRecordsHold
    OBVIOUS
  <2>1. AlwaysReadable
    BY DEF RecordInv, RowsInv, Few, Sane, AlwaysReadable, Readable, Present
  <2> QED BY <2>1 DEF Inv, RecordInv, ScheduleRecordsHold
<1> QED BY <1>1, InvHolds, RecordHolds, PTL

(* What the owner confirmed in the preview is what is scheduled: the first  *)
(* run of an activated schedule is the first run that was shown.            *)
THEOREM PreviewIsHonoured == Spec => PreviewHonoured
<1>1. ASSUME Inv, Inv', RecordInv, [Next]_vars, NEW i \in Ids,
             rows[i].status = "absent", previews[i] # NoPreview, rows'[i].status = "active"
      PROVE  rows'[i].next = previews[i].first
  <2>1. up
    BY <1>1 DEF RecordInv, DownInv
  <2>2. \E k \in Ids : Activate(k)
    <3>1. CASE \E k \in Ids : Activate(k)
      BY <3>1
    <3>2. CASE UNCHANGED rows
      BY <1>1, <3>2
    <3>3. CASE Die
      BY <1>1, <3>3 DEF Die, Absent
    <3>4. CASE \E k \in Ids : Cancel(k)
      <4>1. PICK k \in Ids : rows' = [rows EXCEPT ![k].status = "cancelled"]
        BY <3>4 DEF Cancel
      <4> QED BY <1>1, <4>1 DEF Inv, TypeOK, Row
    <3>5. CASE \E o \in Owners : CancelOwner(o)
      <4>1. PICK o \in Owners : CancelOwner(o)
        BY <3>5
      <4>2. i \notin Active(rows)
        BY <1>1 DEF Active
      <4>3. rows'[i] = rows[i]
        BY <4>1, <4>2 DEF CancelOwner
      <4> QED BY <1>1, <4>3
    <3>6. CASE \E d \in polled : DispatchRevoked(d) \/ Consume(d)
      <4>1. PICK d \in polled : DispatchRevoked(d) \/ Consume(d)
        BY <3>6
      <4>2. rows[d.id].status = "active"
        BY <4>1 DEF DispatchRevoked, Consume, StillDue
      <4>3. rows'[i] = rows[i]
        BY <1>1, <4>1, <4>2 DEF DispatchRevoked, Consume, Inv, TypeOK
      <4> QED BY <1>1, <4>3
    <3>7. CASE \E d \in firing : Start(d)
      <4>1. PICK d \in firing : \E mark \in StartMarks(d.id) : rows' = Marked(d.id, mark)
        BY <3>7 DEF Start
      <4>2. rows'[i] = rows[i]
        BY <1>1, <4>1 DEF Marked, Inv, TypeOK
      <4> QED BY <1>1, <4>2
    <3> QED BY <1>1, <2>1, <3>1, <3>2, <3>3, <3>4, <3>5, <3>6, <3>7
            DEF Next, SetClock, Open, Crash, Poll, PreviewSchedule, Disable, Enable, DispatchStale,
                StartThenDie, vars
  <2>3. PICK k \in Ids : Activate(k)
    BY <2>2
  <2>a. Inv
    BY <1>1
  <2>b. \A j \in Ids \ {k} : rows'[j] \in {rows[j], Absent}
    BY <2>3, <2>a, ActivateEffect
  <2>4. k = i
    BY <1>1, <2>b DEF Absent
  <2>c. /\ now >= previews[i].anchor /\ previews[i].first > now
        /\ \/ /\ rows'[i].next = NextAt(previews[i].spec, now, previews[i].anchor)
              /\ rows'[i].next # 0
           \/ rows'[i] \in {rows[i], Absent}
    BY <2>3, <2>4, <2>a, ActivateEffect
  <2>5. /\ rows'[i].next = NextAt(previews[i].spec, now, previews[i].anchor)
        /\ rows'[i].next # 0
    BY <1>1, <2>c DEF Absent
  <2>6. previews[i].first = NextAt(previews[i].spec, previews[i].anchor, previews[i].anchor)
    BY <1>1 DEF RecordInv, PreviewInv
  <2>7. /\ previews[i].spec \in Specs /\ previews[i].anchor \in Nat /\ now \in Nat
        /\ previews[i].first \in Nat
    BY <2>a DEF Inv, TypeOK, Preview
  <2>8. NextAt(previews[i].spec, now, previews[i].anchor) \in
          {0, NextAt(previews[i].spec, previews[i].anchor, previews[i].anchor)}
    <3>1. previews[i].anchor <= now /\ now < NextAt(previews[i].spec, previews[i].anchor, previews[i].anchor)
      BY <2>c, <2>6, <2>7
    <3> QED BY <2>7, <3>1, NextIsFirst
  <2> QED BY <2>5, <2>6, <2>8
<1>2. Inv /\ Inv' /\ RecordInv /\ [Next]_vars =>
        [\A i \in Ids : rows[i].status = "absent" /\ previews[i] # NoPreview /\
                        rows'[i].status = "active" => rows'[i].next = previews[i].first]_vars
  BY <1>1
<1> QED BY <1>2, InvHolds, RecordHolds, PTL DEF Spec, PreviewHonoured

=============================================================================
