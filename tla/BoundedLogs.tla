----------------------------- MODULE BoundedLogs -----------------------------
(***************************************************************************)
(* The audit log and the spend ledger (common/bounded_log.rs,                *)
(* common/audit.rs, common/file_lease.rs, llm/spend.rs): two JSONL files,     *)
(* each a current generation and one previous, appended to by the server and  *)
(* by the agentic child under an OS lease; the server's audit lines go        *)
(* through one writer thread, flushed before a child starts; and the          *)
(* lease-free reader that prices the ledger.                                   *)
(*                                                                            *)
(* A record is a number, a file a sequence of lines, a line the records whose *)
(* bytes it holds: more than one when an earlier write was cut short of its    *)
(* newline.  Sizes are counted in records.                                     *)
(***************************************************************************)
EXTENDS Integers, Sequences, FiniteSets, SequencesExt, FiniteSetsExt

CONSTANTS
    MaxFile,      \* logging.max_file_bytes, in records
    QueueLines,   \* logging.audit_queue_lines
    UsageOf,      \* what the provider reported for record n: a row of the ledger
    RateTable,    \* USD per token of each model the table knows
    Unpriced,     \* no amount
    MaxRecords, MaxLogFaults, MaxChildren   \* bounds

ASSUME LogsAssumption ==
    /\ MaxFile \in Nat \ {0} /\ QueueLines \in Nat \ {0}
    /\ MaxRecords \in Nat /\ MaxLogFaults \in Nat /\ MaxChildren \in Nat

VARIABLES
    logFile,   \* per path: [cur, prev], each [there, lines, bytes]
    lease,     \* per path: the thread holding <path>.lock, "none" when free
    queue,     \* the audit writer's channel: records, and negative numbers for flush barriers
    append,    \* per thread: the append in progress
    flush,     \* the flush before a child: "no", "waiting", "queued", "done", "late"
    before,    \* audit records submitted before that flush
    child,     \* "none", "running"
    wrote,     \* history, per path: records whose bytes reached the file, in order
    logged,    \* records made so far
    summary,   \* summarize_file in progress or just answered
    logFaults, children

logsVars == <<logFile, lease, queue, append, flush, before, child, wrote, logged, summary, logFaults, children>>

LogPaths == {"audit", "spend"}
Threads == {"writer", "request", "child"}   \* the audit writer, a request thread, the agentic child
Gone == [there |-> FALSE, lines |-> <<>>, bytes |-> 0]
Rest == [pc |-> "idle", path |-> "audit", rec |-> 0]
NoSummary == [pc |-> "none", read |-> <<>>, complete |-> FALSE, rows |-> {}, had |-> {}, usd |-> <<>>]

RecordsOf(file) == UNION {ToSet(file.lines[i].recs) : i \in DOMAIN file.lines}

(* ---------------------------- one append ---------------------------------- *)
(* Sink::append holds the process's mutex for one non-blocking attempt of         *)
(* bounded_log::append; writer and request share it, the child has its own.        *)
SinkFree(t) == t = "child" \/ \A u \in {"writer", "request"} \ {t} : append[u].pc \in {"idle", "try"}
LeaseFree(path, t) == lease[path] = "none"
Settle(t) == append' = [append EXCEPT ![t] = Rest]
To(t, pc) == append' = [append EXCEPT ![t].pc = pc]
Unlock(t) == lease' = [lease EXCEPT ![append[t].path] = IF @ = t THEN "none" ELSE @]
QueueSide == UNCHANGED <<queue, flush, before, child, logged, summary, children>>

(* refuse_parent_components and the size check pass; FileLease::acquire.          *)
TryLease(t) ==
    /\ append[t].pc = "try" /\ SinkFree(t) /\ LeaseFree(append[t].path, t)
    /\ lease' = [lease EXCEPT ![append[t].path] = t]
    /\ To(t, "open")
    /\ UNCHANGED <<logFile, wrote, logFaults>> /\ QueueSide
(* WouldBlock, and the deadline stamped at submission has passed: refused.        *)
GiveUp(t) ==
    /\ append[t].pc = "try" /\ SinkFree(t) /\ ~LeaseFree(append[t].path, t)
    /\ Settle(t)
    /\ UNCHANGED <<logFile, lease, wrote, logFaults>> /\ QueueSide

(* Opening creates the file; a line that would pass the bound rotates first.      *)
Opened(file) == [file EXCEPT !.there = TRUE]
NeedsRotation(file) == file.bytes + 1 > MaxFile
OpenLog(t) ==
    LET p == append[t].path IN
    /\ append[t].pc \in {"open", "reopen"}
    /\ logFile' = [logFile EXCEPT ![p].cur = Opened(@)]
    /\ To(t, IF append[t].pc = "open" /\ NeedsRotation(logFile[p].cur) THEN "remove" ELSE "write")
    /\ UNCHANGED <<lease, wrote, logFaults>> /\ QueueSide
RemovePrevious(t) ==
    /\ append[t].pc = "remove"
    /\ logFile' = [logFile EXCEPT ![append[t].path].prev = Gone]
    /\ To(t, "rename")
    /\ UNCHANGED <<lease, wrote, logFaults>> /\ QueueSide
RenameCurrent(t) ==
    /\ append[t].pc = "rename"
    /\ logFile' = [logFile EXCEPT ![append[t].path] = [cur |-> Gone, prev |-> @.cur]]
    /\ To(t, "reopen")
    /\ UNCHANGED <<lease, wrote, logFaults>> /\ QueueSide
(* write_all(line): onto the last line when that one was left open.               *)
Joined(lines, rec) ==
    IF lines # <<>> /\ ~Last(lines).closed
    THEN [lines EXCEPT ![Len(lines)].recs = Append(@, rec)]
    ELSE Append(lines, [recs |-> <<rec>>, closed |-> FALSE, cut |-> FALSE])
PutRow(t, cut) ==
    LET p == append[t].path  lines == Joined(logFile[p].cur.lines, append[t].rec) IN
    /\ append[t].pc = "write"
    /\ logFile' = [logFile EXCEPT ![p].cur = [there |-> TRUE, bytes |-> @.bytes + 1,
                                             lines |-> IF cut THEN [lines EXCEPT ![Len(lines)].cut = TRUE] ELSE lines]]
    /\ wrote' = [wrote EXCEPT ![p] = Append(@, append[t].rec)]
WriteLine(t) == PutRow(t, FALSE) /\ To(t, "newline") /\ UNCHANGED <<lease, logFaults>> /\ QueueSide
WriteNewline(t) ==
    LET p == append[t].path  lines == logFile[p].cur.lines IN
    /\ append[t].pc = "newline"
    /\ logFile' = [logFile EXCEPT ![p].cur.lines = [lines EXCEPT ![Len(lines)].closed = TRUE]]
    /\ Unlock(t) /\ Settle(t)
    /\ UNCHANGED <<wrote, logFaults>> /\ QueueSide

(* Any step of the file may fail: the record is refused, the lease dropped.       *)
FileFault(t) ==
    /\ logFaults < MaxLogFaults /\ logFaults' = logFaults + 1
    /\ append[t].pc \in {"open", "remove", "rename", "reopen", "write", "newline"}
    /\ \/ UNCHANGED <<logFile, wrote>>
       \/ PutRow(t, TRUE)                \* a disk filling inside the line
    /\ Unlock(t) /\ Settle(t) /\ QueueSide

(* ------------------------- the audit writer ------------------------------- *)
(* Audit::log: redacted and serialised, then queued; a full queue drops the line. *)
MutLog ==
    /\ logged < MaxRecords /\ logged' = logged + 1
    /\ queue' = Append(queue, logged + 1)
    /\ UNCHANGED <<logFile, lease, append, flush, before, child, wrote, summary, logFaults, children>>
QueueRoom == Len(queue) < QueueLines
Log ==
    /\ logged < MaxRecords /\ logged' = logged + 1
    /\ queue' = IF QueueRoom THEN Append(queue, logged + 1) ELSE queue
    /\ UNCHANGED <<logFile, lease, append, flush, before, child, wrote, summary, logFaults, children>>
(* Each flush has a reply channel of its own: the barrier of the flush before the  *)
(* next child, told apart from those that earlier, late flushes left behind.       *)
Barrier == -(children + 1)
(* write_jobs, in submission order; a barrier is answered in its turn, to whoever  *)
(* still waits for it.                                                             *)
TakeJob ==
    /\ append["writer"].pc = "idle" /\ queue # <<>>
    /\ queue' = Tail(queue)
    /\ \/ Head(queue) > 0 /\ append' = [append EXCEPT !["writer"] = [pc |-> "try", path |-> "audit", rec |-> Head(queue)]]
          /\ UNCHANGED flush
       \/ Head(queue) < 0 /\ flush' = (IF flush = "queued" /\ Head(queue) = Barrier THEN "done" ELSE flush)
          /\ UNCHANGED append
    /\ UNCHANGED <<logFile, lease, before, child, wrote, logged, summary, logFaults, children>>
(* flush_async: the barrier waits for room, then for its answer, FLUSH_WAIT in all. *)
Flush ==
    /\ flush = "no" /\ child = "none" /\ children < MaxChildren
    /\ flush' = "waiting"
    /\ before' = {r \in ToSet(queue) \cup {append["writer"].rec} : r > 0}
    /\ UNCHANGED <<logFile, lease, queue, append, child, wrote, logged, summary, logFaults, children>>
MutSendBarrier ==
    /\ flush = "waiting" /\ QueueRoom
    /\ queue' = <<Barrier>> \o queue /\ flush' = "queued"
    /\ UNCHANGED <<logFile, lease, append, before, child, wrote, logged, summary, logFaults, children>>
SendBarrier ==
    /\ flush = "waiting" /\ QueueRoom
    /\ queue' = Append(queue, Barrier) /\ flush' = "queued"
    /\ UNCHANGED <<logFile, lease, append, before, child, wrote, logged, summary, logFaults, children>>
FlushLate ==
    /\ flush \in {"waiting", "queued"} /\ flush' = "late"
    /\ UNCHANGED <<logFile, lease, queue, append, before, child, wrote, logged, summary, logFaults, children>>
(* agentic_call: flush, then spawn.                                                *)
StartChild ==
    /\ flush \in {"done", "late"} /\ child = "none"
    /\ child' = "running" /\ children' = children + 1
    /\ UNCHANGED <<logFile, lease, queue, append, flush, before, wrote, logged, summary, logFaults>>
(* The child returns, or is killed between two of its steps: the lease goes with it. *)
ChildEnds ==
    /\ child = "running" /\ child' = "none" /\ flush' = "no" /\ before' = {}
    /\ lease' = [p \in LogPaths |-> IF lease[p] = "child" THEN "none" ELSE lease[p]]
    /\ append' = [append EXCEPT !["child"] = Rest]
    /\ UNCHANGED <<logFile, queue, wrote, logged, summary, logFaults, children>>
(* Inline appends: spend::record on a request thread, and everything the child logs. *)
Submit(t, path) ==
    /\ append[t].pc = "idle" /\ logged < MaxRecords /\ logged' = logged + 1
    /\ append' = [append EXCEPT ![t] = [pc |-> "try", path |-> path, rec |-> logged + 1]]
    /\ UNCHANGED <<logFile, lease, queue, flush, before, child, wrote, summary, logFaults, children>>
RecordSpend == Submit("request", "spend")
ChildLogs == child = "running" /\ \E p \in LogPaths : Submit("child", p)

(* --------------------------- pricing a row -------------------------------- *)
(* parse_*_usage keeps only counts the provider reported; absent is Unpriced.     *)
Or0(n) == IF n = Unpriced THEN 0 ELSE n
Less(a, b) == IF a > b THEN a - b ELSE 0
BilledOutput(u) == Or0(u.output) + Or0(u.reasoning)
AllCountsNone(u) == \A f \in {"input", "output", "cached", "reasoning", "write5m", "write1h", "written", "cacheRead"} : u[f] = Unpriced
GrokTable(u, r) ==
    LET long == Or0(u.input) >= r.threshold  k == IF long THEN 2 ELSE 1 IN
    Less(Or0(u.input), Or0(u.cached)) * r.input[k] + Or0(u.cached) * r.cached[k] + BilledOutput(u) * r.output[k]
ClaudeTable(u, r) ==
    LET ttl == u.write5m # Unpriced \/ u.write1h # Unpriced
        writes == IF ttl THEN (Or0(u.write5m) + Less(Or0(u.written), Or0(u.write5m) + Or0(u.write1h))) * r.write + Or0(u.write1h) * r.write1h
                  ELSE Or0(u.written) * r.write
    IN Or0(u.input) * r.input[1] + writes + Or0(u.cacheRead) * r.cacheRead + BilledOutput(u) * r.output[1]
(* The rate table's row of a model.                                               *)
HasRate(model) == model \in DOMAIN RateTable
EstimateUsd(u) ==
    CASE u.provider = "local" -> Unpriced
      [] u.provider # "local" /\ u.ticks # Unpriced -> u.ticks
      [] u.provider # "local" /\ u.ticks = Unpriced /\ AllCountsNone(u) -> Unpriced
      [] OTHER -> IF ~HasRate(u.model) THEN Unpriced
                  ELSE IF u.provider = "claude" THEN ClaudeTable(u, RateTable[u.model]) ELSE GrokTable(u, RateTable[u.model])
(* parse_provider_usage: each provider's own counts; whatever else it sent is none. *)
CountsOf(provider) == IF provider = "claude" THEN {"input", "output", "written", "cacheRead", "write5m", "write1h"}
                      ELSE {"input", "output", "cached", "reasoning", "ticks"}
ParsedUsage(u) == [f \in DOMAIN u |-> IF f \in CountsOf(u.provider) \cup {"provider", "model"} THEN u[f] ELSE Unpriced]
(* A group's total is lost with its first unpriced row.                           *)
GroupOf(u) == <<u.provider, u.model>>
AddUsd(acc, usd) == IF acc = Unpriced \/ usd = Unpriced THEN Unpriced ELSE acc + usd
GroupTotal(rows, g) ==
    LET total[n \in 0..MaxRecords] ==
          IF n = 0 THEN 0
          ELSE IF n \in rows /\ GroupOf(UsageOf[n]) = g THEN AddUsd(total[n - 1], EstimateUsd(ParsedUsage(UsageOf[n])))
          ELSE total[n - 1]
    IN total[MaxRecords]
Groups(rows) == [g \in {GroupOf(UsageOf[n]) : n \in rows} |-> GroupTotal(rows, g)]

(* --------------------------- the summary ---------------------------------- *)
(* valid_ledger_row: one whole record on the line; anything else is skipped.      *)
RowOk(line) == Len(line.recs) = 1 /\ ~line.cut
ReadRows(file, ok) ==
    [status |-> IF ~file.there THEN "missing" ELSE IF ok THEN "read" ELSE "unreadable",
     rows |-> IF ok THEN {line.recs[1] : line \in {l \in ToSet(file.lines) : RowOk(l)}} ELSE {},
     skipped |-> IF ok THEN Cardinality({i \in DOMAIN file.lines : ~RowOk(file.lines[i])}) ELSE 0,
     had |-> RecordsOf(file)]
SummaryStep(s, ok) ==
    /\ summary' = s
    /\ IF ok THEN UNCHANGED logFaults ELSE logFaults < MaxLogFaults /\ logFaults' = logFaults + 1
    /\ UNCHANGED <<logFile, lease, queue, append, flush, before, child, wrote, logged, children>>
ReadCurrent ==
    /\ summary.pc = "none"
    /\ \E ok \in BOOLEAN : SummaryStep([NoSummary EXCEPT !.pc = "current", !.read = <<ReadRows(logFile["spend"].cur, ok)>>], ok)
Complete(files) ==
    /\ \A i \in 1..2 : files[i].status \in {"read", "missing"} /\ files[i].skipped = 0
    /\ ~(files[1].status = "missing" /\ files[2].status # "missing")
Summarize ==
    /\ summary.pc = "current"
    /\ \E ok \in BOOLEAN :
         LET files == Append(summary.read, ReadRows(logFile["spend"].prev, ok))
             rows == files[1].rows \cup files[2].rows
         IN SummaryStep([pc |-> "done", read |-> <<>>, complete |-> Complete(files), rows |-> rows,
                         had |-> files[1].had \cup files[2].had, usd |-> Groups(rows)], ok)
Answered == summary.pc = "done" /\ SummaryStep(NoSummary, TRUE)

LogsInit ==
    /\ logFile = [p \in LogPaths |-> [cur |-> Gone, prev |-> Gone]]
    /\ lease = [p \in LogPaths |-> "none"] /\ queue = <<>> /\ append = [t \in Threads |-> Rest]
    /\ flush = "no" /\ before = {} /\ child = "none"
    /\ wrote = [p \in LogPaths |-> <<>>] /\ logged = 0 /\ summary = NoSummary
    /\ logFaults = 0 /\ children = 0

LogsNext ==
    \/ Log \/ TakeJob \/ Flush \/ SendBarrier \/ FlushLate \/ StartChild \/ ChildEnds \/ RecordSpend \/ ChildLogs
    \/ \E t \in Threads : TryLease(t) \/ GiveUp(t) \/ OpenLog(t) \/ RemovePrevious(t) \/ RenameCurrent(t)
                          \/ WriteLine(t) \/ WriteNewline(t) \/ FileFault(t)
    \/ ReadCurrent \/ Summarize \/ Answered

LogsSpec == LogsInit /\ [][LogsNext]_logsVars

(* ------------------------------ properties -------------------------------- *)
(* Every variable keeps its shape; the queue never outgrows its channel.          *)
LogsTypeOK ==
    /\ \A p \in LogPaths : lease[p] \in Threads \cup {"none"} /\ logFile[p].cur.bytes <= MaxFile
    /\ Len(queue) <= QueueLines
    /\ flush \in {"no", "waiting", "queued", "done", "late"} /\ child \in {"none", "running"}
    /\ logged \in 0..MaxRecords

(* Rotation drops only old evidence: whatever order the server and the child append *)
(* in, and wherever a write, a rename or the child itself fails, the newest MaxFile *)
(* records ever written to a log are still in one of its two generations            *)
(* (bounded_log::append_until, FileLease::acquire).                                 *)
NewestKept ==
    \A p \in LogPaths :
        \A i \in DOMAIN wrote[p] : i > Len(wrote[p]) - MaxFile =>
            wrote[p][i] \in RecordsOf(logFile[p].cur) \cup RecordsOf(logFile[p].prev)

(* The child's audit lines follow the server's lines that authorised it: while a    *)
(* child started by an answered flush runs, none of the lines submitted before that *)
(* flush is still to be written (Audit::flush_async, write_jobs, agentic_call).      *)
ChildFollowsServer ==
    child = "running" /\ flush = "done" => before \cap (ToSet(queue) \cup {append["writer"].rec}) = {}

(* A summary that says complete counted every record whose bytes were in the files  *)
(* it read, and a group with a dollar amount holds no row whose price is unknown     *)
(* (read_ledger_rows, summarize_file, valid_ledger_row).                             *)
SummaryIsHonest ==
    /\ summary.complete => summary.rows = summary.had
    /\ \A g \in DOMAIN summary.usd : summary.usd[g] # Unpriced =>
          \A n \in summary.rows : GroupOf(UsageOf[n]) = g => EstimateUsd(ParsedUsage(UsageOf[n])) # Unpriced
==============================================================================
