----------------------------- MODULE OwnerFiles ------------------------------
(***************************************************************************)
(* Files an owner uploads: chat attachments (server/attachments.rs) and the    *)
(* notes corpus (server/notes_corpus.rs), their upload routes, and the cleanup *)
(* that deleting an account or clearing its sessions starts.  A store is a     *)
(* directory of blobs and an index; blobs are written before the index that    *)
(* lists them, removed before the index that drops them, and any disk step may *)
(* fail or be the last before the process ends.                                *)
(***************************************************************************)
EXTENDS Integers, FiniteSets, Sequences, FiniteSetsExt, SequencesExt

CONSTANTS
    FileOwners,       \* accounts
    Requests,         \* upload slots
    Bodies,           \* request bodies: [declared, size, parts]
    MaxRequestBytes, MaxFileBytes, MaxFilesPerRequest, HomeQuotaBytes, MaxHomeBlobs,
    UploadPermits, OwnerNotes,   \* max_concurrent uploads or ingests, max_files_per_owner
    MaxBlobsEver, MaxDiskFaults, MaxFileCrashes   \* bounds

ASSUME OwnerFilesAssumption ==
    /\ {MaxRequestBytes, MaxFileBytes, MaxFilesPerRequest, HomeQuotaBytes, MaxHomeBlobs, UploadPermits, OwnerNotes} \subseteq Nat
    /\ \A b \in Bodies : b.declared \in Nat \cup {-1} /\ b.size \in Nat
    /\ "removal" \notin Requests

VARIABLES
    rows,         \* per store, the index: blobs [id, owner, data, size]
    files,        \* per store, the blobs on disk
    storeOp,      \* per store, what its lock protects
    upload,       \* per slot, the request
    removal,      \* the account deletion or session clear under way
    liveOwners,   \* accounts that exist
    filesUp,      \* the server serves
    diskClean,    \* no disk step failed since it started
    halfRemoved,  \* history: blobs whose removal a crash or a failed index write cut short
    altered,      \* history: blobs changed in place by another hand
    blobsEver, diskFaults, fileCrashes

fileVars == <<rows, files, storeOp, upload, removal, liveOwners, filesUp, diskClean, halfRemoved, altered, blobsEver, diskFaults, fileCrashes>>

Stores == {"attachments", "notes"}
NoLength == -1   \* no Content-Length
FreeStore == [kind |-> "free", req |-> "none", owner |-> "none", todo |-> {}, done |-> {}]
NoUpload == [pc |-> "idle", store |-> "notes", owner |-> "none", body |-> [declared |-> NoLength, size |-> 0, parts |-> <<>>]]
NoRemoval == [pc |-> "idle", owner |-> "none", clear |-> FALSE]
HeldBlobs(s) == storeOp[s].kind # "free"
SizeOf(blobs) == MapThenSumSet(LAMBDA b : b.size, blobs)

DiskFails == diskFaults < MaxDiskFaults /\ diskFaults' = diskFaults + 1 /\ diskClean' = FALSE
DiskWorks == UNCHANGED <<diskFaults, diskClean>>
Accounts == UNCHANGED <<liveOwners, filesUp>>
Outside == UNCHANGED <<altered, fileCrashes>>

(* ------------------------------- requests -------------------------------- *)
(* check_content_length: a declared length is within the limit and true.          *)
LengthHolds(b) ==
    /\ b.declared = NoLength \/ (b.declared <= MaxRequestBytes /\ b.declared = b.size)
    /\ b.size <= MaxRequestBytes
(* parse_multipart_limited: the parts that carry a filename, at least one and at    *)
(* most the request's limit; an unterminated part refuses the body.                *)
FileParts(b) == SelectSeq(b.parts, LAMBDA p : p.named)
Parses(b) == (\A i \in DOMAIN b.parts : b.parts[i].terminated) /\ Len(FileParts(b)) \in 1 .. MaxFilesPerRequest
(* classify_file and classify_note: size, allowed extension, and bytes that are     *)
(* what the extension says; notes take plain text only.                            *)
NoteTypes == {"md", "txt"}
TextTypes == {"txt", "md", "json", "csv", "log", "docx"}
Classifies(s, p) ==
    /\ p.size \in 1 .. MaxFileBytes /\ p.genuine
    /\ p.ext \in (IF s = "notes" THEN NoteTypes ELSE TextTypes)

(* upload_attachments, ingest_notes: the permit precedes the body.                 *)
InFlight(s) == Cardinality({r \in Requests : upload[r].pc # "idle" /\ upload[r].store = s})
BeginUpload(r) ==
    /\ filesUp /\ upload[r].pc = "idle" /\ blobsEver < MaxBlobsEver
    /\ \E s \in Stores, o \in liveOwners, b \in Bodies :
         /\ InFlight(s) < UploadPermits
         /\ (s = "attachments" /\ b.declared # NoLength) => b.declared <= MaxRequestBytes
         /\ upload' = [upload EXCEPT ![r] = [pc |-> "body", store |-> s, owner |-> o, body |-> b]]
    /\ DiskWorks /\ Accounts /\ Outside /\ UNCHANGED <<rows, files, storeOp, removal, halfRemoved, blobsEver>>
(* The body arrives, times out or its client leaves; only a whole and well-formed   *)
(* one reaches the blocking pool, where it keeps the permit.                        *)
BodyEnds(r) ==
    /\ filesUp /\ upload[r].pc = "body"
    /\ \E arrived \in BOOLEAN :
         upload' = [upload EXCEPT ![r] =
             IF /\ arrived /\ Parses(@.body) /\ @.body.size <= MaxRequestBytes
                /\ @.store = "attachments" => LengthHolds(@.body)
             THEN [@ EXCEPT !.pc = "queued"] ELSE NoUpload]
    /\ DiskWorks /\ Accounts /\ Outside /\ UNCHANGED <<rows, files, storeOp, removal, halfRemoved, blobsEver>>

(* --------------------------------- store --------------------------------- *)
(* The checks store_guarded and NotesCorpus::store make under the lock: only the    *)
(* attachment store looks at the account again.                                    *)
MutOwnerLive(s, o) == TRUE
OwnerLive(s, o) == s = "attachments" => o \in liveOwners
QuotaLeft(s, o, parts) ==
    LET incoming == FoldSeq(LAMBDA p, n : n + p.size, 0, parts) IN
    /\ SizeOf(rows[s]) + incoming <= HomeQuotaBytes
    /\ IF s = "attachments" THEN Cardinality(rows[s]) + Len(parts) <= MaxHomeBlobs
       ELSE Cardinality({b \in rows[s] : b.owner = o}) + Len(parts) <= OwnerNotes
Admitted(r) ==
    LET u == upload[r]  ps == FileParts(u.body) IN
    /\ \A i \in DOMAIN ps : Classifies(u.store, ps[i])
    /\ OwnerLive(u.store, u.owner) /\ QuotaLeft(u.store, u.owner, ps)
NewBlobs(o, parts) == {[id |-> blobsEver + i, owner |-> o, data |-> parts[i].data, size |-> parts[i].size] : i \in 1 .. Len(parts)}
StoreStarts(r) ==
    LET u == upload[r]  ps == FileParts(u.body) IN
    /\ filesUp /\ u.pc = "queued" /\ ~HeldBlobs(u.store)
    /\ IF Admitted(r)
       THEN /\ storeOp' = [storeOp EXCEPT ![u.store] = [kind |-> "store", req |-> r, owner |-> u.owner, todo |-> NewBlobs(u.owner, ps), done |-> {}]]
            /\ upload' = [upload EXCEPT ![r].pc = "storing"] /\ blobsEver' = blobsEver + Len(ps)
       ELSE upload' = [upload EXCEPT ![r] = NoUpload] /\ UNCHANGED <<storeOp, blobsEver>>
    /\ DiskWorks /\ Accounts /\ Outside /\ UNCHANGED <<rows, files, removal, halfRemoved>>
StoreDone(s) == storeOp' = [storeOp EXCEPT ![s] = FreeStore] /\ upload' = [upload EXCEPT ![storeOp[s].req] = NoUpload]
(* unlink_all: what was written goes again, as far as the disk allows.             *)
UndoWrite(s) == \E left \in SUBSET storeOp[s].done : files' = [files EXCEPT ![s] = @ \ (storeOp[s].done \ left)]
(* The blobs are written in the order of their parts, which is that of their ids. *)
WriteBlob(s) ==
    /\ filesUp /\ storeOp[s].kind = "store" /\ storeOp[s].todo # {}
    /\ \/ /\ \E b \in storeOp[s].todo :
               /\ \A c \in storeOp[s].todo : b.id <= c.id
               /\ files' = [files EXCEPT ![s] = @ \cup {b}]
               /\ storeOp' = [storeOp EXCEPT ![s].todo = @ \ {b}, ![s].done = @ \cup {b}]
          /\ DiskWorks /\ UNCHANGED upload
       \/ DiskFails /\ UndoWrite(s) /\ StoreDone(s)
    /\ Accounts /\ Outside /\ UNCHANGED <<rows, removal, halfRemoved, blobsEver>>
(* save_manifest: the index lists the blobs once they are all on disk.             *)
ListBlobs(s) ==
    /\ filesUp /\ storeOp[s].kind = "store" /\ storeOp[s].todo = {}
    /\ \/ rows' = [rows EXCEPT ![s] = @ \cup storeOp[s].done] /\ DiskWorks /\ UNCHANGED files
       \/ DiskFails /\ UndoWrite(s) /\ UNCHANGED rows
    /\ StoreDone(s) /\ Accounts /\ Outside /\ UNCHANGED <<removal, halfRemoved, blobsEver>>

(* -------------------------------- removal -------------------------------- *)
(* delete_user: the account goes, then its attachments, its notes, and last the     *)
(* attachments of every account that is gone.  clear_sessions: notes, attachments.  *)
DeleteAccount ==
    /\ filesUp /\ removal.pc = "idle"
    /\ \E o \in liveOwners : liveOwners' = liveOwners \ {o} /\ removal' = [pc |-> "attachments", owner |-> o, clear |-> FALSE]
    /\ DiskWorks /\ Outside /\ UNCHANGED <<rows, files, storeOp, upload, filesUp, halfRemoved, blobsEver>>
ClearSessions ==
    /\ filesUp /\ removal.pc = "idle"
    /\ \E o \in liveOwners : removal' = [pc |-> "notes", owner |-> o, clear |-> TRUE]
    /\ DiskWorks /\ Accounts /\ Outside /\ UNCHANGED <<rows, files, storeOp, upload, halfRemoved, blobsEver>>
AfterRemoval(r) ==
    CASE r.pc = "attachments" -> IF r.clear THEN NoRemoval ELSE [r EXCEPT !.pc = "notes"]
      [] r.pc = "notes" -> [r EXCEPT !.pc = IF r.clear THEN "attachments" ELSE "sweep"]
      [] r.pc = "sweep" -> NoRemoval
(* Whose rows this step removes; sweep_dead_owners reads the index before it locks   *)
(* it again for each dead owner.                                                   *)
Doomed(s, r) == {b \in rows[s] : IF r.pc = "sweep" THEN b.owner \notin liveOwners ELSE b.owner = r.owner}
RemovalStarts ==
    LET s == IF removal.pc = "notes" THEN "notes" ELSE "attachments" IN
    /\ filesUp /\ removal.pc # "idle" /\ ~HeldBlobs(s) /\ (\A t \in Stores : storeOp[t].req # "removal")
    /\ IF removal.pc = "sweep" /\ Doomed(s, removal) = {}
       THEN removal' = NoRemoval /\ UNCHANGED storeOp
       ELSE /\ storeOp' = [storeOp EXCEPT ![s] = [kind |-> "unlink", req |-> "removal", owner |-> removal.owner,
                                                 todo |-> Doomed(s, removal), done |-> Doomed(s, removal)]]
            /\ UNCHANGED removal
    /\ DiskWorks /\ Accounts /\ Outside /\ UNCHANGED <<rows, files, upload, halfRemoved, blobsEver>>
(* delete_note: one of the owner's notes, whatever larger removal goes on.         *)
DeleteNote ==
    /\ filesUp /\ ~HeldBlobs("notes")
    /\ \E b \in rows["notes"] :
         /\ b.owner \in liveOwners
         /\ storeOp' = [storeOp EXCEPT !["notes"] = [kind |-> "unlink", req |-> "none", owner |-> b.owner, todo |-> {b}, done |-> {b}]]
    /\ DiskWorks /\ Accounts /\ Outside /\ UNCHANGED <<rows, files, upload, removal, halfRemoved, blobsEver>>
(* A row whose file would not go keeps its place in the attachment index; the notes  *)
(* index drops the row whatever became of the file.                                *)
KeepsRow(s) == s = "attachments"
UnlinkBlob(s) ==
    /\ filesUp /\ storeOp[s].kind = "unlink"
    /\ \E b \in storeOp[s].todo :
         LET gone == {f \in files[s] : f.id = b.id} IN
         \/ /\ files' = [files EXCEPT ![s] = @ \ gone] /\ DiskWorks
            /\ storeOp' = [storeOp EXCEPT ![s].todo = @ \ {b}]
         \/ /\ gone # {} /\ DiskFails /\ UNCHANGED files
            /\ storeOp' = [storeOp EXCEPT ![s].todo = @ \ {b}, ![s].done = IF KeepsRow(s) THEN @ \ {b} ELSE @]
    /\ Accounts /\ Outside /\ UNCHANGED <<rows, upload, removal, halfRemoved, blobsEver>>
DropRows(s) ==
    /\ filesUp /\ storeOp[s].kind = "unlink" /\ storeOp[s].todo = {}
    /\ \/ rows' = [rows EXCEPT ![s] = @ \ storeOp[s].done] /\ DiskWorks /\ UNCHANGED halfRemoved
       \/ DiskFails /\ UNCHANGED rows /\ halfRemoved' = halfRemoved \cup storeOp[s].done
    /\ storeOp' = [storeOp EXCEPT ![s] = FreeStore]
    /\ removal' = IF storeOp[s].req = "removal" THEN AfterRemoval(removal) ELSE removal
    /\ Accounts /\ Outside /\ UNCHANGED <<files, upload, blobsEver>>

(* --------------------------- crash and startup --------------------------- *)
FilesCrash ==
    /\ filesUp /\ fileCrashes < MaxFileCrashes /\ fileCrashes' = fileCrashes + 1 /\ filesUp' = FALSE
    /\ halfRemoved' = halfRemoved \cup UNION {IF storeOp[s].kind = "unlink" THEN storeOp[s].done ELSE {} : s \in Stores}
    /\ storeOp' = [s \in Stores |-> FreeStore] /\ upload' = [r \in Requests |-> NoUpload] /\ removal' = NoRemoval
    /\ DiskWorks /\ UNCHANGED <<rows, files, liveOwners, altered, blobsEver>>
(* sweep_unreferenced_files and sweep_dead_owners, for attachments only; a failure   *)
(* is logged and the server starts all the same.                                   *)
Listed(s, f) == \E b \in rows[s] : b.id = f.id
Swept(fs) == {f \in fs : Listed("attachments", f)}
FilesRestart ==
    /\ ~filesUp /\ filesUp' = TRUE
    /\ \/ /\ diskClean' = TRUE /\ UNCHANGED diskFaults
          /\ rows' = [rows EXCEPT !["attachments"] = {b \in @ : b.owner \in liveOwners}]
          /\ files' = [files EXCEPT !["attachments"] = {f \in Swept(@) : f.owner \in liveOwners}]
       \/ DiskFails /\ UNCHANGED <<rows, files>>
    /\ UNCHANGED <<storeOp, upload, removal, liveOwners, altered, halfRemoved, blobsEver, fileCrashes>>
(* Another hand edits a blob in place.                                             *)
AlterFile ==
    /\ altered = {}
    /\ \E s \in Stores : \E f \in files[s] :
         /\ f.data # "tampered" /\ Listed(s, f)
         /\ files' = [files EXCEPT ![s] = (@ \ {f}) \cup {[f EXCEPT !.data = "tampered"]}] /\ altered' = altered \cup {f}
    /\ DiskWorks /\ Accounts /\ UNCHANGED <<rows, storeOp, upload, removal, halfRemoved, blobsEver, fileCrashes>>

OwnerFilesInit ==
    /\ rows = [s \in Stores |-> {}] /\ files = [s \in Stores |-> {}] /\ storeOp = [s \in Stores |-> FreeStore]
    /\ upload = [r \in Requests |-> NoUpload] /\ removal = NoRemoval /\ liveOwners = FileOwners /\ filesUp = TRUE
    /\ diskClean = TRUE /\ halfRemoved = {} /\ altered = {} /\ blobsEver = 0 /\ diskFaults = 0 /\ fileCrashes = 0
OwnerFilesNext ==
    \/ \E r \in Requests : BeginUpload(r) \/ BodyEnds(r) \/ StoreStarts(r)
    \/ \E s \in Stores : WriteBlob(s) \/ ListBlobs(s) \/ UnlinkBlob(s) \/ DropRows(s)
    \/ DeleteAccount \/ ClearSessions \/ RemovalStarts \/ DeleteNote
    \/ FilesCrash \/ FilesRestart \/ AlterFile
OwnerFilesSpec == OwnerFilesInit /\ [][OwnerFilesNext]_fileVars

(* ------------------------------ properties ------------------------------- *)
(* Types of the stores, their locks, the uploads and the removal.                 *)
OwnerFilesTypeOK ==
    /\ \A s \in Stores : \A b \in rows[s] \cup files[s] : b.owner \in FileOwners /\ b.id \in 1 .. (MaxBlobsEver + MaxFilesPerRequest * Cardinality(Requests))
    /\ \A s \in Stores : storeOp[s].kind \in {"free", "store", "unlink"}
    /\ \A r \in Requests : upload[r].pc \in {"idle", "body", "queued", "storing"}
    /\ removal.pc \in {"idle", "attachments", "notes", "sweep"} /\ liveOwners \subseteq FileOwners
    /\ filesUp \in BOOLEAN /\ diskClean \in BOOLEAN

(* verified_texts: the row's own file with the row's length and digest, or nothing. *)
Verified(s, b) == \E f \in files[s] : f.id = b.id /\ f.owner = b.owner /\ f.size = b.size /\ f.data = b.data
(* store writes blobs before the index and removals drop the index row last: a       *)
(* listed blob can be read back as uploaded unless its removal is under way or was   *)
(* cut short, or another hand changed it.                                           *)
ListedIsReadable ==
    \A s \in Stores : \A b \in rows[s] :
        Verified(s, b) \/ b \in halfRemoved \cup altered \/ (storeOp[s].kind = "unlink" /\ b \in storeOp[s].done)
(* store_guarded, delete_user and the startup sweeps: once a deletion is finished     *)
(* nothing of the account is left in the attachment store, and no file there lacks a  *)
(* row, even for uploads in flight across the deletion and crashes between the steps; *)
(* only a disk step that failed since startup may leave something.                   *)
DeadOwnerLeavesNothing ==
    (filesUp /\ diskClean /\ removal.pc = "idle" /\ ~HeldBlobs("attachments")) =>
        /\ \A b \in rows["attachments"] \cup files["attachments"] : b.owner \in liveOwners
        /\ \A f \in files["attachments"] : Listed("attachments", f)
==============================================================================
