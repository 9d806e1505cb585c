--------------------------- MODULE ServicesProofs ----------------------------
(***************************************************************************)
(* Proofs about the services of a home: the gateway that accepts machine keys  *)
(* (MachineKeys), the files of an owner (OwnerFiles), the accounts with their  *)
(* sessions (AccountStore), the bounded logs and the spend summary             *)
(* (BoundedLogs) and the request gate (RequestGate); and, with the stores of   *)
(* StoreProofs, what the services promise together (MCServices).               *)
(***************************************************************************)
EXTENDS StoreProofs, FiniteSetTheorems, WellFoundedInduction, TLAPS

-----------------------------------------------------------------------------
(* Numbers.                                                                    *)

(* A set of numbers that is not empty has a smallest one.                       *)
LEMMA SmallestIn == ASSUME NEW T, T \subseteq Nat, T # {} PROVE \E x \in T : \A y \in T : x <= y
<1>1. PICK R : IsWellFoundedOn(R, Nat) /\ \A x, y \in Nat : x < y => <<x, y>> \in R
  <2>1. \A x, y \in Nat : x < y => <<x, y>> \in OpToRel(<, Nat) BY DEF OpToRel
  <2> QED BY <2>1, NatLessThanWellFounded, Zenon
<1>2. IsWellFoundedOn(R, Nat) BY <1>1
<1>3. PICK x \in T : \A y \in T : ~ (<<y, x>> \in R) BY <1>2, WFMin, Zenon
<1>4. ASSUME NEW y \in T PROVE x <= y
  <2>1. x \in Nat /\ y \in Nat OBVIOUS
  <2>2. ~(y < x) BY <1>1, <1>3, <2>1
  <2> QED BY <2>1, <2>2
<1> QED BY <1>4

(* A property of 0 that every number below n hands to the next one holds of     *)
(* all of 0..n: the set of the numbers that have it leaves out none.            *)
LEMMA Climb ==
  ASSUME NEW n \in Nat, NEW T, 0 \in T, \A m \in 1..n : m - 1 \in T => m \in T
  PROVE  0..n \subseteq T
<1> DEFINE Bad == (0..n) \ T
<1>1. SUFFICES ASSUME Bad # {} PROVE FALSE OBVIOUS
<1>2. PICK m \in Bad : \A x \in Bad : m <= x
  <2>1. Bad \subseteq Nat OBVIOUS
  <2> HIDE DEF Bad
  <2> QED BY <1>1, <2>1, SmallestIn
<1>3. m \in 0..n /\ m \notin T OBVIOUS
<1>4. m \in 1..n /\ m - 1 \in 0..n /\ ~(m <= m - 1) BY <1>3
<1>5. m - 1 \notin Bad
  <2> HIDE DEF Bad
  <2> QED BY <1>2, <1>4
<1> QED BY <1>3, <1>4, <1>5

-----------------------------------------------------------------------------
(* Machine keys: for any number of requests, callers that time out and try      *)
(* again, and keys.                                                            *)

CallRecords == [pc : Working \cup {"idle", "refused", "timeout", "ok"}, key : KeyIds \cup {NoKey}, answered : BOOLEAN]
Permits == {c \in Calls : HoldsPermit(c)}
PermitInv == calls \in [Calls -> CallRecords] /\ Cardinality(Permits) <= Concurrency

(* The permits in use are counted by a number, and every call in blocking work   *)
(* has one.                                                                     *)
LEMMA PermitsCounted ==
  /\ IsFiniteSet(Permits) /\ Cardinality(Permits) \in Nat
  /\ Cardinality({c \in Calls : calls[c].pc \in Blocking}) <= Cardinality(Permits)
<1>1. IsFiniteSet(Permits) /\ Cardinality(Permits) \in Nat
  BY KeyAssumption, FS_Subset, FS_CardinalityType DEF Permits
<1>2. {c \in Calls : calls[c].pc \in Blocking} \subseteq Permits
  BY DEF Permits, HoldsPermit, Blocking, Working
<1>3. QED BY <1>1, <1>2, FS_Subset

(* A step after which no call holds a permit that did not hold one before.       *)
LEMMA PermitsShrink ==
  ASSUME PermitInv, calls' \in [Calls -> CallRecords], \A c \in Calls : HoldsPermit(c)' => HoldsPermit(c)
  PROVE  PermitInv'
<1>1. Permits' \subseteq Permits BY DEF Permits
<1>2. Cardinality(Permits') <= Cardinality(Permits) /\ Cardinality(Permits') \in Nat
  BY <1>1, PermitsCounted, FS_Subset, FS_CardinalityType
<1>3. Permits' = {c \in Calls : HoldsPermit(c)'} BY DEF Permits
<1>4. QED BY <1>2, <1>3, PermitsCounted, KeyAssumption DEF PermitInv

(* A call moves on to another place and keeps its key.                           *)
LEMMA CallMoves ==
  ASSUME PermitInv, NEW c \in Calls, NEW p \in Working \cup {"idle", "refused", "timeout", "ok"}, MoveCall(c, p),
         p \in Working => calls[c].pc \in Working
  PROVE  PermitInv'
<1>1. calls' = [calls EXCEPT ![c] = [calls[c] EXCEPT !.pc = p]] BY DEF MoveCall
<1>2. [calls[c] EXCEPT !.pc = p] \in CallRecords BY DEF PermitInv, CallRecords
<1>3. calls' \in [Calls -> CallRecords] BY <1>1, <1>2 DEF PermitInv
<1>4. calls'[c].pc = p /\ \A d \in Calls : d # c => calls'[d] = calls[d]
  BY <1>1 DEF PermitInv, CallRecords
<1>5. \A d \in Calls : HoldsPermit(d)' => HoldsPermit(d) BY <1>4 DEF HoldsPermit
<1>6. QED BY <1>3, <1>5, PermitsShrink

(* A request is guarded: it gets a permit only while one is left.                *)
LEMMA GuardKeeps ==
  ASSUME PermitInv, NEW c \in Calls, NEW k \in KeyIds, GuardCall(c, k)
  PROVE  PermitInv'
<1>1. \/ /\ PermitsInUse < Concurrency
         /\ calls' = [calls EXCEPT ![c] = [pc |-> "authenticate", key |-> k, answered |-> FALSE]]
      \/ calls' = [calls EXCEPT ![c] = [NoCall EXCEPT !.pc = "refused"]]
  BY DEF GuardCall
<1>2. CASE calls' = [calls EXCEPT ![c] = [NoCall EXCEPT !.pc = "refused"]]
  <2>1. [NoCall EXCEPT !.pc = "refused"] \in CallRecords /\ [NoCall EXCEPT !.pc = "refused"].pc = "refused"
    BY DEF NoCall, CallRecords
  <2>2. calls' \in [Calls -> CallRecords] BY <1>2, <2>1 DEF PermitInv
  <2>3. \A d \in Calls : HoldsPermit(d)' => HoldsPermit(d) BY <1>2, <2>1 DEF HoldsPermit, PermitInv, Working
  <2>4. QED BY <2>2, <2>3, PermitsShrink
<1>3. CASE /\ PermitsInUse < Concurrency
           /\ calls' = [calls EXCEPT ![c] = [pc |-> "authenticate", key |-> k, answered |-> FALSE]]
  <2>1. calls' \in [Calls -> CallRecords]
    <3>1. [pc |-> "authenticate", key |-> k, answered |-> FALSE] \in CallRecords BY DEF CallRecords, Working
    <3>2. QED BY <1>3, <3>1 DEF PermitInv
  <2>2. Permits' \subseteq Permits \cup {c} BY <1>3 DEF Permits, HoldsPermit, PermitInv
  <2>3. Cardinality(Permits) \in Nat /\ Cardinality(Permits) < Concurrency /\ IsFiniteSet(Permits)
    BY <1>3, PermitsCounted DEF PermitsInUse, Permits
  <2>4. IsFiniteSet(Permits \cup {c}) /\ Cardinality(Permits \cup {c}) <= Cardinality(Permits) + 1
    BY <2>3, FS_AddElement
  <2>5. Cardinality(Permits') <= Cardinality(Permits \cup {c}) /\ Cardinality(Permits') \in Nat
        /\ Cardinality(Permits \cup {c}) \in Nat
    BY <2>2, <2>4, FS_Subset, FS_CardinalityType
  <2>6. Cardinality(Permits') <= Concurrency BY <2>3, <2>4, <2>5, KeyAssumption
  <2>7. QED BY <2>1, <2>6 DEF PermitInv
<1>4. QED BY <1>1, <1>2, <1>3

(* Every step keeps the bound on permits.                                        *)
LEMMA PermitStep == PermitInv /\ [KeysNext]_keyVars => PermitInv'
<1> SUFFICES ASSUME PermitInv, [KeysNext]_keyVars PROVE PermitInv' OBVIOUS
<1>1. CASE UNCHANGED calls BY <1>1, PermitsShrink DEF HoldsPermit, PermitInv
<1>2. CASE UNCHANGED keyVars BY <1>1, <1>2 DEF keyVars
<1>3. CASE CheckOwners \/ MintRefused \/ MinutePasses BY <1>1, <1>3 DEF CheckOwners, MintRefused, MinutePasses
<1>4. ASSUME NEW o \in KeyOwners,
             DisableAccount(o) \/ DisableOwner(o) \/ EnableAccount(o) \/ \E k \in KeyIds : Mint(o, k)
      PROVE  UNCHANGED calls
  BY <1>4 DEF DisableAccount, DisableOwner, EnableAccount, Mint
<1>5. ASSUME NEW k \in KeyIds, Revoke(k) PROVE UNCHANGED calls BY <1>5 DEF Revoke
<1>6. ASSUME NEW c \in Calls, Lookup(c) \/ Stamp(c) \/ Admit(c) \/ Recheck(c) \/ ReadFacts(c)
      PROVE  PermitInv'
  <2>1. calls[c].pc \in Working
    BY <1>6 DEF Lookup, Stamp, Admit, Recheck, ReadFacts, Working
  <2>2. \E p \in Working \cup {"idle", "refused", "timeout", "ok"} : MoveCall(c, p)
    BY <1>6 DEF Lookup, Stamp, Admit, Recheck, ReadFacts, Goes, Working
  <2>3. QED BY <2>1, <2>2, CallMoves
<1>7. ASSUME NEW c \in Calls, CallTimeout(c) PROVE PermitInv'
  <2>1. \/ calls' = [calls EXCEPT ![c] = [calls[c] EXCEPT !.answered = TRUE]]
        \/ calls' = [calls EXCEPT ![c] = [calls[c] EXCEPT !.pc = "timeout"]]
    BY <1>7 DEF CallTimeout
  <2>2. /\ [calls[c] EXCEPT !.answered = TRUE] \in CallRecords /\ [calls[c] EXCEPT !.pc = "timeout"] \in CallRecords
        /\ [calls[c] EXCEPT !.answered = TRUE].pc = calls[c].pc /\ [calls[c] EXCEPT !.pc = "timeout"].pc = "timeout"
    BY DEF PermitInv, CallRecords
  <2>3. calls' \in [Calls -> CallRecords] BY <2>1, <2>2 DEF PermitInv
  <2>4. \A d \in Calls : HoldsPermit(d)' => HoldsPermit(d) BY <2>1, <2>2 DEF HoldsPermit, PermitInv, Working
  <2>5. QED BY <2>3, <2>4, PermitsShrink
<1>8. ASSUME NEW c \in Calls, NEW k \in KeyIds, GuardCall(c, k) PROVE PermitInv' BY <1>8, GuardKeeps
<1>9. QED BY <1>1, <1>2, <1>3, <1>4, <1>5, <1>6, <1>7, <1>8 DEF KeysNext

LEMMA PermitsStart == KeysInit => PermitInv
<1> SUFFICES ASSUME KeysInit PROVE PermitInv OBVIOUS
<1>1. NoCall \in CallRecords /\ NoCall.pc = "idle" BY DEF NoCall, CallRecords
<1>2. Permits = {} BY <1>1 DEF KeysInit, Permits, HoldsPermit, Working
<1>3. QED BY <1>1, <1>2, FS_EmptySet, KeyAssumption DEF KeysInit, PermitInv

LEMMA PermitsBound == PermitInv => BlockingWorkBounded
<1> SUFFICES ASSUME PermitInv PROVE BlockingWorkBounded OBVIOUS
<1>1. IsFiniteSet({c \in Calls : calls[c].pc \in Blocking}) BY KeyAssumption, FS_Subset
<1>2. QED BY <1>1, PermitsCounted, FS_CardinalityType, KeyAssumption DEF PermitInv, BlockingWorkBounded

(* mcp_server.rs hands a permit to the request and to its blocking thread: the    *)
(* gateway never has more than `concurrency' store operations running, however    *)
(* many callers time out while their threads go on.                              *)
THEOREM GatewayIsBounded == KeysSpec => []BlockingWorkBounded
BY PermitsStart, PermitsBound, PermitStep, PTL DEF KeysSpec

-----------------------------------------------------------------------------
(* Files of an owner: for any number of owners, requests, files, failed disk      *)
(* steps and crashes.  Neither property is inductive alone.  What carries them is *)
(* that ids are never used twice (BlobInv), that the lock of a store says what    *)
(* its holder has written and what it has removed already (OpInv), that rows lose *)
(* their file only under that lock (ReadInv), and that whoever is not live any    *)
(* more is still ahead of a sweep (DeadInv).                                      *)

Att == "attachments"

(* The shape of a blob and of what a lock protects.                             *)
IsBlob(b) ==
    /\ b = [id |-> b.id, owner |-> b.owner, data |-> b.data, size |-> b.size]
    /\ b.id \in Nat
IsOp(o) ==
    /\ o = [kind |-> o.kind, req |-> o.req, owner |-> o.owner, todo |-> o.todo, done |-> o.done]
    /\ o.kind \in {"free", "store", "unlink"}
UploadRecords ==
    [pc : {"idle", "body", "queued", "storing"}, store : Stores, owner : FileOwners \cup {"none"},
     body : Bodies \cup {NoUpload.body}]
Removals == [pc : {"idle", "attachments", "notes", "sweep"}, owner : FileOwners \cup {"none"}, clear : BOOLEAN]

ShapeInv ==
    /\ DOMAIN rows = Stores /\ DOMAIN files = Stores /\ DOMAIN storeOp = Stores
    /\ \A s \in Stores : IsOp(storeOp[s])
    /\ upload \in [Requests -> UploadRecords]
    /\ \A r \in Requests : upload[r].pc = "queued" => Len(FileParts(upload[r].body)) \in Nat
    /\ removal \in Removals
    /\ liveOwners \subseteq FileOwners
    /\ filesUp \in BOOLEAN /\ diskClean \in BOOLEAN /\ blobsEver \in Nat

(* Blobs a store holds or is writing.  Ids come from a counter, so a blob being  *)
(* written has an id no row has, rows have an id each, and an id has one owner.  *)
Pending(s) == IF storeOp[s].kind = "store" THEN storeOp[s].todo \cup storeOp[s].done ELSE {}
Known(s) == rows[s] \cup files[s] \cup Pending(s)
BlobInv ==
    \A s \in Stores :
        /\ \A x \in Known(s) : IsBlob(x) /\ x.id <= blobsEver
        /\ \A x, y \in Known(s) : x.id = y.id => x.owner = y.owner
        /\ \A x, y \in rows[s] : x.id = y.id => x = y
        /\ \A x, y \in Pending(s) : x.id = y.id => x = y
        /\ \A x \in rows[s], y \in Pending(s) : x.id # y.id

(* What the holder of a store's lock has done so far; only a removal unlinks      *)
(* attachments, and it stands at the step that does.                              *)
OpInv ==
    /\ \A s \in Stores :
        /\ storeOp[s].kind = "store" => storeOp[s].done \subseteq files[s] /\ storeOp[s].req # "removal"
        /\ storeOp[s].kind = "unlink" => storeOp[s].todo \subseteq storeOp[s].done /\ storeOp[s].done \subseteq rows[s]
        /\ storeOp[s].req = "removal" =>
             /\ storeOp[s].kind = "unlink"
             /\ removal.pc \in (IF s = Att THEN {"attachments", "sweep"} ELSE {"notes"})
    /\ storeOp[Att].kind = "unlink" => storeOp[Att].req = "removal"
    /\ ~filesUp => removal.pc = "idle" /\ \A s \in Stores : storeOp[s].kind = "free"

(* Rows whose file the lock's holder has removed, or tried to.                   *)
Unlinked(s) == IF storeOp[s].kind = "unlink" THEN storeOp[s].done \ storeOp[s].todo ELSE {}
ReadInv ==
    \A s \in Stores : \A b \in rows[s] : Verified(s, b) \/ b \in halfRemoved \cup altered \cup Unlinked(s)

(* While the disk works, a dead owner's attachments exist only with a deletion    *)
(* still ahead of its sweep, and every file has a row or a writer.                *)
DeadInv ==
    filesUp /\ diskClean =>
        /\ removal.pc = "idle" \/ removal.clear => \A b \in rows[Att] \cup Pending(Att) : b.owner \in liveOwners
        /\ removal.pc = "sweep" /\ storeOp[Att].kind = "unlink" =>
              \A b \in rows[Att] : b.owner \in liveOwners \/ b \in storeOp[Att].done
        /\ \A f \in files[Att] : f \in Pending(Att) \/ \E b \in rows[Att] \ Unlinked(Att) : b.id = f.id

FilesInv == ShapeInv /\ BlobInv /\ OpInv /\ ReadInv /\ DeadInv

-----------------------------------------------------------------------------
(* Steps that leave both stores and their locks alone keep the blobs and what   *)
(* can be read of them.                                                         *)
storeVars == <<rows, files, storeOp, halfRemoved, altered, blobsEver>>

(* A step that leaves the stores alone keeps what is true of the blobs and  *)
(* of the reads.                                                            *)
LEMMA StoresAlone ==
  ASSUME BlobInv, ReadInv, UNCHANGED storeVars
  PROVE  BlobInv' /\ ReadInv'
BY DEF BlobInv, ReadInv, Known, Pending, Unlinked, Verified, storeVars

(* A request begins: the stores and the accounts are as they were.              *)
LEMMA BeginUploadStep ==
  ASSUME FilesInv, NEW r \in Requests, BeginUpload(r)
  PROVE  FilesInv'
<1> USE DEF BeginUpload, DiskWorks, Accounts, Outside
<1>1. BlobInv' /\ ReadInv' BY StoresAlone DEF FilesInv, storeVars
<1>2. OpInv' /\ DeadInv' BY DEF FilesInv, OpInv, DeadInv, Pending, Unlinked
<1>3. ShapeInv'
  <2>1. PICK s \in Stores, o \in liveOwners, b \in Bodies :
          upload' = [upload EXCEPT ![r] = [pc |-> "body", store |-> s, owner |-> o, body |-> b]]
    OBVIOUS
  <2>2. [pc |-> "body", store |-> s, owner |-> o, body |-> b] \in UploadRecords
    BY DEF UploadRecords, FilesInv, ShapeInv
  <2>3. QED BY <2>1, <2>2 DEF FilesInv, ShapeInv
<1>4. QED BY <1>1, <1>2, <1>3 DEF FilesInv

(* A body arrives and is well formed, which bounds the number of its parts, or   *)
(* the request is over.                                                         *)
LEMMA BodyEndsStep ==
  ASSUME FilesInv, NEW r \in Requests, BodyEnds(r)
  PROVE  FilesInv'
<1> USE DEF BodyEnds, DiskWorks, Accounts, Outside
<1>1. BlobInv' /\ ReadInv' BY StoresAlone DEF FilesInv, storeVars
<1>2. OpInv' /\ DeadInv' BY DEF FilesInv, OpInv, DeadInv, Pending, Unlinked
<1>3. ShapeInv'
  <2>1. upload[r] \in UploadRecords BY DEF FilesInv, ShapeInv
  <2>2. NoUpload \in UploadRecords BY DEF UploadRecords, NoUpload, Stores
  <2>3. [upload[r] EXCEPT !.pc = "queued"] \in UploadRecords BY <2>1 DEF UploadRecords
  <2>4. \/ upload' = [upload EXCEPT ![r] = NoUpload]
        \/ Parses(upload[r].body) /\ upload' = [upload EXCEPT ![r] = [upload[r] EXCEPT !.pc = "queued"]]
    <3>1. PICK arrived \in BOOLEAN :
            upload' = [upload EXCEPT ![r] =
               IF /\ arrived /\ Parses(@.body) /\ @.body.size <= MaxRequestBytes
                  /\ @.store = "attachments" => LengthHolds(@.body)
               THEN [@ EXCEPT !.pc = "queued"] ELSE NoUpload]
      OBVIOUS
    <3>2. QED BY <3>1
  <2>5. Parses(upload[r].body) => Len(FileParts(upload[r].body)) \in Nat
    BY OwnerFilesAssumption DEF Parses
  <2>6. upload' \in [Requests -> UploadRecords] BY <2>2, <2>3, <2>4 DEF FilesInv, ShapeInv
  <2>7. ASSUME NEW q \in Requests, upload'[q].pc = "queued"
        PROVE  Len(FileParts(upload'[q].body)) \in Nat
    <3>1. CASE upload'[q] = upload[q] BY <3>1, <2>7 DEF FilesInv, ShapeInv
    <3>2. CASE upload'[q] = NoUpload BY <3>2, <2>7 DEF NoUpload
    <3>3. CASE q = r /\ Parses(upload[r].body) /\ upload'[r] = [upload[r] EXCEPT !.pc = "queued"]
      <4>1. upload'[r].body = upload[r].body BY <3>3, <2>1 DEF UploadRecords
      <4>2. QED BY <4>1, <3>3, <2>5
    <3>4. QED BY <3>1, <3>2, <3>3, <2>4 DEF FilesInv, ShapeInv
  <2>8. QED BY <2>6, <2>7 DEF FilesInv, ShapeInv
<1>4. QED BY <1>1, <1>2, <1>3 DEF FilesInv

(* The account goes first: its deletion is then ahead of its sweep.              *)
LEMMA DeleteAccountStep ==
  ASSUME FilesInv, DeleteAccount
  PROVE  FilesInv'
<1> USE DEF DeleteAccount, DiskWorks, Accounts, Outside
<1>1. BlobInv' /\ ReadInv' BY StoresAlone DEF FilesInv, storeVars
<1>2. removal'.pc = "attachments" /\ ~removal'.clear /\ removal' \in Removals
  BY DEF Removals, FilesInv, ShapeInv
<1>3. OpInv' BY <1>2 DEF FilesInv, OpInv, ShapeInv, Stores, Att
<1>4. DeadInv' BY <1>2 DEF FilesInv, DeadInv, Pending, Unlinked
<1>5. ShapeInv' BY <1>2 DEF FilesInv, ShapeInv
<1>6. QED BY <1>1, <1>3, <1>4, <1>5 DEF FilesInv

(* Clearing the sessions of a live owner kills no account.                       *)
LEMMA ClearSessionsStep ==
  ASSUME FilesInv, ClearSessions
  PROVE  FilesInv'
<1> USE DEF ClearSessions, DiskWorks, Accounts, Outside
<1>1. BlobInv' /\ ReadInv' BY StoresAlone DEF FilesInv, storeVars
<1>2. removal'.pc = "notes" /\ removal'.clear /\ removal' \in Removals
  BY DEF Removals, FilesInv, ShapeInv
<1>3. OpInv' BY <1>2 DEF FilesInv, OpInv, ShapeInv, Stores, Att
<1>4. DeadInv' BY <1>2 DEF FilesInv, DeadInv, Pending, Unlinked
<1>5. ShapeInv' BY <1>2 DEF FilesInv, ShapeInv
<1>6. QED BY <1>1, <1>3, <1>4, <1>5 DEF FilesInv

-----------------------------------------------------------------------------
(* The new blobs take ids nobody had, and belong to one owner.                   *)
LEMMA NewBlobsFresh ==
  ASSUME NEW o, NEW ps, blobsEver \in Nat, Len(ps) \in Nat
  PROVE  /\ \A x \in NewBlobs(o, ps) : IsBlob(x) /\ x.owner = o /\ x.id > blobsEver /\ x.id <= blobsEver + Len(ps)
         /\ \A x, y \in NewBlobs(o, ps) : x.id = y.id => x = y
BY DEF NewBlobs, IsBlob

(* An upload takes the lock of its store, or is refused.                         *)
LEMMA StoreStartsStep ==
  ASSUME FilesInv, NEW r \in Requests, StoreStarts(r)
  PROVE  FilesInv'
<1>z. PICK st \in Stores : st = upload[r].store BY DEF FilesInv, ShapeInv, UploadRecords
<1> DEFINE ow == upload[r].owner
           ps == FileParts(upload[r].body)
           new == NewBlobs(ow, ps)
           entry == [kind |-> "store", req |-> r, owner |-> ow, todo |-> new, done |-> {}]
<1> USE DEF DiskWorks, Accounts, Outside
<1>0. /\ filesUp /\ upload[r].pc = "queued" /\ ~HeldBlobs(st)
      /\ UNCHANGED <<diskFaults, diskClean, liveOwners, filesUp, altered, fileCrashes, rows, files, removal, halfRemoved>>
      /\ \/ /\ Admitted(r) /\ storeOp' = [storeOp EXCEPT ![st] = entry]
            /\ upload' = [upload EXCEPT ![r].pc = "storing"] /\ blobsEver' = blobsEver + Len(ps)
         \/ upload' = [upload EXCEPT ![r] = NoUpload] /\ UNCHANGED <<storeOp, blobsEver>>
  BY <1>z DEF StoreStarts
<1>1. upload[r] \in UploadRecords /\ Len(ps) \in Nat /\ blobsEver \in Nat
  BY <1>0 DEF FilesInv, ShapeInv, UploadRecords
<1>2. NoUpload \in UploadRecords /\ [upload[r] EXCEPT !.pc = "storing"] \in UploadRecords
  BY <1>1 DEF UploadRecords, NoUpload, Stores
<1>3. CASE upload' = [upload EXCEPT ![r] = NoUpload] /\ UNCHANGED <<storeOp, blobsEver>>
  <2>1. BlobInv' /\ ReadInv' BY <1>0, <1>3, StoresAlone DEF FilesInv, storeVars
  <2>2. OpInv' /\ DeadInv' BY <1>0, <1>3 DEF FilesInv, OpInv, DeadInv, Pending, Unlinked
  <2>3. ShapeInv' BY <1>0, <1>2, <1>3 DEF FilesInv, ShapeInv, NoUpload
  <2>4. QED BY <2>1, <2>2, <2>3 DEF FilesInv
<1>4. CASE /\ Admitted(r) /\ storeOp' = [storeOp EXCEPT ![st] = entry]
           /\ upload' = [upload EXCEPT ![r].pc = "storing"] /\ blobsEver' = blobsEver + Len(ps)
  <2>1. storeOp[st].kind = "free" BY <1>0, <1>1 DEF HeldBlobs
  <2>2. storeOp'[st] = entry /\ \A t \in Stores : t # st => storeOp'[t] = storeOp[t]
    BY <1>1, <1>4 DEF FilesInv, ShapeInv
  <2>3. /\ \A x \in new : IsBlob(x) /\ x.owner = ow /\ x.id > blobsEver /\ x.id <= blobsEver + Len(ps)
        /\ \A x, y \in new : x.id = y.id => x = y
    BY <1>1, NewBlobsFresh
  <2>4. /\ Pending(st) = {} /\ Pending(st)' = new /\ Unlinked(st) = {} /\ Unlinked(st)' = {}
        /\ \A t \in Stores : t # st => Pending(t)' = Pending(t) /\ Unlinked(t)' = Unlinked(t)
    <3>1. entry.kind = "store" /\ entry.todo = new /\ entry.done = {} OBVIOUS
    <3> HIDE DEF new, entry
    <3>2. Pending(st) = {} /\ Unlinked(st) = {} BY <2>1 DEF Pending, Unlinked
    <3>3. Pending(st)' = new /\ Unlinked(st)' = {} BY <2>2, <3>1 DEF Pending, Unlinked
    <3>4. QED BY <2>2, <3>2, <3>3 DEF Pending, Unlinked
  <2>5. ShapeInv'
    <3>1. IsOp(entry) BY DEF IsOp
    <3>2. \A q \in Requests : upload'[q].pc = "queued" => upload'[q] = upload[q]
      BY <1>1, <1>4 DEF FilesInv, ShapeInv, UploadRecords
    <3>3. QED BY <1>0, <1>1, <1>2, <1>4, <2>2, <3>1, <3>2 DEF FilesInv, ShapeInv
  <2>6. BlobInv'
    <3>1. ASSUME NEW t \in Stores, t # st
          PROVE  /\ \A x \in Known(t)' : IsBlob(x) /\ x.id <= blobsEver'
                 /\ \A x, y \in Known(t)' : x.id = y.id => x.owner = y.owner
                 /\ \A x, y \in rows'[t] : x.id = y.id => x = y
                 /\ \A x, y \in Pending(t)' : x.id = y.id => x = y
                 /\ \A x \in rows'[t], y \in Pending(t)' : x.id # y.id
      <4>1. Known(t)' = Known(t) BY <1>0, <2>4, <3>1 DEF Known
      <4>2. \A x \in Known(t) : IsBlob(x) /\ x.id <= blobsEver /\ x.id \in Nat BY DEF FilesInv, BlobInv, IsBlob
      <4>3. QED BY <1>0, <1>1, <1>4, <2>4, <3>1, <4>1, <4>2 DEF FilesInv, BlobInv
    <3>2. /\ \A x \in Known(st)' : IsBlob(x) /\ x.id <= blobsEver'
          /\ \A x, y \in Known(st)' : x.id = y.id => x.owner = y.owner
          /\ \A x, y \in rows'[st] : x.id = y.id => x = y
          /\ \A x, y \in Pending(st)' : x.id = y.id => x = y
          /\ \A x \in rows'[st], y \in Pending(st)' : x.id # y.id
      <4>1. Known(st)' = Known(st) \cup new BY <1>0, <2>4 DEF Known
      <4>2. \A x \in Known(st) : IsBlob(x) /\ x.id <= blobsEver /\ x.id \in Nat BY <1>1 DEF FilesInv, BlobInv, IsBlob
      <4>3. \A x \in new : x.id \in Nat BY <2>3 DEF IsBlob
      <4>4. rows'[st] \subseteq Known(st) BY <1>0 DEF Known
      <4>5. \A x \in Known(st), y \in new : x.id # y.id BY <1>1, <2>3, <4>2, <4>3
      <4>6. \A x \in Known(st)' : IsBlob(x) /\ x.id <= blobsEver' BY <1>1, <1>4, <2>3, <4>1, <4>2
      <4>7. \A x, y \in Known(st)' : x.id = y.id => x.owner = y.owner
        BY <1>1, <2>3, <4>1, <4>5 DEF FilesInv, BlobInv
      <4>8. QED BY <1>0, <1>1, <2>3, <2>4, <4>4, <4>5, <4>6, <4>7 DEF FilesInv, BlobInv
    <3> HIDE DEF new, entry, ps, ow
    <3>3. QED BY <3>1, <3>2 DEF BlobInv
  <2>7. OpInv'
    BY <1>0, <1>1, <2>1, <2>2, OwnerFilesAssumption DEF FilesInv, OpInv, ShapeInv, Stores, Att
  <2>8. ReadInv'
    BY <1>0, <1>1, <2>4 DEF FilesInv, ReadInv, Verified
  <2>9. DeadInv'
    <3>1. CASE st = Att
      <4>1. ow \in liveOwners BY <1>z, <1>4, <3>1 DEF Admitted, OwnerLive, Att
      <4>2. QED BY <1>0, <2>1, <2>2, <2>3, <2>4, <3>1, <4>1 DEF FilesInv, DeadInv, Att
    <3>2. CASE st # Att
      <4>1. Att \in Stores BY DEF Stores, Att
      <4> HIDE DEF new, entry, ps, ow
      <4>2. QED BY <1>0, <2>2, <2>4, <3>2, <4>1 DEF FilesInv, DeadInv
    <3>3. QED BY <3>1, <3>2
  <2>10. QED BY <2>5, <2>6, <2>7, <2>8, <2>9 DEF FilesInv
<1>5. QED BY <1>0, <1>3, <1>4

(* The end of an upload, whatever its slot is called.                            *)
LEMMA UploadEnds ==
  ASSUME upload \in [Requests -> UploadRecords], NEW q, upload' = [upload EXCEPT ![q] = NoUpload]
  PROVE  /\ upload' \in [Requests -> UploadRecords]
         /\ \A r \in Requests : upload'[r].pc = "queued" => upload'[r] = upload[r]
BY DEF UploadRecords, NoUpload, Stores

(* A failed upload: some of what it wrote is gone, nothing it wrote has a row.    *)
LEMMA UploadFails ==
  ASSUME FilesInv, NEW s \in Stores, storeOp[s].kind = "store", filesUp,
         UNCHANGED <<liveOwners, filesUp, altered, rows, removal, halfRemoved, blobsEver>>,
         diskClean' = FALSE, UndoWrite(s), StoreDone(s)
  PROVE  FilesInv'
<1>1. PICK left \in SUBSET storeOp[s].done : files' = [files EXCEPT ![s] = @ \ (storeOp[s].done \ left)]
  BY DEF UndoWrite
<1>2. /\ files'[s] \subseteq files[s] /\ \A f \in files[s] : f \in files'[s] \/ f \in storeOp[s].done
      /\ storeOp'[s] = FreeStore
      /\ \A t \in Stores : t # s => files'[t] = files[t] /\ storeOp'[t] = storeOp[t]
  BY <1>1 DEF StoreDone, FilesInv, ShapeInv
<1>3. /\ Pending(s)' = {} /\ Unlinked(s) = {} /\ Unlinked(s)' = {} /\ storeOp[s].done \subseteq Pending(s)
      /\ \A t \in Stores : t # s => Pending(t)' = Pending(t) /\ Unlinked(t)' = Unlinked(t)
  <2>1. Pending(s)' = {} /\ Unlinked(s)' = {} BY <1>2 DEF Pending, Unlinked, FreeStore
  <2>2. Unlinked(s) = {} /\ storeOp[s].done \subseteq Pending(s) BY DEF Pending, Unlinked
  <2>3. \A t \in Stores : t # s => Pending(t)' = Pending(t) /\ Unlinked(t)' = Unlinked(t)
    BY <1>2 DEF Pending, Unlinked
  <2>4. QED BY <2>1, <2>2, <2>3
<1>4. \A t \in Stores : Known(t)' \subseteq Known(t) BY <1>2, <1>3 DEF Known
<1>5. ShapeInv'
  <2>1. upload' \in [Requests -> UploadRecords] /\ \A q \in Requests : upload'[q].pc = "queued" => upload'[q] = upload[q]
    BY UploadEnds DEF FilesInv, ShapeInv, StoreDone
  <2>2. DOMAIN files' = Stores /\ DOMAIN storeOp' = Stores BY <1>1 DEF FilesInv, ShapeInv, StoreDone
  <2>3. \A t \in Stores : IsOp(storeOp'[t]) BY <1>2 DEF FilesInv, ShapeInv, IsOp, FreeStore
  <2>4. QED BY <2>1, <2>2, <2>3 DEF FilesInv, ShapeInv
<1>6. BlobInv'
  <2>1. \A t \in Stores : Pending(t)' \subseteq Pending(t) BY <1>3
  <2>2. QED BY <1>4, <2>1 DEF FilesInv, BlobInv
<1>7. OpInv' BY <1>2 DEF FilesInv, OpInv, Stores, Att, FreeStore
<1>8. ReadInv'
  <2>1. ASSUME NEW b \in rows[s], Verified(s, b) PROVE Verified(s, b)'
    <3>1. PICK f \in files[s] : f.id = b.id /\ f.owner = b.owner /\ f.size = b.size /\ f.data = b.data
      BY <2>1 DEF Verified
    <3>2. f \notin storeOp[s].done BY <1>3, <3>1 DEF FilesInv, BlobInv
    <3>3. QED BY <1>2, <3>1, <3>2 DEF Verified
  <2>2. QED BY <1>2, <1>3, <2>1 DEF FilesInv, ReadInv, Verified
<1>9. DeadInv' BY DEF DeadInv
<1>10. QED BY <1>5, <1>6, <1>7, <1>8, <1>9 DEF FilesInv

(* An upload writes a blob, or a disk failure ends it and what was written goes  *)
(* again as far as the disk allows.                                             *)
LEMMA WriteBlobStep ==
  ASSUME FilesInv, NEW s \in Stores, WriteBlob(s)
  PROVE  FilesInv'
<1> USE DEF DiskWorks, DiskFails, Accounts, Outside
<1>0. /\ filesUp /\ storeOp[s].kind = "store"
      /\ UNCHANGED <<liveOwners, filesUp, altered, fileCrashes, rows, removal, halfRemoved, blobsEver>>
      /\ \/ /\ \E b \in storeOp[s].todo :
               /\ files' = [files EXCEPT ![s] = @ \cup {b}]
               /\ storeOp' = [storeOp EXCEPT ![s].todo = @ \ {b}, ![s].done = @ \cup {b}]
            /\ UNCHANGED <<upload, diskClean>>
         \/ diskClean' = FALSE /\ UndoWrite(s) /\ StoreDone(s)
  BY DEF WriteBlob
<1>1. CASE /\ \E b \in storeOp[s].todo :
               /\ files' = [files EXCEPT ![s] = @ \cup {b}]
               /\ storeOp' = [storeOp EXCEPT ![s].todo = @ \ {b}, ![s].done = @ \cup {b}]
           /\ UNCHANGED <<upload, diskClean>>
  <2>1. PICK b \in storeOp[s].todo :
               /\ files' = [files EXCEPT ![s] = @ \cup {b}]
               /\ storeOp' = [storeOp EXCEPT ![s].todo = @ \ {b}, ![s].done = @ \cup {b}]
    BY <1>1
  <2>2. /\ files'[s] = files[s] \cup {b}
        /\ \A t \in Stores : t # s => files'[t] = files[t] /\ storeOp'[t] = storeOp[t]
        /\ IsOp(storeOp'[s]) /\ storeOp'[s].kind = "store" /\ storeOp'[s].req = storeOp[s].req
        /\ storeOp'[s].todo = storeOp[s].todo \ {b} /\ storeOp'[s].done = storeOp[s].done \cup {b}
    <3>1. /\ files'[s] = files[s] \cup {b}
          /\ \A t \in Stores : t # s => files'[t] = files[t] /\ storeOp'[t] = storeOp[t]
      BY <2>1 DEF FilesInv, ShapeInv
    <3>2. IsOp(storeOp[s]) /\ s \in DOMAIN storeOp BY DEF FilesInv, ShapeInv
    <3>3. storeOp'[s] = [[storeOp[s] EXCEPT !.todo = storeOp[s].todo \ {b}] EXCEPT !.done = storeOp[s].done \cup {b}]
      BY <2>1, <3>2 DEF IsOp
    <3>4. storeOp'[s] = [kind |-> storeOp[s].kind, req |-> storeOp[s].req, owner |-> storeOp[s].owner,
                         todo |-> storeOp[s].todo \ {b}, done |-> storeOp[s].done \cup {b}]
      BY <3>2, <3>3 DEF IsOp
    <3>5. QED BY <1>0, <3>1, <3>4 DEF IsOp
  <2>3. /\ Pending(s)' = Pending(s) /\ Unlinked(s)' = {} /\ Unlinked(s) = {} /\ b \in Pending(s)
        /\ \A t \in Stores : t # s => Pending(t)' = Pending(t) /\ Unlinked(t)' = Unlinked(t)
    <3>1. Pending(s)' = (storeOp[s].todo \ {b}) \cup (storeOp[s].done \cup {b}) BY <2>2 DEF Pending
    <3>2. Pending(s) = storeOp[s].todo \cup storeOp[s].done BY <1>0 DEF Pending
    <3>3. Pending(s)' = Pending(s) /\ b \in Pending(s) BY <2>1, <3>1, <3>2
    <3>4. Unlinked(s)' = {} /\ Unlinked(s) = {} BY <1>0, <2>2 DEF Unlinked
    <3>5. \A t \in Stores : t # s => Pending(t)' = Pending(t) /\ Unlinked(t)' = Unlinked(t)
      BY <2>2 DEF Pending, Unlinked
    <3>6. QED BY <3>3, <3>4, <3>5
  <2>4. \A t \in Stores : Known(t)' = Known(t)
    BY <1>0, <2>2, <2>3 DEF Known
  <2>5. ShapeInv'
    <3>1. DOMAIN files' = Stores /\ DOMAIN storeOp' = Stores BY <2>1 DEF FilesInv, ShapeInv
    <3>2. \A t \in Stores : IsOp(storeOp'[t]) BY <2>2 DEF FilesInv, ShapeInv, IsOp
    <3>3. QED BY <1>0, <1>1, <3>1, <3>2 DEF FilesInv, ShapeInv
  <2>6. BlobInv' BY <1>0, <2>3, <2>4 DEF FilesInv, BlobInv
  <2>7. OpInv' BY <1>0, <2>2 DEF FilesInv, OpInv, Stores, Att
  <2>8. ReadInv' BY <1>0, <2>2, <2>3 DEF FilesInv, ReadInv, Verified
  <2>9. DeadInv'
    <3>1. Att \in Stores BY DEF Stores, Att
    <3>2. CASE s = Att
      BY <1>0, <1>1, <2>2, <2>3, <3>2 DEF FilesInv, DeadInv
    <3>3. CASE s # Att
      BY <1>0, <1>1, <2>2, <2>3, <3>1, <3>3 DEF FilesInv, DeadInv
    <3>4. QED BY <3>2, <3>3
  <2>10. QED BY <2>5, <2>6, <2>7, <2>8, <2>9 DEF FilesInv
<1>2. CASE diskClean' = FALSE /\ UndoWrite(s) /\ StoreDone(s)
  BY <1>0, <1>2, UploadFails
<1>3. QED BY <1>0, <1>1, <1>2

(* The index takes the blobs that were all written, or its write fails.          *)
LEMMA ListBlobsStep ==
  ASSUME FilesInv, NEW s \in Stores, ListBlobs(s)
  PROVE  FilesInv'
<1> USE DEF DiskWorks, DiskFails, Accounts, Outside
<1>0. /\ filesUp /\ storeOp[s].kind = "store" /\ storeOp[s].todo = {}
      /\ UNCHANGED <<liveOwners, filesUp, altered, fileCrashes, removal, halfRemoved, blobsEver>>
      /\ StoreDone(s)
      /\ \/ rows' = [rows EXCEPT ![s] = @ \cup storeOp[s].done] /\ UNCHANGED <<files, diskClean>>
         \/ diskClean' = FALSE /\ UndoWrite(s) /\ UNCHANGED rows
  BY DEF ListBlobs
<1>1. CASE rows' = [rows EXCEPT ![s] = @ \cup storeOp[s].done] /\ UNCHANGED <<files, diskClean>>
  <2>1. /\ rows'[s] = rows[s] \cup storeOp[s].done /\ storeOp'[s] = FreeStore
        /\ \A t \in Stores : t # s => rows'[t] = rows[t] /\ storeOp'[t] = storeOp[t]
    BY <1>0, <1>1 DEF StoreDone, FilesInv, ShapeInv
  <2>2. /\ Pending(s) = storeOp[s].done /\ Pending(s)' = {} /\ Unlinked(s) = {} /\ Unlinked(s)' = {}
        /\ \A t \in Stores : t # s => Pending(t)' = Pending(t) /\ Unlinked(t)' = Unlinked(t)
    BY <1>0, <2>1 DEF Pending, Unlinked, FreeStore
  <2>3. storeOp[s].done \subseteq files[s] BY <1>0 DEF FilesInv, OpInv
  <2>4. \A t \in Stores : Known(t)' = Known(t)
    BY <1>1, <2>1, <2>2 DEF Known
  <2>5. ShapeInv'
    <3>1. upload' \in [Requests -> UploadRecords] /\ \A q \in Requests : upload'[q].pc = "queued" => upload'[q] = upload[q]
      BY <1>0, UploadEnds DEF FilesInv, ShapeInv, StoreDone
    <3>2. DOMAIN rows' = Stores /\ DOMAIN storeOp' = Stores BY <1>0, <1>1 DEF FilesInv, ShapeInv, StoreDone
    <3>3. \A t \in Stores : IsOp(storeOp'[t]) BY <2>1 DEF FilesInv, ShapeInv, IsOp, FreeStore
    <3>4. QED BY <1>0, <1>1, <3>1, <3>2, <3>3 DEF FilesInv, ShapeInv
  <2>6. BlobInv'
    <3>1. \A t \in Stores : \A x, y \in rows'[t] : x.id = y.id => x = y
      BY <2>1, <2>2 DEF FilesInv, BlobInv
    <3>2. \A t \in Stores : Pending(t)' = Pending(t) \/ Pending(t)' = {} BY <2>2
    <3>3. \A t \in Stores : \A x \in rows'[t], y \in Pending(t)' : x.id # y.id
      BY <2>1, <2>2 DEF FilesInv, BlobInv
    <3>4. QED BY <1>0, <2>4, <3>1, <3>2, <3>3 DEF FilesInv, BlobInv
  <2>7. OpInv' BY <1>0, <1>1, <2>1 DEF FilesInv, OpInv, Stores, Att, FreeStore
  <2>8. ReadInv'
    <3>1. ASSUME NEW b \in storeOp[s].done PROVE Verified(s, b)' BY <2>3, <3>1, <1>1 DEF Verified
    <3>2. QED BY <1>0, <1>1, <2>1, <2>2, <3>1 DEF FilesInv, ReadInv, Verified
  <2>9. DeadInv'
    <3>1. Att \in Stores BY DEF Stores, Att
    <3>2. CASE s = Att
      BY <1>0, <1>1, <2>1, <2>2, <3>2 DEF FilesInv, DeadInv, FreeStore
    <3>3. CASE s # Att
      BY <1>0, <1>1, <2>1, <2>2, <3>1, <3>3 DEF FilesInv, DeadInv
    <3>4. QED BY <3>2, <3>3
  <2>10. QED BY <2>5, <2>6, <2>7, <2>8, <2>9 DEF FilesInv
<1>2. CASE diskClean' = FALSE /\ UndoWrite(s) /\ UNCHANGED rows
  BY <1>0, <1>2, UploadFails
<1>3. QED BY <1>0, <1>1, <1>2

-----------------------------------------------------------------------------
(* Taking the lock of a free store to unlink some of its rows: nothing is gone   *)
(* yet.                                                                         *)
LEMMA UnlinkBegins ==
  ASSUME FilesInv, NEW s \in Stores, NEW D \in SUBSET rows[s], NEW q, NEW o, storeOp[s].kind = "free",
         storeOp' = [storeOp EXCEPT ![s] = [kind |-> "unlink", req |-> q, owner |-> o, todo |-> D, done |-> D]],
         UNCHANGED <<rows, files, upload, removal, liveOwners, filesUp, diskClean, halfRemoved, altered, blobsEver>>
  PROVE  /\ ShapeInv' /\ BlobInv' /\ ReadInv'
         /\ storeOp'[s].kind = "unlink" /\ storeOp'[s].req = q /\ storeOp'[s].todo = D /\ storeOp'[s].done = D
         /\ Pending(s) = {} /\ Pending(s)' = {} /\ Unlinked(s) = {} /\ Unlinked(s)' = {}
         /\ \A t \in Stores : t # s =>
               storeOp'[t] = storeOp[t] /\ Pending(t)' = Pending(t) /\ Unlinked(t)' = Unlinked(t)
<1>1. /\ storeOp'[s].kind = "unlink" /\ storeOp'[s].req = q /\ storeOp'[s].todo = D /\ storeOp'[s].done = D
      /\ \A t \in Stores : t # s => storeOp'[t] = storeOp[t]
      /\ IsOp(storeOp'[s])
  BY DEF FilesInv, ShapeInv, IsOp
<1>2. /\ Pending(s) = {} /\ Pending(s)' = {} /\ Unlinked(s) = {} /\ Unlinked(s)' = {}
  BY <1>1 DEF Pending, Unlinked
<1>3. \A t \in Stores : t # s => Pending(t)' = Pending(t) /\ Unlinked(t)' = Unlinked(t)
  BY <1>1 DEF Pending, Unlinked
<1>4. \A t \in Stores : Pending(t)' = Pending(t) /\ Unlinked(t)' = Unlinked(t) BY <1>2, <1>3
<1>5. ShapeInv' BY <1>1 DEF FilesInv, ShapeInv
<1>6. BlobInv' BY <1>4 DEF FilesInv, BlobInv, Known
<1>7. ReadInv' BY <1>4 DEF FilesInv, ReadInv, Verified
<1>8. QED BY <1>1, <1>2, <1>3, <1>5, <1>6, <1>7

(* The next step of a removal locks its store, or finds no dead owner's rows.     *)
LEMMA RemovalStartsStep ==
  ASSUME FilesInv, RemovalStarts
  PROVE  FilesInv'
<1> USE DEF DiskWorks, Accounts, Outside
<1>z. PICK s \in Stores : s = IF removal.pc = "notes" THEN "notes" ELSE "attachments" BY DEF Stores
<1> DEFINE D == Doomed(s, removal)
<1>0. /\ filesUp /\ removal.pc # "idle" /\ ~HeldBlobs(s) /\ (\A t \in Stores : storeOp[t].req # "removal")
      /\ UNCHANGED <<diskClean, liveOwners, filesUp, altered, rows, files, upload, halfRemoved, blobsEver>>
      /\ \/ removal.pc = "sweep" /\ D = {} /\ removal' = NoRemoval /\ UNCHANGED storeOp
         \/ /\ storeOp' = [storeOp EXCEPT ![s] = [kind |-> "unlink", req |-> "removal", owner |-> removal.owner,
                                                 todo |-> D, done |-> D]]
            /\ UNCHANGED removal
  BY <1>z DEF RemovalStarts
<1>1. storeOp[s].kind = "free" BY <1>0 DEF HeldBlobs
<1>2. Att \in Stores BY DEF Stores, Att
<1>3. CASE removal.pc = "sweep" /\ D = {} /\ removal' = NoRemoval /\ UNCHANGED storeOp
  <2>1. BlobInv' /\ ReadInv' BY <1>0, <1>3, StoresAlone DEF FilesInv, storeVars
  <2>2. s = Att /\ \A b \in rows[Att] : b.owner \in liveOwners BY <1>z, <1>3 DEF Doomed, Att
  <2>3. Pending(Att)' = {} /\ Unlinked(Att)' = Unlinked(Att) /\ Pending(Att) = {}
    BY <1>1, <1>3, <2>2 DEF Pending, Unlinked
  <2>4. removal'.pc = "idle" /\ removal' \in Removals BY <1>3 DEF NoRemoval, Removals
  <2>5. DeadInv' BY <1>0, <2>2, <2>3, <2>4 DEF FilesInv, DeadInv
  <2>6. OpInv' BY <1>0, <1>3, <2>4 DEF FilesInv, OpInv
  <2>7. ShapeInv' BY <1>0, <1>3, <2>4 DEF FilesInv, ShapeInv
  <2>8. QED BY <2>1, <2>5, <2>6, <2>7 DEF FilesInv
<1>4. CASE /\ storeOp' = [storeOp EXCEPT ![s] = [kind |-> "unlink", req |-> "removal", owner |-> removal.owner,
                                                 todo |-> D, done |-> D]]
           /\ UNCHANGED removal
  <2>1. D \in SUBSET rows[s] BY DEF Doomed
  <2>2. /\ ShapeInv' /\ BlobInv' /\ ReadInv'
        /\ storeOp'[s].kind = "unlink" /\ storeOp'[s].req = "removal" /\ storeOp'[s].todo = D /\ storeOp'[s].done = D
        /\ Pending(s) = {} /\ Pending(s)' = {} /\ Unlinked(s) = {} /\ Unlinked(s)' = {}
        /\ \A t \in Stores : t # s =>
              storeOp'[t] = storeOp[t] /\ Pending(t)' = Pending(t) /\ Unlinked(t)' = Unlinked(t)
    <3> HIDE DEF D
    <3>1. QED BY <1>0, <1>1, <1>4, <2>1, UnlinkBegins
  <2>3. OpInv'
    <3>1. removal.pc \in {"attachments", "notes", "sweep"} BY <1>0 DEF FilesInv, ShapeInv, Removals
    <3> HIDE DEF D
    <3>2. QED BY <1>z, <1>0, <1>4, <2>1, <2>2, <3>1 DEF FilesInv, OpInv, Stores, Att
  <2>4. DeadInv'
    <3>1. \A t \in Stores : Pending(t)' = Pending(t) /\ Unlinked(t)' = Unlinked(t) BY <2>2
    <3>2. removal.pc = "sweep" => s = Att /\ \A b \in rows[Att] : b.owner \in liveOwners \/ b \in D
      BY <1>z DEF Doomed, Att
    <3> HIDE DEF D
    <3>3. QED BY <1>0, <1>2, <1>4, <2>2, <3>1, <3>2 DEF FilesInv, DeadInv
  <2>5. QED BY <2>2, <2>3, <2>4 DEF FilesInv
<1>5. QED BY <1>0, <1>3, <1>4

(* A note's removal is no part of an account's.                                  *)
LEMMA DeleteNoteStep ==
  ASSUME FilesInv, DeleteNote
  PROVE  FilesInv'
<1> USE DEF DiskWorks, Accounts, Outside
<1>1. PICK b \in rows["notes"] :
        storeOp' = [storeOp EXCEPT !["notes"] = [kind |-> "unlink", req |-> "none", owner |-> b.owner, todo |-> {b}, done |-> {b}]]
  BY DEF DeleteNote
<1>2. /\ filesUp /\ storeOp["notes"].kind = "free" /\ "notes" \in Stores /\ Att \in Stores /\ Att # "notes"
      /\ UNCHANGED <<rows, files, upload, removal, liveOwners, filesUp, diskClean, halfRemoved, altered, blobsEver>>
  BY DEF DeleteNote, HeldBlobs, Stores, Att
<1>3. {b} \in SUBSET rows["notes"] OBVIOUS
<1>4. /\ ShapeInv' /\ BlobInv' /\ ReadInv'
      /\ storeOp'["notes"].kind = "unlink" /\ storeOp'["notes"].req = "none"
      /\ storeOp'["notes"].todo = {b} /\ storeOp'["notes"].done = {b}
      /\ \A t \in Stores : t # "notes" =>
            storeOp'[t] = storeOp[t] /\ Pending(t)' = Pending(t) /\ Unlinked(t)' = Unlinked(t)
  BY <1>1, <1>2, <1>3, UnlinkBegins
<1>5. OpInv' BY <1>2, <1>3, <1>4 DEF FilesInv, OpInv
<1>6. DeadInv' BY <1>2, <1>4 DEF FilesInv, DeadInv
<1>7. QED BY <1>4, <1>5, <1>6 DEF FilesInv

(* One row's file goes, or the disk refuses.  The attachment index then keeps    *)
(* the row, whose file is still there.                                          *)
LEMMA UnlinkBlobStep ==
  ASSUME FilesInv, NEW s \in Stores, UnlinkBlob(s)
  PROVE  FilesInv'
<1> USE DEF DiskWorks, DiskFails, Accounts, Outside
<1>z. PICK b \in storeOp[s].todo :
        \/ /\ files' = [files EXCEPT ![s] = @ \ {f \in files[s] : f.id = b.id}] /\ UNCHANGED diskClean
           /\ storeOp' = [storeOp EXCEPT ![s].todo = @ \ {b}]
        \/ /\ diskClean' = FALSE /\ UNCHANGED files
           /\ storeOp' = [storeOp EXCEPT ![s].todo = @ \ {b}, ![s].done = IF KeepsRow(s) THEN @ \ {b} ELSE @]
  BY DEF UnlinkBlob
<1>0. /\ filesUp /\ storeOp[s].kind = "unlink"
      /\ UNCHANGED <<liveOwners, filesUp, altered, rows, upload, removal, halfRemoved, blobsEver>>
  BY DEF UnlinkBlob
<1>1. /\ storeOp[s].todo \subseteq storeOp[s].done /\ storeOp[s].done \subseteq rows[s] /\ b \in rows[s]
      /\ IsOp(storeOp[s]) /\ DOMAIN storeOp = Stores /\ DOMAIN files = Stores
  BY <1>0 DEF FilesInv, OpInv, ShapeInv
<1>2. PICK D \in {storeOp[s].done, storeOp[s].done \ {b}} :
        /\ storeOp' = [storeOp EXCEPT ![s] = [storeOp[s] EXCEPT !.todo = storeOp[s].todo \ {b}, !.done = D]]
        /\ diskClean' => D = storeOp[s].done /\ files' = [files EXCEPT ![s] = @ \ {f \in files[s] : f.id = b.id}]
        /\ D = storeOp[s].done \/ UNCHANGED files
        /\ UNCHANGED files \/ files' = [files EXCEPT ![s] = @ \ {f \in files[s] : f.id = b.id}]
        /\ diskClean' => diskClean
  <2>1. CASE /\ files' = [files EXCEPT ![s] = @ \ {f \in files[s] : f.id = b.id}] /\ UNCHANGED diskClean
             /\ storeOp' = [storeOp EXCEPT ![s].todo = @ \ {b}]
    <3>1. [storeOp[s] EXCEPT !.todo = storeOp[s].todo \ {b}]
            = [storeOp[s] EXCEPT !.todo = storeOp[s].todo \ {b}, !.done = storeOp[s].done]
      BY <1>1 DEF IsOp
    <3>2. storeOp' = [storeOp EXCEPT ![s] = [storeOp[s] EXCEPT !.todo = storeOp[s].todo \ {b}]]
      BY <2>1
    <3>3. QED BY <2>1, <3>1, <3>2
  <2>2. CASE /\ diskClean' = FALSE /\ UNCHANGED files
             /\ storeOp' = [storeOp EXCEPT ![s].todo = @ \ {b}, ![s].done = IF KeepsRow(s) THEN @ \ {b} ELSE @]
    <3>1. PICK D \in {storeOp[s].done, storeOp[s].done \ {b}} : D = IF KeepsRow(s) THEN storeOp[s].done \ {b} ELSE storeOp[s].done
      OBVIOUS
    <3>2. storeOp' = [storeOp EXCEPT ![s] = [storeOp[s] EXCEPT !.todo = storeOp[s].todo \ {b}, !.done = D]]
      BY <1>1, <2>2, <3>1 DEF IsOp
    <3>3. QED BY <2>2, <3>1, <3>2
  <2>3. QED BY <1>z, <2>1, <2>2
<1>3. /\ storeOp'[s] = [kind |-> "unlink", req |-> storeOp[s].req, owner |-> storeOp[s].owner,
                        todo |-> storeOp[s].todo \ {b}, done |-> D]
      /\ \A t \in Stores : t # s => storeOp'[t] = storeOp[t] /\ files'[t] = files[t]
  <2>1. storeOp'[s] = [storeOp[s] EXCEPT !.todo = storeOp[s].todo \ {b}, !.done = D] BY <1>1, <1>2
  <2>2. storeOp'[s] = [kind |-> storeOp[s].kind, req |-> storeOp[s].req, owner |-> storeOp[s].owner,
                       todo |-> storeOp[s].todo \ {b}, done |-> D]
    BY <1>1, <2>1 DEF IsOp
  <2>3. QED BY <1>0, <1>1, <1>2, <2>2
<1>4. /\ storeOp'[s].kind = "unlink" /\ storeOp'[s].req = storeOp[s].req
      /\ storeOp'[s].todo = storeOp[s].todo \ {b} /\ storeOp'[s].done = D /\ IsOp(storeOp'[s])
  BY <1>3 DEF IsOp
<1>5. /\ files'[s] \subseteq files[s] /\ \A f \in files[s] : f.id # b.id => f \in files'[s]
      /\ D # storeOp[s].done => files'[s] = files[s]
      /\ diskClean' => \A f \in files'[s] : f.id # b.id
  BY <1>1, <1>2
<1>6. \A t \in Stores : Pending(t)' = Pending(t)
  BY <1>0, <1>3, <1>4 DEF Pending
<1>7. /\ Unlinked(s) = storeOp[s].done \ storeOp[s].todo
      /\ Unlinked(s)' = D \ (storeOp[s].todo \ {b})
      /\ \A t \in Stores : t # s => Unlinked(t)' = Unlinked(t)
  BY <1>0, <1>3, <1>4 DEF Unlinked
<1>8. ShapeInv'
  <2>1. DOMAIN files' = Stores /\ DOMAIN storeOp' = Stores BY <1>1, <1>2
  <2>2. diskClean' \in BOOLEAN BY <1>z DEF FilesInv, ShapeInv
  <2>3. QED BY <1>0, <1>3, <1>4, <2>1, <2>2 DEF FilesInv, ShapeInv
<1>9. BlobInv'
  <2>1. \A t \in Stores : Known(t)' \subseteq Known(t) BY <1>0, <1>3, <1>5, <1>6 DEF Known
  <2>2. QED BY <1>0, <1>6, <2>1 DEF FilesInv, BlobInv
<1>10. OpInv'
  <2>1. D \subseteq storeOp[s].done /\ storeOp[s].todo \ {b} \subseteq D BY <1>1
  <2>2. ASSUME NEW t \in Stores
        PROVE  /\ storeOp'[t].kind = "store" => storeOp'[t].done \subseteq files'[t] /\ storeOp'[t].req # "removal"
               /\ storeOp'[t].kind = "unlink" =>
                    storeOp'[t].todo \subseteq storeOp'[t].done /\ storeOp'[t].done \subseteq rows'[t]
               /\ storeOp'[t].req = "removal" =>
                    /\ storeOp'[t].kind = "unlink"
                    /\ removal'.pc \in (IF t = Att THEN {"attachments", "sweep"} ELSE {"notes"})
    <3>1. CASE t = s BY <1>0, <1>1, <1>4, <2>1, <3>1 DEF FilesInv, OpInv
    <3>2. CASE t # s
      <4>1. storeOp'[t] = storeOp[t] /\ rows'[t] = rows[t] /\ files'[t] = files[t] BY <1>0, <1>3, <3>2
      <4>2. QED BY <1>0, <4>1 DEF FilesInv, OpInv
    <3>3. QED BY <3>1, <3>2
  <2>3. storeOp'[Att].kind = storeOp[Att].kind /\ storeOp'[Att].req = storeOp[Att].req
    BY <1>0, <1>3, <1>4 DEF Stores, Att
  <2>4. QED BY <1>0, <2>2, <2>3 DEF FilesInv, OpInv
<1>11. ReadInv'
  <2>1. ASSUME NEW c \in rows[s]
        PROVE  Verified(s, c)' \/ c \in halfRemoved \cup altered \cup Unlinked(s)'
    <3>1. CASE c.id = b.id
      <4>1. c = b BY <1>1, <3>1 DEF FilesInv, BlobInv
      <4>2. CASE D = storeOp[s].done BY <1>1, <1>7, <4>1, <4>2
      <4>3. CASE D # storeOp[s].done
        <5>1. Verified(s, c) \/ c \in halfRemoved \cup altered BY <1>7, <4>1 DEF FilesInv, ReadInv
        <5>2. QED BY <1>5, <4>3, <5>1 DEF Verified
      <4>4. QED BY <4>2, <4>3
    <3>2. CASE c.id # b.id
      <4>1. Verified(s, c) => Verified(s, c)' BY <1>5, <3>2 DEF Verified
      <4>2. c \in Unlinked(s) => c \in Unlinked(s)' BY <1>7, <3>2
      <4>3. QED BY <4>1, <4>2 DEF FilesInv, ReadInv
    <3>3. QED BY <3>1, <3>2
  <2>2. QED BY <1>0, <1>3, <1>7, <2>1 DEF FilesInv, ReadInv, Verified
<1>12. DeadInv'
  <2>1. Att \in Stores BY DEF Stores, Att
  <2>2. CASE s # Att BY <1>0, <1>2, <1>3, <1>6, <1>7, <2>1, <2>2 DEF FilesInv, DeadInv
  <2>3. CASE s = Att
    <3>1. SUFFICES ASSUME diskClean' PROVE DeadInv' BY DEF DeadInv
    <3>2. D = storeOp[Att].done /\ diskClean BY <1>2, <2>3, <3>1
    <3>3. ASSUME NEW f \in files'[Att]
          PROVE  f \in Pending(Att) \/ \E c \in rows[Att] \ Unlinked(Att)' : c.id = f.id
      <4>1. f \in files[Att] /\ f.id # b.id BY <1>5, <2>3, <3>1
      <4>2. f \in Pending(Att) \/ \E c \in rows[Att] \ Unlinked(Att) : c.id = f.id
        BY <1>0, <3>2, <4>1 DEF FilesInv, DeadInv
      <4>3. \A c \in rows[Att] \ Unlinked(Att) : c.id = f.id => c \notin Unlinked(Att)'
        BY <1>7, <2>3, <3>2, <4>1
      <4>4. QED BY <4>2, <4>3
    <3>4. QED BY <1>0, <1>4, <1>6, <2>1, <2>3, <3>2, <3>3 DEF FilesInv, DeadInv
  <2>4. QED BY <2>2, <2>3
<1>13. QED BY <1>8, <1>9, <1>10, <1>11, <1>12 DEF FilesInv

(* The index drops the rows whose files are gone; the removal goes on when the   *)
(* rows were its own.                                                           *)
LEMMA DropRowsStep ==
  ASSUME FilesInv, NEW s \in Stores, DropRows(s)
  PROVE  FilesInv'
<1> USE DEF DiskWorks, DiskFails, Accounts, Outside
<1>0. /\ filesUp /\ storeOp[s].kind = "unlink" /\ storeOp[s].todo = {}
      /\ UNCHANGED <<liveOwners, filesUp, altered, files, upload, blobsEver>>
      /\ storeOp' = [storeOp EXCEPT ![s] = FreeStore]
      /\ removal' = IF storeOp[s].req = "removal" THEN AfterRemoval(removal) ELSE removal
      /\ \/ rows' = [rows EXCEPT ![s] = @ \ storeOp[s].done] /\ UNCHANGED <<diskClean, halfRemoved>>
         \/ diskClean' = FALSE /\ UNCHANGED rows /\ halfRemoved' = halfRemoved \cup storeOp[s].done
  BY DEF DropRows
<1>1. /\ storeOp'[s] = FreeStore /\ \A t \in Stores : t # s => storeOp'[t] = storeOp[t]
      /\ DOMAIN storeOp' = Stores /\ \A t \in Stores : IsOp(storeOp'[t])
  BY <1>0 DEF FilesInv, ShapeInv, IsOp, FreeStore
<1>2. /\ \A t \in Stores : rows'[t] \subseteq rows[t] /\ (t # s => rows'[t] = rows[t])
      /\ DOMAIN rows' = Stores /\ halfRemoved \subseteq halfRemoved'
      /\ \A b \in rows'[s] : b \in storeOp[s].done => b \in halfRemoved'
      /\ diskClean' => diskClean /\ rows'[s] = rows[s] \ storeOp[s].done
  BY <1>0 DEF FilesInv, ShapeInv
<1>3. /\ Pending(s) = {} /\ Pending(s)' = {} /\ Unlinked(s) = storeOp[s].done /\ Unlinked(s)' = {}
  BY <1>0, <1>1 DEF Pending, Unlinked, FreeStore
<1>4. \A t \in Stores : t # s => Pending(t)' = Pending(t) /\ Unlinked(t)' = Unlinked(t)
  BY <1>1 DEF Pending, Unlinked
<1>5. /\ removal \in Removals /\ removal' \in Removals
      /\ removal' = removal \/ (storeOp[s].req = "removal" /\ removal' = AfterRemoval(removal))
  <2>1. removal \in Removals BY DEF FilesInv, ShapeInv
  <2>2. storeOp[s].req = "removal" => removal.pc \in {"attachments", "notes", "sweep"}
    BY DEF FilesInv, OpInv
  <2>3. removal.pc \in {"attachments", "notes", "sweep"} => AfterRemoval(removal) \in Removals
    BY <2>1 DEF AfterRemoval, Removals, NoRemoval
  <2>4. QED BY <1>0, <2>1, <2>2, <2>3
<1>6. ShapeInv'
  <2>1. diskClean' \in BOOLEAN BY <1>0 DEF FilesInv, ShapeInv
  <2>2. QED BY <1>0, <1>1, <1>2, <1>5, <2>1 DEF FilesInv, ShapeInv
<1>7. BlobInv'
  <2>1. \A t \in Stores : Pending(t)' = Pending(t) BY <1>3, <1>4
  <2>2. \A t \in Stores : Known(t)' \subseteq Known(t) BY <1>0, <1>2, <2>1 DEF Known
  <2>3. QED BY <1>0, <1>2, <2>1, <2>2 DEF FilesInv, BlobInv
<1>8. ReadInv' BY <1>0, <1>2, <1>3, <1>4 DEF FilesInv, ReadInv, Verified
<1>9. OpInv'
  <2>1. FreeStore.kind = "free" /\ FreeStore.req = "none" BY DEF FreeStore
  <2>2. \A t \in Stores : t # s => storeOp[t].req # "removal" \/ storeOp[s].req # "removal"
    BY DEF FilesInv, OpInv, Stores, Att
  <2>3. ASSUME NEW t \in Stores
        PROVE  /\ storeOp'[t].kind = "store" => storeOp'[t].done \subseteq files'[t] /\ storeOp'[t].req # "removal"
               /\ storeOp'[t].kind = "unlink" =>
                    storeOp'[t].todo \subseteq storeOp'[t].done /\ storeOp'[t].done \subseteq rows'[t]
               /\ storeOp'[t].req = "removal" =>
                    /\ storeOp'[t].kind = "unlink"
                    /\ removal'.pc \in (IF t = Att THEN {"attachments", "sweep"} ELSE {"notes"})
    <3>1. CASE t = s BY <1>1, <2>1, <3>1
    <3>2. CASE t # s
      <4>1. storeOp'[t] = storeOp[t] /\ rows'[t] = rows[t] /\ files'[t] = files[t] BY <1>0, <1>1, <1>2, <3>2
      <4>2. storeOp[t].req = "removal" => removal' = removal BY <1>5, <2>2, <3>2
      <4>3. QED BY <4>1, <4>2 DEF FilesInv, OpInv
    <3>3. QED BY <3>1, <3>2
  <2>4. storeOp'[Att].kind = "unlink" => storeOp'[Att].req = "removal"
    BY <1>1, <2>1 DEF FilesInv, OpInv, Stores, Att
  <2>5. QED BY <1>0, <2>3, <2>4 DEF OpInv
<1>10. DeadInv'
  <2>1. Att \in Stores BY DEF Stores, Att
  <2>2. CASE s # Att
    <3>1. storeOp[s].req = "removal" => removal.pc = "notes" /\ storeOp[Att].kind # "unlink"
      BY <2>1, <2>2 DEF FilesInv, OpInv
    <3>2. \/ removal' = removal
          \/ /\ storeOp[Att].kind # "unlink" /\ removal'.pc # "idle" /\ removal'.clear = removal.clear
      BY <1>5, <3>1 DEF AfterRemoval, Removals
    <3>3. QED BY <1>0, <1>1, <1>2, <1>4, <2>1, <2>2, <3>2 DEF FilesInv, DeadInv
  <2>3. CASE s = Att
    <3>1. SUFFICES ASSUME diskClean' PROVE DeadInv' BY DEF DeadInv
    <3>2. diskClean /\ rows'[Att] = rows[Att] \ storeOp[Att].done BY <1>2, <2>3, <3>1
    <3>3. storeOp[Att].req = "removal" /\ removal.pc \in {"attachments", "sweep"}
      BY <1>0, <2>1, <2>3 DEF FilesInv, OpInv
    <3>4. removal' = AfterRemoval(removal) BY <1>0, <2>3, <3>3
    <3>5. removal'.pc = "idle" \/ removal'.clear => removal.clear \/ removal.pc = "sweep"
      BY <1>5, <3>3, <3>4 DEF AfterRemoval, Removals, NoRemoval
    <3>6. storeOp'[Att].kind # "unlink" BY <1>1, <2>3 DEF FreeStore
    <3>7. ASSUME removal'.pc = "idle" \/ removal'.clear, NEW b \in rows'[Att]
          PROVE  b.owner \in liveOwners
      BY <1>0, <2>3, <3>2, <3>5, <3>7 DEF FilesInv, DeadInv
    <3>8. \A f \in files[Att] : \E b \in rows'[Att] : b.id = f.id
      BY <1>0, <1>3, <2>3, <3>2 DEF FilesInv, DeadInv
    <3>9. QED BY <1>0, <1>3, <2>3, <3>6, <3>7, <3>8 DEF DeadInv
  <2>4. QED BY <2>2, <2>3
<1>11. QED BY <1>6, <1>7, <1>8, <1>9, <1>10 DEF FilesInv

-----------------------------------------------------------------------------
(* Death of the process frees the locks; what a removal was about is remembered   *)
(* as half removed.                                                              *)
LEMMA FilesCrashStep ==
  ASSUME FilesInv, FilesCrash
  PROVE  FilesInv'
<1> USE DEF DiskWorks
<1>0. /\ filesUp' = FALSE /\ UNCHANGED <<diskClean, rows, files, liveOwners, altered, blobsEver>>
      /\ storeOp' = [s \in Stores |-> FreeStore] /\ upload' = [r \in Requests |-> NoUpload] /\ removal' = NoRemoval
      /\ halfRemoved' = halfRemoved \cup UNION {IF storeOp[s].kind = "unlink" THEN storeOp[s].done ELSE {} : s \in Stores}
  BY DEF FilesCrash
<1>1. FreeStore.kind = "free" /\ FreeStore.req = "none" /\ IsOp(FreeStore) BY DEF FreeStore, IsOp
<1>2. NoUpload \in UploadRecords /\ NoUpload.pc = "idle" /\ NoRemoval \in Removals /\ NoRemoval.pc = "idle"
  BY DEF NoUpload, UploadRecords, Stores, NoRemoval, Removals
<1>3. \A s \in Stores : Pending(s)' = {} /\ Unlinked(s)' = {} /\ Unlinked(s) \subseteq halfRemoved'
  BY <1>0, <1>1 DEF Pending, Unlinked
<1>4. ShapeInv' BY <1>0, <1>1, <1>2 DEF FilesInv, ShapeInv
<1>5. BlobInv'
  <2>1. \A t \in Stores : Known(t)' \subseteq Known(t) BY <1>0, <1>3 DEF Known
  <2>2. QED BY <1>0, <1>3, <2>1 DEF FilesInv, BlobInv
<1>6. ReadInv' BY <1>0, <1>3 DEF FilesInv, ReadInv, Verified
<1>7. OpInv' BY <1>0, <1>1, <1>2 DEF OpInv, Stores, Att
<1>8. DeadInv' BY <1>0 DEF DeadInv
<1>9. QED BY <1>4, <1>5, <1>6, <1>7, <1>8 DEF FilesInv

(* Startup sweeps the attachments of dead owners and the files without a row, or *)
(* fails to and serves all the same.                                            *)
LEMMA FilesRestartStep ==
  ASSUME FilesInv, FilesRestart
  PROVE  FilesInv'
<1> USE DEF DiskFails
<1>0. /\ ~filesUp /\ filesUp' = TRUE
      /\ UNCHANGED <<storeOp, upload, removal, liveOwners, altered, halfRemoved, blobsEver>>
      /\ \/ /\ diskClean' = TRUE
            /\ rows' = [rows EXCEPT ![Att] = {b \in @ : b.owner \in liveOwners}]
            /\ files' = [files EXCEPT ![Att] = {f \in Swept(@) : f.owner \in liveOwners}]
         \/ diskClean' = FALSE /\ UNCHANGED <<rows, files>>
  BY DEF FilesRestart, Att
<1>1. /\ removal.pc = "idle" /\ \A s \in Stores : storeOp[s].kind = "free" /\ Pending(s) = {} /\ Unlinked(s) = {}
      /\ \A s \in Stores : Pending(s)' = {} /\ Unlinked(s)' = {}
  BY <1>0 DEF FilesInv, OpInv, Pending, Unlinked
<1>2. Att \in Stores BY DEF Stores, Att
<1>3. /\ DOMAIN rows' = Stores /\ DOMAIN files' = Stores
      /\ \A s \in Stores : rows'[s] \subseteq rows[s] /\ files'[s] \subseteq files[s]
      /\ \A s \in Stores : s # Att => rows'[s] = rows[s] /\ files'[s] = files[s]
  BY <1>0 DEF FilesInv, ShapeInv, Swept
<1>4. ShapeInv' BY <1>0, <1>3 DEF FilesInv, ShapeInv
<1>5. BlobInv'
  <2>1. \A t \in Stores : Known(t)' \subseteq Known(t) BY <1>1, <1>3 DEF Known
  <2>2. QED BY <1>0, <1>1, <1>3, <2>1 DEF FilesInv, BlobInv
<1>6. OpInv' BY <1>0, <1>1, <1>3 DEF FilesInv, OpInv
<1>7. CASE diskClean' = FALSE /\ UNCHANGED <<rows, files>>
  <2>1. ReadInv' BY <1>0, <1>1, <1>7 DEF FilesInv, ReadInv, Verified
  <2>2. DeadInv' BY <1>7 DEF DeadInv
  <2>3. QED BY <1>4, <1>5, <1>6, <2>1, <2>2 DEF FilesInv
<1>8. CASE /\ diskClean' = TRUE
           /\ rows' = [rows EXCEPT ![Att] = {b \in @ : b.owner \in liveOwners}]
           /\ files' = [files EXCEPT ![Att] = {f \in Swept(@) : f.owner \in liveOwners}]
  <2>1. /\ rows'[Att] = {b \in rows[Att] : b.owner \in liveOwners}
        /\ files'[Att] = {f \in files[Att] : Listed(Att, f) /\ f.owner \in liveOwners}
    BY <1>2, <1>8 DEF FilesInv, ShapeInv, Swept, Att
  <2>2. ASSUME NEW b \in rows'[Att], Verified(Att, b) PROVE Verified(Att, b)'
    BY <2>1, <2>2 DEF Verified, Listed
  <2>3. ReadInv' BY <1>0, <1>1, <1>2, <1>3, <2>2 DEF FilesInv, ReadInv, Verified
  <2>4. ASSUME NEW f \in files'[Att] PROVE \E b \in rows'[Att] : b.id = f.id
    <3>1. PICK b \in rows[Att] : b.id = f.id BY <2>1 DEF Listed
    <3>2. b \in Known(Att) /\ f \in Known(Att) BY <2>1, <3>1 DEF Known
    <3>3. b.owner = f.owner BY <1>2, <3>1, <3>2 DEF FilesInv, BlobInv
    <3>4. QED BY <2>1, <3>1, <3>3
  <2>5. DeadInv' BY <1>0, <1>1, <1>2, <2>1, <2>4 DEF DeadInv
  <2>6. QED BY <1>4, <1>5, <1>6, <2>3, <2>5 DEF FilesInv
<1>9. QED BY <1>0, <1>7, <1>8

(* Another hand changes the content of a listed file and nothing else of it.      *)
LEMMA AlterFileStep ==
  ASSUME FilesInv, AlterFile
  PROVE  FilesInv'
<1> USE DEF DiskWorks, Accounts
<1>1. PICK s \in Stores : \E f \in files[s] :
         /\ f.data # "tampered" /\ Listed(s, f)
         /\ files' = [files EXCEPT ![s] = (@ \ {f}) \cup {[f EXCEPT !.data = "tampered"]}] /\ altered' = altered \cup {f}
  BY DEF AlterFile
<1>2. PICK f \in files[s] :
         /\ Listed(s, f)
         /\ files' = [files EXCEPT ![s] = (@ \ {f}) \cup {[f EXCEPT !.data = "tampered"]}] /\ altered' = altered \cup {f}
  BY <1>1
<1>0. UNCHANGED <<diskClean, liveOwners, filesUp, rows, storeOp, upload, removal, halfRemoved, blobsEver>>
  BY DEF AlterFile
<1> DEFINE g == [f EXCEPT !.data = "tampered"]
<1>3. /\ IsBlob(f) /\ f \in Known(s) /\ f.id <= blobsEver
  BY DEF FilesInv, BlobInv, Known
<1>4. IsBlob(g) /\ g.id = f.id /\ g.owner = f.owner BY <1>3 DEF IsBlob
<1>5. /\ files'[s] = (files[s] \ {f}) \cup {g} /\ DOMAIN files' = Stores
      /\ \A t \in Stores : t # s => files'[t] = files[t]
  BY <1>2 DEF FilesInv, ShapeInv
<1> HIDE DEF g
<1>6. \A t \in Stores : Pending(t)' = Pending(t) /\ Unlinked(t)' = Unlinked(t) BY <1>0 DEF Pending, Unlinked
<1>7. ShapeInv' BY <1>0, <1>5 DEF FilesInv, ShapeInv
<1>8. BlobInv'
  <2>1. Known(s)' \subseteq Known(s) \cup {g} /\ \A t \in Stores : t # s => Known(t)' = Known(t)
    BY <1>0, <1>5, <1>6 DEF Known
  <2>2. \A t \in Stores : \A x \in Known(t)' : IsBlob(x) /\ x.id <= blobsEver
    BY <1>3, <1>4, <2>1 DEF FilesInv, BlobInv
  <2>3. \A t \in Stores : \A x, y \in Known(t)' : x.id = y.id => x.owner = y.owner
    BY <1>3, <1>4, <2>1 DEF FilesInv, BlobInv
  <2>4. QED BY <1>0, <1>6, <2>2, <2>3 DEF FilesInv, BlobInv
<1>9. f \notin Pending(s) BY <1>2 DEF FilesInv, BlobInv, Listed
<1>10. OpInv'
  <2>1. storeOp[s].kind = "store" => storeOp[s].done \subseteq files'[s]
    BY <1>5, <1>9 DEF FilesInv, OpInv, Pending
  <2>2. \A t \in Stores : storeOp[t].kind = "store" => storeOp[t].done \subseteq files'[t]
    BY <1>5, <2>1 DEF FilesInv, OpInv
  <2>3. QED BY <1>0, <2>2 DEF FilesInv, OpInv
<1>11. ReadInv'
  <2>1. ASSUME NEW b \in rows[s], Verified(s, b) PROVE Verified(s, b)' \/ b \in altered'
    <3>1. PICK h \in files[s] : h.id = b.id /\ h.owner = b.owner /\ h.size = b.size /\ h.data = b.data
      BY <2>1 DEF Verified
    <3>2. CASE h # f BY <1>5, <3>1, <3>2 DEF Verified
    <3>3. CASE h = f
      <4>1. IsBlob(b) BY DEF FilesInv, BlobInv, Known
      <4>2. b = f BY <1>3, <3>1, <3>3, <4>1 DEF IsBlob
      <4>3. QED BY <1>2, <4>2
    <3>4. QED BY <3>2, <3>3
  <2>2. ASSUME NEW t \in Stores, t # s, NEW b \in rows[t], Verified(t, b) PROVE Verified(t, b)'
    BY <1>5, <2>2 DEF Verified
  <2>3. altered \subseteq altered' BY <1>2
  <2>4. QED BY <1>0, <1>6, <2>1, <2>2, <2>3 DEF FilesInv, ReadInv
<1>12. DeadInv'
  <2>1. Att \in Stores BY DEF Stores, Att
  <2>2. \A h \in files'[Att] : \/ h \in files[Att]
                               \/ s = Att /\ h = g
    BY <1>5, <2>1
  <2>3. filesUp /\ diskClean => \A h \in files'[Att] :
            h \in Pending(Att) \/ \E b \in rows[Att] \ Unlinked(Att) : b.id = h.id
    BY <1>4, <1>9, <2>2 DEF FilesInv, DeadInv
  <2>4. QED BY <1>0, <1>6, <2>1, <2>3 DEF FilesInv, DeadInv
<1>13. QED BY <1>7, <1>8, <1>10, <1>11, <1>12 DEF FilesInv

-----------------------------------------------------------------------------
(* The stores start empty.                                                       *)
LEMMA FilesInitInv == OwnerFilesInit => FilesInv
<1> SUFFICES ASSUME OwnerFilesInit PROVE FilesInv OBVIOUS
<1> USE DEF OwnerFilesInit
<1>1. FreeStore.kind = "free" /\ FreeStore.req = "none" /\ IsOp(FreeStore) BY DEF FreeStore, IsOp
<1>2. NoUpload \in UploadRecords /\ NoUpload.pc = "idle" /\ NoRemoval \in Removals /\ NoRemoval.pc = "idle"
  BY DEF NoUpload, UploadRecords, Stores, NoRemoval, Removals
<1>3. ShapeInv BY <1>1, <1>2 DEF ShapeInv
<1>4. \A s \in Stores : Pending(s) = {} /\ Known(s) = {} BY <1>1 DEF Pending, Known
<1>5. BlobInv BY <1>4 DEF BlobInv
<1>6. OpInv BY <1>1, <1>2 DEF OpInv, Stores, Att
<1>7. ReadInv BY DEF ReadInv
<1>8. DeadInv BY <1>4 DEF DeadInv, Stores, Att
<1>9. QED BY <1>3, <1>5, <1>6, <1>7, <1>8 DEF FilesInv

(* Every step keeps the invariant.                                               *)
LEMMA FilesNextInv == FilesInv /\ [OwnerFilesNext]_fileVars => FilesInv'
<1> SUFFICES ASSUME FilesInv, [OwnerFilesNext]_fileVars PROVE FilesInv' OBVIOUS
<1>1. CASE UNCHANGED fileVars
  <2>1. BlobInv' /\ ReadInv' BY <1>1, StoresAlone DEF FilesInv, storeVars, fileVars
  <2>2. ShapeInv' BY <1>1 DEF FilesInv, ShapeInv, fileVars
  <2>3. OpInv' /\ DeadInv' BY <1>1 DEF FilesInv, OpInv, DeadInv, Pending, Unlinked, fileVars
  <2>4. QED BY <2>1, <2>2, <2>3 DEF FilesInv
<1>2. CASE \E r \in Requests : BeginUpload(r) \/ BodyEnds(r) \/ StoreStarts(r)
  BY <1>2, BeginUploadStep, BodyEndsStep, StoreStartsStep
<1>3. CASE \E s \in Stores : WriteBlob(s) \/ ListBlobs(s) \/ UnlinkBlob(s) \/ DropRows(s)
  BY <1>3, WriteBlobStep, ListBlobsStep, UnlinkBlobStep, DropRowsStep
<1>4. CASE DeleteAccount \/ ClearSessions \/ RemovalStarts \/ DeleteNote
  BY <1>4, DeleteAccountStep, ClearSessionsStep, RemovalStartsStep, DeleteNoteStep
<1>5. CASE FilesCrash \/ FilesRestart \/ AlterFile
  BY <1>5, FilesCrashStep, FilesRestartStep, AlterFileStep
<1>6. QED BY <1>1, <1>2, <1>3, <1>4, <1>5 DEF OwnerFilesNext

(* Both properties, of every reachable state.                                    *)
LEMMA FilesHold == FilesInv => ListedIsReadable /\ DeadOwnerLeavesNothing
<1> SUFFICES ASSUME FilesInv PROVE ListedIsReadable /\ DeadOwnerLeavesNothing OBVIOUS
<1>1. ListedIsReadable BY DEF FilesInv, ReadInv, ListedIsReadable, Unlinked
<1>2. DeadOwnerLeavesNothing
  <2>1. SUFFICES ASSUME filesUp /\ diskClean /\ removal.pc = "idle" /\ ~HeldBlobs(Att)
                 PROVE  /\ \A b \in rows[Att] \cup files[Att] : b.owner \in liveOwners
                        /\ \A f \in files[Att] : Listed(Att, f)
    BY DEF DeadOwnerLeavesNothing, Att
  <2>2. Att \in Stores /\ Pending(Att) = {} /\ Unlinked(Att) = {}
    BY <2>1 DEF Stores, Att, Pending, Unlinked, HeldBlobs
  <2>3. \A b \in rows[Att] : b.owner \in liveOwners BY <2>1 DEF FilesInv, DeadInv
  <2>4. \A f \in files[Att] : \E b \in rows[Att] : b.id = f.id BY <2>1, <2>2 DEF FilesInv, DeadInv
  <2>5. \A f \in files[Att], b \in rows[Att] : b.id = f.id => b.owner = f.owner
    BY <2>2 DEF FilesInv, BlobInv, Known
  <2>6. QED BY <2>3, <2>4, <2>5 DEF Listed
<1>3. QED BY <1>1, <1>2

(* Store writes a blob before it lists it and a removal unlinks before it drops   *)
(* the row (attachments.rs store_guarded, unlink_owner; notes_corpus.rs): a       *)
(* listed blob reads back as uploaded, unless its removal is under way or was cut *)
(* short or another hand changed it.                                             *)
THEOREM ListedReadable == OwnerFilesSpec => []ListedIsReadable
<1>1. OwnerFilesSpec => []FilesInv BY FilesInitInv, FilesNextInv, PTL DEF OwnerFilesSpec
<1>2. QED BY <1>1, FilesHold, PTL

(* Once delete_user is finished nothing of the account is left among the          *)
(* attachments and no file there lacks a row, for uploads in flight across the    *)
(* deletion and crashes between any two steps, as long as no disk step failed     *)
(* since startup (attachments.rs store_guarded, sweep_dead_owners; routes/auth.rs *)
(* delete_user).                                                                 *)
THEOREM DeletionIsComplete == OwnerFilesSpec => []DeadOwnerLeavesNothing
<1>1. OwnerFilesSpec => []FilesInv BY FilesInitInv, FilesNextInv, PTL DEF OwnerFilesSpec
<1>2. QED BY <1>1, FilesHold, PTL

-----------------------------------------------------------------------------
(* Accounts.                                                                *)

LoginRows == [user : Names, created : Nat, seen : Nat, expires : Nat, revoked : BOOLEAN]

(* Counters and times of a lockout are left open: nothing here depends on   *)
(* them.                                                                    *)
IsUser(u) == DOMAIN u = DOMAIN NoUser /\ u.disabled \in BOOLEAN

IsDb(d) ==
  /\ DOMAIN d = DOMAIN NoDb
  /\ DOMAIN d.users = Names /\ \A n \in Names : IsUser(d.users[n])
  /\ d.sessions \in [Tokens -> LoginRows] /\ d.held \subseteq Tokens

(* With the ended sessions e and the last uses l: a session that was not    *)
(* revoked was not ended, its row is no younger than its last use, and its  *)
(* account may sign in.                                                     *)
GoodSession(d, s, e, l) ==
  /\ s \notin e /\ d.sessions[s].seen <= l[s]
  /\ HasUser(d, d.sessions[s].user) /\ ~d.users[d.sessions[s].user].disabled
SessionsHold(d, e, l) == \A s \in d.held : d.sessions[s].revoked \/ GoodSession(d, s, e, l)

(* With the setup code c: every account's password is known to somebody;    *)
(* only the first administrator's may be one nobody has chosen.             *)
PasswordKnown(d, n, c, served) ==
  \/ d.users[n].pw = Chosen
  \/ n = Admin /\ (d.users[n].pw = c \/ (~served /\ ShippedAdmin(d)))
Administered(d, c, served) ==
  /\ EnabledAdmins(d) # {}
  /\ \A n \in Names : HasUser(d, n) => PasswordKnown(d, n, c, served)

AccountRequestsOk ==
  /\ DOMAIN accountRequests = AccountRequests
  /\ \A r \in AccountRequests : accountRequests[r].actor \in Names /\ accountRequests[r].target \in Names

SessionTimesOk == accountClock \in Nat /\ lastUse \in [Tokens -> Nat] /\ \A s \in Tokens : lastUse[s] <= accountClock

AuthFilesOk ==
  /\ DOMAIN authFiles = DOMAIN NoFiles
  /\ IsDb(authFiles.db) /\ IsDb(authFiles.legacy) /\ IsDb(stagedAccounts) /\ IsDb(live)
  /\ \A n \in Names : HasUser(authFiles.legacy, n) => n = Admin /\ ShippedAdmin(authFiles.legacy)

(* What the process has in memory is what it has committed.                 *)
AccountCopiesOk ==
  /\ authServer \in {"rotate", "rotated", "up"} => live = authFiles.db
  /\ authServer \in {"rotate", "rotated"} => ShippedAdmin(live)
  /\ authServer = "mark" => stagedAccounts = authFiles.db
  /\ authServer \in {"mark", "rotate", "rotated", "up"} => authFiles.db # NoDb
  /\ authServer = "install" =>
       stagedAccounts.held = {} /\ Administered(stagedAccounts, authFiles.code, FALSE)

AccountInv ==
  /\ AccountRequestsOk /\ SessionTimesOk /\ AuthFilesOk /\ AccountCopiesOk
  /\ SessionsHold(authFiles.db, ended, lastUse)
  /\ authFiles.db # NoDb => Administered(authFiles.db, authFiles.code, authServer = "up")
  /\ admissions = {}

-----------------------------------------------------------------------------
(* The records operations make of an account database.                      *)

(* The fields of the records of the account store.                          *)
LEMMA AccountFields ==
  /\ DOMAIN NoUser = {"role", "disabled", "must", "pw", "failed", "lockedUntil"}
  /\ DOMAIN NoDb = {"users", "sessions", "held"}
  /\ DOMAIN NoFiles = {"code", "legacy", "backup", "db", "marker"}
BY DEF NoUser, NoDb, NoFiles

(* The empty records are well formed.                                       *)
LEMMA FirstAccounts == IsUser(NoUser) /\ NoLogin \in LoginRows /\ IsDb(NoDb)
<1>1. IsUser(NoUser) /\ NoLogin \in LoginRows
  BY AccountAssumption DEF IsUser, NoUser, NoLogin, LoginRows
<1>2. IsDb(NoDb)
  BY <1>1 DEF IsDb, NoDb
<1>3. QED BY <1>1, <1>2

(* A created account has the role and password it was given and is enabled. *)
LEMMA NewUser ==
  ASSUME NEW role, NEW pw
  PROVE  /\ IsUser(User(role, FALSE, pw)) /\ User(role, FALSE, pw).role = role
         /\ User(role, FALSE, pw).pw = pw /\ User(role, FALSE, pw).disabled = FALSE
<1>1. DOMAIN User(role, FALSE, pw) = DOMAIN NoUser
  BY DEF User
<1>2. User(role, FALSE, pw).role = role /\ User(role, FALSE, pw).disabled = FALSE
  BY AccountFields DEF User, NoUser
<1>3. User(role, FALSE, pw).pw = pw
  BY AccountFields DEF User, NoUser
<1>4. QED BY <1>1, <1>2, <1>3 DEF IsUser

(* So has the first administrator, who must change the password.            *)
LEMMA FirstUser ==
  ASSUME NEW role, NEW pw
  PROVE  /\ IsUser(User(role, TRUE, pw)) /\ User(role, TRUE, pw).role = role
         /\ User(role, TRUE, pw).pw = pw /\ User(role, TRUE, pw).disabled = FALSE
<1>1. DOMAIN User(role, TRUE, pw) = DOMAIN NoUser
  BY DEF User
<1>2. User(role, TRUE, pw).role = role /\ User(role, TRUE, pw).disabled = FALSE
  BY AccountFields DEF User, NoUser
<1>3. User(role, TRUE, pw).pw = pw
  BY AccountFields DEF User, NoUser
<1>4. QED BY <1>1, <1>2, <1>3 DEF IsUser

(* A database made of accounts alone has no session.                        *)
LEMMA UsersOnly ==
  ASSUME NEW us, DOMAIN us = Names, \A n \in Names : IsUser(us[n])
  PROVE  IsDb(WithUsers(us)) /\ WithUsers(us).users = us /\ WithUsers(us).held = {}
<1>1. /\ DOMAIN WithUsers(us) = DOMAIN NoDb /\ WithUsers(us).users = us
      /\ WithUsers(us).held = {} /\ WithUsers(us).sessions = [s \in Tokens |-> NoLogin]
  BY AccountFields DEF WithUsers, NoDb
<1>2. QED BY <1>1, FirstAccounts DEF IsDb

(* One account is replaced.                                                 *)
LEMMA UserReplaced ==
  ASSUME NEW d, IsDb(d), NEW n \in Names, NEW u, IsUser(u)
  PROVE  LET e == [d EXCEPT !.users[n] = u] IN
         /\ IsDb(e) /\ e.users[n] = u /\ \A m \in Names \ {n} : e.users[m] = d.users[m]
         /\ e.sessions = d.sessions /\ e.held = d.held
<1> DEFINE e == [d EXCEPT !.users[n] = u]
<1>1. /\ DOMAIN e = DOMAIN NoDb /\ e.users = [d.users EXCEPT ![n] = u]
      /\ e.sessions = d.sessions /\ e.held = d.held
  BY AccountFields DEF IsDb
<1> HIDE DEF e
<1>2. DOMAIN e.users = Names /\ e.users[n] = u /\ \A m \in Names \ {n} : e.users[m] = d.users[m]
  BY <1>1 DEF IsDb
<1>3. QED BY <1>1, <1>2 DEF IsDb, e

(* The sessions of one account are revoked.                                 *)
LEMMA SessionsRevoked ==
  ASSUME NEW d, IsDb(d), NEW n
  PROVE  LET e == RevokeSessionsFor(d, n) IN
         /\ IsDb(e) /\ e.users = d.users /\ e.held = d.held
         /\ \A s \in Tokens : /\ e.sessions[s].user = d.sessions[s].user
                              /\ e.sessions[s].seen = d.sessions[s].seen
                              /\ e.sessions[s].revoked <=>
                                   d.sessions[s].revoked \/ (s \in d.held /\ d.sessions[s].user = n)
<1> DEFINE e == RevokeSessionsFor(d, n)
           row(s) == [d.sessions[s] EXCEPT !.revoked = @ \/ (s \in d.held /\ d.sessions[s].user = n)]
<1>1. /\ DOMAIN e = DOMAIN NoDb /\ e.users = d.users
      /\ e.sessions = [s \in Tokens |-> row(s)] /\ e.held = d.held
  BY AccountFields DEF RevokeSessionsFor, IsDb
<1>2. ASSUME NEW s \in Tokens
      PROVE  /\ row(s) \in LoginRows /\ row(s).user = d.sessions[s].user /\ row(s).seen = d.sessions[s].seen
             /\ row(s).revoked <=> d.sessions[s].revoked \/ (s \in d.held /\ d.sessions[s].user = n)
  <2>1. d.sessions[s] \in LoginRows
    BY DEF IsDb
  <2>2. QED BY <2>1 DEF LoginRows
<1> HIDE DEF row, e
<1>3. QED BY <1>1, <1>2 DEF IsDb, e

(* SessionCreated a session keeps some of the others as they are.                 *)
LEMMA SessionCreated ==
  ASSUME NEW d, IsDb(d), NEW n \in Names, NEW s \in Tokens, accountClock \in Nat
  PROVE  LET e == CreateSession(d, n, s) IN
         /\ IsDb(e) /\ e.users = d.users /\ e.held \subseteq d.held \cup {s}
         /\ e.sessions[s].user = n /\ e.sessions[s].seen = accountClock
         /\ \A t \in Tokens \ {s} : e.sessions[t] = d.sessions[t]
<1> DEFINE row == [user |-> n, created |-> accountClock, seen |-> accountClock, revoked |-> FALSE,
                   expires |-> accountClock + SessionLimits(d.users[n].must).absolute]
           e == CreateSession(d, n, s)
<1>1. DOMAIN e = DOMAIN NoDb /\ e.users = d.users
  BY AccountFields DEF CreateSession, IsDb
<1>5. e.held = Retained(d) \cup {s}
  BY AccountFields DEF CreateSession, IsDb
<1>6. e.sessions = [d.sessions EXCEPT ![s] = row]
  BY AccountFields DEF CreateSession, IsDb
<1>2. row \in LoginRows /\ row.user = n /\ row.seen = accountClock
  BY AccountAssumption DEF LoginRows, SessionLimits
<1>3. Retained(d) \subseteq d.held
  BY DEF Retained
<1> HIDE DEF row, e
<1>4. QED BY <1>1, <1>5, <1>6, <1>2, <1>3 DEF IsDb, e

-----------------------------------------------------------------------------
(* What a commit of the served accounts keeps.                              *)

(* While the store is served, the copy in memory has all that is said of    *)
(* the committed one.                                                       *)
LEMMA ServedAccounts ==
  ASSUME AccountInv, authServer = "up"
  PROVE  /\ live = authFiles.db /\ IsDb(live) /\ EnabledAdmins(live) # {}
         /\ SessionsHold(live, ended, lastUse)
         /\ \A n \in Names : HasUser(live, n) => PasswordKnown(live, n, authFiles.code, TRUE)
<1>1. live = authFiles.db /\ authFiles.db # NoDb
  BY DEF AccountInv, AccountCopiesOk
<1>2. Administered(authFiles.db, authFiles.code, TRUE)
  BY <1>1 DEF AccountInv
<1>3. QED BY <1>1, <1>2 DEF AccountInv, AuthFilesOk, Administered

(* The empty database has no account and no session.                        *)
LEMMA NobodyInNoDb == EnabledAdmins(NoDb) = {} /\ NoDb.held = {} /\ \A n \in Names : ~HasUser(NoDb, n)
BY DEF EnabledAdmins, NoDb, NoUser, HasUser

(* A commit that leaves an administrator, known passwords and no session    *)
(* that should have ended keeps the invariant.                              *)
LEMMA AccountsCommitted ==
  ASSUME AccountInv, authServer = "up", UNCHANGED <<authServer, stagedAccounts, accountClock, admissions>>,
         DOMAIN authFiles' = DOMAIN NoFiles, authFiles'.db = live', authFiles'.legacy = authFiles.legacy,
         IsDb(live'), EnabledAdmins(live') # {}, SessionsHold(live', ended', lastUse'),
         \A n \in Names : HasUser(live', n) => PasswordKnown(live', n, authFiles'.code, TRUE),
         SessionTimesOk', AccountRequestsOk'
  PROVE  AccountInv'
<1>1. live' # NoDb
  BY NobodyInNoDb
<1>2. AuthFilesOk'
  BY DEF AccountInv, AuthFilesOk
<1>3. AccountCopiesOk'
  BY <1>1 DEF AccountCopiesOk
<1>4. (authFiles.db # NoDb => Administered(authFiles.db, authFiles.code, authServer = "up"))'
  BY DEF Administered
<1>5. QED BY <1>2, <1>3, <1>4 DEF AccountInv

(* A request that ends leaves its slot idle.                                *)
LEMMA RequestFinished ==
  ASSUME AccountRequestsOk, NEW r \in AccountRequests, FinishRequest(r)
  PROVE  AccountRequestsOk'
BY AccountAssumption DEF AccountRequestsOk, FinishRequest, Idling

(* A commit replaces the database and no other file.                        *)
LEMMA FilesCommitted ==
  ASSUME DOMAIN authFiles = DOMAIN NoFiles, NEW d
  PROVE  /\ DOMAIN Committed(d) = DOMAIN NoFiles /\ Committed(d).db = d
         /\ Committed(d).legacy = authFiles.legacy /\ Committed(d).code = authFiles.code
BY AccountFields DEF Committed

(* A valid database with the accounts and sessions of live, but for one     *)
(* account that may sign in no less than before.                            *)
LEMMA SessionsKept ==
  ASSUME IsDb(live), SessionsHold(live, ended, lastUse), NEW d, IsDb(d), ValidDb(d), NEW n \in Names,
         d.sessions = live.sessions, d.held = live.held,
         \A m \in Names \ {n} : d.users[m] = live.users[m],
         live.users[n].disabled \/ ~d.users[n].disabled
  PROVE  SessionsHold(d, ended, lastUse)
<1> SUFFICES ASSUME NEW s \in d.held, ~d.sessions[s].revoked PROVE GoodSession(d, s, ended, lastUse)
  BY DEF SessionsHold
<1>1. GoodSession(live, s, ended, lastUse)
  BY DEF SessionsHold
<1>2. s \in Tokens /\ d.sessions[s].user \in Names
  BY DEF IsDb, LoginRows
<1>3. HasUser(d, d.sessions[s].user)
  BY DEF ValidDb
<1>4. QED BY <1>1, <1>2, <1>3 DEF GoodSession

(* The same when the sessions of the changed account are revoked and ended. *)
LEMMA SessionsEnded ==
  ASSUME IsDb(live), SessionsHold(live, ended, lastUse), NEW d, IsDb(d), NEW n \in Names,
         \A s \in d.held : HasUser(d, d.sessions[s].user),
         d.held \subseteq live.held, \A m \in Names \ {n} : d.users[m] = live.users[m],
         \A s \in Tokens : /\ d.sessions[s].user = live.sessions[s].user
                           /\ d.sessions[s].seen = live.sessions[s].seen
                           /\ live.sessions[s].revoked => d.sessions[s].revoked,
         \A s \in d.held : d.sessions[s].user = n => d.sessions[s].revoked
  PROVE  SessionsHold(d, ended \cup SessionsOf(live, n), lastUse)
<1> SUFFICES ASSUME NEW s \in d.held, ~d.sessions[s].revoked
             PROVE  GoodSession(d, s, ended \cup SessionsOf(live, n), lastUse)
  BY DEF SessionsHold
<1>1. s \in Tokens /\ s \in live.held /\ d.sessions[s].user \in Names \ {n}
  BY DEF IsDb, LoginRows
<1>2. GoodSession(live, s, ended, lastUse)
  BY <1>1 DEF SessionsHold
<1>3. s \notin SessionsOf(live, n)
  BY <1>1 DEF SessionsOf
<1>4. QED BY <1>1, <1>2, <1>3 DEF GoodSession

(* What validation says of the accounts and the sessions held.              *)
LEMMA ValidAccounts ==
  ASSUME NEW d, ValidDb(d)
  PROVE  EnabledAdmins(d) # {} /\ \A s \in d.held : HasUser(d, d.sessions[s].user)
BY DEF ValidDb

-----------------------------------------------------------------------------
(* The operations of the served store.                                      *)

(* A failed sign-in counts and may lock; it changes no session and no password. *)
LEMMA FailedLoginStep ==
  ASSUME AccountInv, NEW n \in Names, NEW pw, FailedLogin(n, pw)
  PROVE  AccountInv'
<1> DEFINE u == [live.users[n] EXCEPT !.failed = @ + 1,
                   !.lockedUntil = accountClock + LockoutDelay(live.users[n].failed + 1)]
           d == [live EXCEPT !.users[n] = u]
<1>1. /\ authServer = "up" /\ HasUser(live, n) /\ ValidDb(d) /\ authFiles' = Committed(d) /\ live' = d
      /\ UNCHANGED <<authServer, stagedAccounts, accountClock, accountRequests, lastUse, ended, admissions>>
  BY DEF FailedLogin, PersistDb
<1>2. IsUser(live.users[n])
  BY <1>1, ServedAccounts DEF IsDb
<1>3. IsUser(u) /\ u.disabled = live.users[n].disabled /\ u.pw = live.users[n].pw
  BY <1>2, AccountFields DEF IsUser
<1> HIDE DEF u
<1>4. /\ IsDb(d) /\ d.users[n] = u /\ \A m \in Names \ {n} : d.users[m] = live.users[m]
      /\ d.sessions = live.sessions /\ d.held = live.held
  BY <1>1, <1>3, ServedAccounts, UserReplaced
<1> HIDE DEF d
<1>5. SessionsHold(d, ended, lastUse)
  BY <1>1, <1>3, <1>4, ServedAccounts, SessionsKept
<1>6. ASSUME NEW m \in Names, HasUser(d, m) PROVE PasswordKnown(d, m, authFiles.code, TRUE)
  <2>1. HasUser(live, m) /\ d.users[m].pw = live.users[m].pw
    BY <1>1, <1>3, <1>4, <1>6 DEF HasUser
  <2>2. QED BY <1>1, <2>1, ServedAccounts DEF PasswordKnown
<1>7. /\ DOMAIN authFiles' = DOMAIN NoFiles /\ authFiles'.db = live' /\ authFiles'.legacy = authFiles.legacy
      /\ authFiles'.code = authFiles.code
  BY <1>1, FilesCommitted DEF AccountInv, AuthFilesOk
<1>8. SessionTimesOk' /\ AccountRequestsOk'
  BY <1>1 DEF AccountInv, SessionTimesOk, AccountRequestsOk
<1>9. QED BY <1>1, <1>4, <1>5, <1>6, <1>7, <1>8, AccountsCommitted, ValidAccounts

(* A sign-in adds one session, of an enabled account, used at this moment.  *)
LEMMA LogInStep ==
  ASSUME AccountInv, NEW n \in Names, NEW pw, NEW s \in Tokens, LogIn(n, pw, s)
  PROVE  AccountInv'
<1> DEFINE u == [live.users[n] EXCEPT !.failed = 0, !.lockedUntil = 0]
           b == [live EXCEPT !.users[n] = u]
           d == CreateSession(b, n, s)
<1>1. /\ authServer = "up" /\ HasUser(live, n) /\ ~live.users[n].disabled
      /\ s \notin live.held /\ s \notin ended /\ lastUse' = [lastUse EXCEPT ![s] = accountClock]
      /\ UNCHANGED <<authServer, stagedAccounts, accountClock, accountRequests, ended, admissions>>
  BY DEF LogIn, FreshToken
<1>0. ValidDb(d) /\ authFiles' = Committed(d) /\ live' = d
  <2>1. PersistDb(LoggedIn(live, n, s))
    BY DEF LogIn
  <2>2. LoggedIn(live, n, s) = d
    BY <1>1, ServedAccounts, AccountFields DEF LoggedIn, IsDb
  <2>3. QED BY <2>1, <2>2 DEF PersistDb
<1>2. IsUser(live.users[n])
  BY <1>1, ServedAccounts DEF IsDb
<1>3. IsUser(u) /\ u.disabled = live.users[n].disabled /\ u.pw = live.users[n].pw
  BY <1>2, AccountFields DEF IsUser
<1> HIDE DEF u
<1>4. /\ IsDb(b) /\ b.users[n] = u /\ \A m \in Names \ {n} : b.users[m] = live.users[m]
      /\ b.sessions = live.sessions /\ b.held = live.held
  BY <1>1, <1>3, ServedAccounts, UserReplaced
<1> HIDE DEF b
<1>5. /\ IsDb(d) /\ d.users = b.users /\ d.held \subseteq b.held \cup {s}
      /\ d.sessions[s].user = n /\ d.sessions[s].seen = accountClock
      /\ \A t \in Tokens \ {s} : d.sessions[t] = b.sessions[t]
  BY <1>4, SessionCreated DEF AccountInv, SessionTimesOk
<1> HIDE DEF d
<1>6. SessionTimesOk' /\ AccountRequestsOk'
  BY <1>1 DEF AccountInv, SessionTimesOk, AccountRequestsOk
<1>7. SessionsHold(d, ended, lastUse')
  <2> SUFFICES ASSUME NEW t \in d.held, ~d.sessions[t].revoked PROVE GoodSession(d, t, ended, lastUse')
    BY DEF SessionsHold
  <2>1. t \in Tokens /\ HasUser(d, d.sessions[t].user) /\ d.sessions[t].user \in Names
    BY <1>0, <1>5, ValidAccounts DEF IsDb, LoginRows
  <2>2. CASE t = s
    BY <2>1, <2>2, <1>1, <1>3, <1>4, <1>5 DEF GoodSession, AccountInv, SessionTimesOk
  <2>3. CASE t # s
    <3>1. t \in live.held /\ d.sessions[t] = live.sessions[t]
      BY <2>1, <2>3, <1>4, <1>5
    <3>2. GoodSession(live, t, ended, lastUse)
      BY <3>1, <1>1, ServedAccounts DEF SessionsHold
    <3>3. lastUse'[t] = lastUse[t]
      BY <2>1, <2>3, <1>1 DEF AccountInv, SessionTimesOk
    <3>4. QED BY <2>1, <3>1, <3>2, <3>3, <1>3, <1>4, <1>5 DEF GoodSession
  <2>4. QED BY <2>2, <2>3
<1>8. ASSUME NEW m \in Names, HasUser(d, m) PROVE PasswordKnown(d, m, authFiles.code, TRUE)
  <2>1. HasUser(live, m) /\ d.users[m].pw = live.users[m].pw
    BY <1>1, <1>3, <1>4, <1>5, <1>8 DEF HasUser
  <2>2. QED BY <1>1, <2>1, ServedAccounts DEF PasswordKnown
<1>9. /\ DOMAIN authFiles' = DOMAIN NoFiles /\ authFiles'.db = live' /\ authFiles'.legacy = authFiles.legacy
      /\ authFiles'.code = authFiles.code
  BY <1>0, FilesCommitted DEF AccountInv, AuthFilesOk
<1>10. QED BY <1>0, <1>1, <1>5, <1>6, <1>7, <1>8, <1>9, AccountsCommitted, ValidAccounts

(* The gate slides the idle window only of a session it records as used: an *)
(* unrevoked session belongs to an account that may sign in, so it passes   *)
(* unless it has expired.                                                   *)
LEMMA AccountGateStep ==
  ASSUME AccountInv, NEW r \in AccountRequests, NEW s \in Tokens, NEW o, NEW n \in Names,
         AccountRequestGate(r, s, o, n)
  PROVE  AccountInv'
<1> DEFINE row == live.sessions[s]
           user == live.users[row.user]
           lims == SessionLimits(user.must)
           passes == ~Expired(row, lims) /\ HasUser(live, row.user) /\ ~user.disabled
           new == Touched(row, lims)
           d == [live EXCEPT !.sessions[s] = new]
<1>1. /\ authServer = "up" /\ s \in live.held /\ ~row.revoked
      /\ UNCHANGED <<authServer, stagedAccounts, accountClock, ended>>
  BY DEF AccountRequestGate
<1>2. authFiles' = Committed(d) /\ live' = d
  BY DEF AccountRequestGate, TouchSession, Committed
<1>3. lastUse' = IF passes THEN [lastUse EXCEPT ![s] = accountClock] ELSE lastUse
  BY DEF AccountRequestGate
<1>4. row \in LoginRows /\ row.user \in Names
  BY <1>1, ServedAccounts DEF IsDb, LoginRows
<1>5. GoodSession(live, s, ended, lastUse)
  BY <1>1, ServedAccounts DEF SessionsHold
<1>6. passes <=> ~Expired(row, lims)
  BY <1>5 DEF GoodSession
<1>7. lims.idle \in Nat /\ lims.absolute \in Nat
  BY AccountAssumption DEF SessionLimits
<1>8. /\ row.seen \in Nat /\ row.created \in Nat /\ accountClock \in Nat /\ lastUse[s] \in Nat
      /\ row.seen <= lastUse[s] /\ lastUse[s] <= accountClock
  BY <1>4, <1>5 DEF LoginRows, GoodSession, AccountInv, SessionTimesOk
<1>9. admissions' = {}
  <2>1. ~(passes /\ \/ accountClock - lastUse[s] >= lims.idle
                    \/ accountClock - row.created >= lims.absolute
                    \/ s \in ended)
    BY <1>5, <1>7, <1>8 DEF Expired, GoodSession
  <2>2. admissions = {}
    BY DEF AccountInv
  <2>3. QED BY <2>1, <2>2 DEF AccountRequestGate
<1>10. /\ new \in LoginRows /\ new.user = row.user
       /\ Expired(row, lims) => new.revoked
       /\ ~Expired(row, lims) => new.seen \in {accountClock, row.seen}
  BY <1>4, <1>8 DEF Touched, LoginRows
<1>11. AccountRequestsOk'
  <2>1. \/ accountRequests' = accountRequests
        \/ accountRequests' = [accountRequests EXCEPT ![r] = [pc |-> "gated", actor |-> row.user,
                               role |-> user.role, op |-> o, target |-> n, token |-> s]]
    BY DEF AccountRequestGate
  <2>2. QED BY <2>1, <1>4 DEF AccountInv, AccountRequestsOk
<1>12. SessionTimesOk'
  BY <1>1, <1>3, <1>8 DEF AccountInv, SessionTimesOk
<1> HIDE DEF new, lims
<1>13. /\ DOMAIN d = DOMAIN NoDb /\ d.users = live.users /\ d.held = live.held
       /\ d.sessions = [live.sessions EXCEPT ![s] = new]
  BY <1>1, ServedAccounts, AccountFields DEF IsDb
<1> HIDE DEF d
<1>14. IsDb(d)
  BY <1>1, <1>10, <1>13, ServedAccounts DEF IsDb
<1>15. SessionsHold(d, ended, lastUse')
  <2> SUFFICES ASSUME NEW t \in d.held, ~d.sessions[t].revoked PROVE GoodSession(d, t, ended, lastUse')
    BY DEF SessionsHold
  <2>1. t \in Tokens
    BY <1>14 DEF IsDb
  <2>2. CASE t = s
    <3>1. d.sessions[t] = new
      BY <2>2, <1>1, <1>13, ServedAccounts DEF IsDb
    <3>2. lastUse'[s] = accountClock /\ new.seen <= accountClock
      BY <3>1, <1>3, <1>6, <1>8, <1>10, <1>12 DEF SessionTimesOk
    <3>3. QED BY <2>2, <3>1, <3>2, <1>5, <1>10, <1>13 DEF GoodSession, HasUser
  <2>3. CASE t # s
    <3>1. d.sessions[t] = live.sessions[t] /\ t \in live.held
      BY <2>1, <2>3, <1>1, <1>13, ServedAccounts DEF IsDb
    <3>2. GoodSession(live, t, ended, lastUse)
      BY <3>1, <1>1, ServedAccounts DEF SessionsHold
    <3>3. lastUse'[t] = lastUse[t]
      BY <2>1, <2>3, <1>3 DEF AccountInv, SessionTimesOk
    <3>4. QED BY <3>1, <3>2, <3>3, <1>13 DEF GoodSession, HasUser
  <2>4. QED BY <2>2, <2>3
<1>16. EnabledAdmins(d) # {} /\ \A m \in Names : HasUser(d, m) => PasswordKnown(d, m, authFiles.code, TRUE)
  BY <1>1, <1>13, ServedAccounts DEF EnabledAdmins, HasUser, PasswordKnown
<1>17. /\ DOMAIN authFiles' = DOMAIN NoFiles /\ authFiles'.db = live' /\ authFiles'.legacy = authFiles.legacy
       /\ authFiles'.code = authFiles.code
  BY <1>2, FilesCommitted DEF AccountInv, AuthFilesOk
<1>18. admissions' = admissions
  BY <1>9 DEF AccountInv
<1>19. QED BY <1>1, <1>2, <1>11, <1>12, <1>14, <1>15, <1>16, <1>17, <1>18, AccountsCommitted

(* What a gated request knows of its accounts.                              *)
LEMMA GatedRequest ==
  ASSUME AccountInv, NEW r \in AccountRequests, NEW o, GatedFor(r, o)
  PROVE  authServer = "up" /\ TargetOf(r) \in Names /\ accountRequests[r].actor \in Names
BY DEF AccountInv, AccountRequestsOk, GatedFor, TargetOf

(* A created account had no session before.                                 *)
LEMMA CreateUserStep ==
  ASSUME AccountInv, NEW r \in AccountRequests, CreateUser(r)
  PROVE  AccountInv'
<1>1. PICK role \in Roles : PersistDb(WithNewUser(live, TargetOf(r), role))
  BY DEF CreateUser
<1> DEFINE n == TargetOf(r)
           u == User(role, FALSE, Chosen)
           d == [live EXCEPT !.users[n] = u]
<1>2. /\ authServer = "up" /\ n \in Names /\ ~HasUser(live, n) /\ FinishRequest(r)
      /\ UNCHANGED <<authServer, stagedAccounts, accountClock, lastUse, ended, admissions>>
  BY GatedRequest DEF CreateUser, SameServer
<1>3. ValidDb(d) /\ authFiles' = Committed(d) /\ live' = d
  BY <1>1 DEF PersistDb, WithNewUser
<1>4. IsUser(u) /\ u.pw = Chosen /\ u.disabled = FALSE
  BY NewUser
<1> HIDE DEF u, n
<1>5. /\ IsDb(d) /\ d.users[n] = u /\ \A m \in Names \ {n} : d.users[m] = live.users[m]
      /\ d.sessions = live.sessions /\ d.held = live.held
  BY <1>2, <1>4, ServedAccounts, UserReplaced
<1> HIDE DEF d
<1>6. SessionsHold(d, ended, lastUse)
  BY <1>2, <1>3, <1>4, <1>5, ServedAccounts, SessionsKept
<1>7. ASSUME NEW m \in Names, HasUser(d, m) PROVE PasswordKnown(d, m, authFiles.code, TRUE)
  <2>1. CASE m = n
    BY <2>1, <1>4, <1>5 DEF PasswordKnown
  <2>2. CASE m # n
    BY <2>2, <1>2, <1>5, <1>7, ServedAccounts DEF PasswordKnown, HasUser
  <2>3. QED BY <2>1, <2>2
<1>8. /\ DOMAIN authFiles' = DOMAIN NoFiles /\ authFiles'.db = live' /\ authFiles'.legacy = authFiles.legacy
      /\ authFiles'.code = authFiles.code
  BY <1>3, FilesCommitted DEF AccountInv, AuthFilesOk
<1>9. SessionTimesOk' /\ AccountRequestsOk'
  BY <1>2, RequestFinished DEF AccountInv, SessionTimesOk
<1>10. QED BY <1>2, <1>3, <1>5, <1>6, <1>7, <1>8, <1>9, AccountsCommitted, ValidAccounts

(* The account n of the served database is replaced by u and its sessions   *)
(* are revoked; nothing else changes.                                       *)
RevokedWith(n, u) == RevokeSessionsFor([live EXCEPT !.users[n] = u], n)

(* What such a change leaves of the database.                               *)
LEMMA RevokedDb ==
  ASSUME IsDb(live), NEW n \in Names, NEW u, IsUser(u)
  PROVE  /\ IsDb(RevokedWith(n, u)) /\ RevokedWith(n, u).held = live.held
         /\ RevokedWith(n, u).users[n] = u
         /\ \A m \in Names \ {n} : RevokedWith(n, u).users[m] = live.users[m]
         /\ \A s \in Tokens : /\ RevokedWith(n, u).sessions[s].user = live.sessions[s].user
                              /\ RevokedWith(n, u).sessions[s].seen = live.sessions[s].seen
                              /\ RevokedWith(n, u).sessions[s].revoked <=>
                                   live.sessions[s].revoked \/ (s \in live.held /\ live.sessions[s].user = n)
<1> DEFINE b == [live EXCEPT !.users[n] = u]
<1>1. /\ IsDb(b) /\ b.users[n] = u /\ \A m \in Names \ {n} : b.users[m] = live.users[m]
      /\ b.sessions = live.sessions /\ b.held = live.held
  BY UserReplaced
<1>2. RevokedWith(n, u) = RevokeSessionsFor(b, n)
  BY DEF RevokedWith
<1> HIDE DEF b
<1>3. QED BY <1>1, <1>2, SessionsRevoked

(* ... and keeps the invariant when its password is chosen or stays.        *)
LEMMA RevokedStep ==
  ASSUME AccountInv, NEW r \in AccountRequests, NEW n \in Names, NEW u, IsUser(u), authServer = "up",
         ValidDb(RevokedWith(n, u)), live' = RevokedWith(n, u), EndSessionsOf(n), FinishRequest(r),
         DOMAIN authFiles' = DOMAIN NoFiles, authFiles'.db = live', authFiles'.legacy = authFiles.legacy,
         (n = Admin /\ u.pw = Chosen) \/ authFiles'.code = authFiles.code,
         HasUser(live, n), u.pw = Chosen \/ u.pw = live.users[n].pw,
         UNCHANGED <<authServer, stagedAccounts, accountClock, lastUse, admissions>>
  PROVE  AccountInv'
<1> DEFINE d == RevokedWith(n, u)
<1>1. /\ IsDb(d) /\ d.held = live.held /\ d.users[n] = u
      /\ \A m \in Names \ {n} : d.users[m] = live.users[m]
      /\ \A s \in Tokens : /\ d.sessions[s].user = live.sessions[s].user
                           /\ d.sessions[s].seen = live.sessions[s].seen
                           /\ d.sessions[s].revoked <=>
                                live.sessions[s].revoked \/ (s \in live.held /\ live.sessions[s].user = n)
  BY ServedAccounts, RevokedDb
<1>2. EnabledAdmins(d) # {} /\ \A s \in d.held : HasUser(d, d.sessions[s].user)
  BY ValidAccounts
<1>3. live' = d
  OBVIOUS
<1> HIDE DEF d
<1>4. d.held \subseteq Tokens /\ \A s \in d.held : d.sessions[s].user = n => d.sessions[s].revoked
  BY <1>1 DEF IsDb
<1>5. SessionsHold(d, ended', lastUse')
  BY <1>1, <1>2, <1>4, ServedAccounts, SessionsEnded DEF EndSessionsOf
<1>6. ASSUME NEW m \in Names, HasUser(d, m) PROVE PasswordKnown(d, m, authFiles'.code, TRUE)
  <2>1. HasUser(live, m)
    BY <1>1, <1>6 DEF HasUser
  <2>2. PasswordKnown(live, m, authFiles.code, TRUE)
    BY <2>1, ServedAccounts
  <2>3. CASE m = n
    BY <2>2, <2>3, <1>1 DEF PasswordKnown
  <2>4. CASE m # n
    BY <2>2, <2>4, <1>1 DEF PasswordKnown
  <2>5. QED BY <2>3, <2>4
<1>7. SessionTimesOk' /\ AccountRequestsOk'
  BY RequestFinished DEF AccountInv, SessionTimesOk
<1>8. QED BY <1>1, <1>2, <1>3, <1>5, <1>6, <1>7, AccountsCommitted

(* The changes of an account record that operations make.                   *)
LEMMA UserChanges ==
  ASSUME IsDb(live), NEW n \in Names
  PROVE  LET u == live.users[n]
             p == [u EXCEPT !.pw = Chosen, !.must = FALSE, !.failed = 0, !.lockedUntil = 0]
             e == [u EXCEPT !.disabled = FALSE, !.failed = 0, !.lockedUntil = 0]
         IN  /\ IsUser(p) /\ p.pw = Chosen /\ p.disabled = u.disabled
             /\ IsUser(e) /\ e.pw = u.pw /\ e.disabled = FALSE
             /\ \A x : IsUser([u EXCEPT !.role = x]) /\ [u EXCEPT !.role = x].pw = u.pw
             /\ IsUser([u EXCEPT !.disabled = TRUE]) /\ [u EXCEPT !.disabled = TRUE].pw = u.pw
<1> DEFINE u == live.users[n]
<1>1. IsUser(u)
  BY DEF IsDb
<1> HIDE DEF u
<1>2. LET p == [u EXCEPT !.pw = Chosen, !.must = FALSE, !.failed = 0, !.lockedUntil = 0]
      IN  IsUser(p) /\ p.pw = Chosen /\ p.disabled = u.disabled
  BY <1>1, AccountFields DEF IsUser
<1>3. LET e == [u EXCEPT !.disabled = FALSE, !.failed = 0, !.lockedUntil = 0]
      IN  IsUser(e) /\ e.pw = u.pw /\ e.disabled = FALSE
  BY <1>1, AccountFields DEF IsUser
<1>4. ASSUME NEW x PROVE IsUser([u EXCEPT !.role = x]) /\ [u EXCEPT !.role = x].pw = u.pw
  BY <1>1, AccountFields DEF IsUser
<1>5. IsUser([u EXCEPT !.disabled = TRUE]) /\ [u EXCEPT !.disabled = TRUE].pw = u.pw
  BY <1>1, AccountFields DEF IsUser
<1>6. QED BY <1>2, <1>3, <1>4, <1>5 DEF u

(* A password commit, whether or not the setup code could be removed.       *)
LEMMA PasswordCommitted ==
  ASSUME DOMAIN authFiles = DOMAIN NoFiles, NEW d, NEW n, PersistAndForget(d, n)
  PROVE  /\ ValidDb(d) /\ live' = d /\ DOMAIN authFiles' = DOMAIN NoFiles /\ authFiles'.db = d
         /\ authFiles'.legacy = authFiles.legacy /\ (n = Admin \/ authFiles'.code = authFiles.code)
<1>1. PICK forgot \in BOOLEAN :
        authFiles' = [Committed(d) EXCEPT !.code = IF forgot THEN ForgetSetupCode(n) ELSE @]
  BY DEF PersistAndForget
<1> DEFINE c == IF forgot THEN ForgetSetupCode(n) ELSE Committed(d).code
<1>2. authFiles' = [Committed(d) EXCEPT !.code = c]
  BY <1>1
<1>3. n = Admin \/ c = authFiles.code
  BY FilesCommitted DEF ForgetSetupCode
<1> HIDE DEF c
<1>4. QED BY <1>2, <1>3, FilesCommitted, AccountFields DEF PersistAndForget

(* A password set by an administrator ends the sessions of its account.     *)
LEMMA SetPasswordStep ==
  ASSUME AccountInv, NEW r \in AccountRequests, SetPassword(r)
  PROVE  AccountInv'
<1> DEFINE n == TargetOf(r)
           u == [live.users[n] EXCEPT !.pw = Chosen, !.must = FALSE, !.failed = 0, !.lockedUntil = 0]
<1>1. /\ authServer = "up" /\ n \in Names /\ HasUser(live, n) /\ FinishRequest(r) /\ EndSessionsOf(n)
      /\ PersistAndForget(WithPassword(live, n), n)
      /\ UNCHANGED <<authServer, stagedAccounts, accountClock, lastUse, admissions>>
  BY GatedRequest DEF SetPassword, SameServer
<1>2. WithPassword(live, n) = RevokedWith(n, u)
  BY DEF WithPassword, RevokedWith
<1>3. IsUser(u) /\ u.pw = Chosen
  BY <1>1, ServedAccounts, UserChanges
<1> HIDE DEF u, n
<1>4. /\ ValidDb(RevokedWith(n, u)) /\ live' = RevokedWith(n, u) /\ DOMAIN authFiles' = DOMAIN NoFiles
      /\ authFiles'.db = RevokedWith(n, u) /\ authFiles'.legacy = authFiles.legacy
      /\ n = Admin \/ authFiles'.code = authFiles.code
  BY <1>1, <1>2, PasswordCommitted DEF AccountInv, AuthFilesOk
<1>5. QED BY <1>1, <1>3, <1>4, RevokedStep

(* So does a change of role.                                                *)
LEMMA SetRoleStep ==
  ASSUME AccountInv, NEW r \in AccountRequests, SetRole(r)
  PROVE  AccountInv'
<1>1. PICK o \in {"promote", "demote"} :
        /\ GatedFor(r, o) /\ HasUser(live, TargetOf(r))
        /\ PersistDb(WithRole(live, TargetOf(r), IF o = "promote" THEN "admin" ELSE "operator"))
        /\ EndSessionsOf(TargetOf(r)) /\ FinishRequest(r) /\ UNCHANGED lastUse /\ SameServer
  BY DEF SetRole
<1> DEFINE n == TargetOf(r)
           role == IF o = "promote" THEN "admin" ELSE "operator"
           u == [live.users[n] EXCEPT !.role = role]
<1>2. authServer = "up" /\ n \in Names
  BY <1>1, GatedRequest
<1>3. WithRole(live, n, role) = RevokedWith(n, u)
  BY DEF WithRole, RevokedWith
<1>4. IsUser(u) /\ u.pw = live.users[n].pw
  BY <1>2, ServedAccounts, UserChanges
<1>5. PersistDb(RevokedWith(n, u)) /\ UNCHANGED <<authServer, stagedAccounts, accountClock, lastUse, admissions>>
  BY <1>1, <1>3 DEF SameServer
<1>6. HasUser(live, n) /\ EndSessionsOf(n) /\ FinishRequest(r)
  BY <1>1
<1> HIDE DEF u, n
<1>7. /\ ValidDb(RevokedWith(n, u)) /\ live' = RevokedWith(n, u) /\ DOMAIN authFiles' = DOMAIN NoFiles
      /\ authFiles'.db = RevokedWith(n, u) /\ authFiles'.legacy = authFiles.legacy
      /\ authFiles'.code = authFiles.code
  BY <1>5, FilesCommitted DEF PersistDb, AccountInv, AuthFilesOk
<1>8. QED BY <1>2, <1>4, <1>5, <1>6, <1>7, RevokedStep

(* Disabling ends the sessions; enabling changes none of them.              *)
LEMMA SetDisabledStep ==
  ASSUME AccountInv, NEW r \in AccountRequests, SetDisabled(r)
  PROVE  AccountInv'
<1>1. PICK o \in {"disable", "enable"} :
        /\ GatedFor(r, o) /\ HasUser(live, TargetOf(r))
        /\ PersistDb(WithDisabled(live, TargetOf(r), o = "disable"))
        /\ IF o = "disable" THEN EndSessionsOf(TargetOf(r)) ELSE UNCHANGED ended
        /\ FinishRequest(r) /\ UNCHANGED lastUse /\ SameServer
  BY DEF SetDisabled
<1> DEFINE n == TargetOf(r)
<1>2. authServer = "up" /\ n \in Names /\ HasUser(live, n) /\ FinishRequest(r)
  BY <1>1, GatedRequest
<1>3. UNCHANGED <<authServer, stagedAccounts, accountClock, lastUse, admissions>>
  BY <1>1 DEF SameServer
<1>4. CASE o = "disable"
  <2> DEFINE u == [live.users[n] EXCEPT !.disabled = TRUE]
  <2>1. WithDisabled(live, n, o = "disable") = RevokedWith(n, u)
    BY <1>4 DEF WithDisabled, RevokedWith
  <2>2. IsUser(u) /\ u.pw = live.users[n].pw
    BY <1>2, ServedAccounts, UserChanges
  <2>3. PersistDb(RevokedWith(n, u)) /\ EndSessionsOf(n)
    BY <1>1, <1>4, <2>1
  <2> HIDE DEF u, n
  <2>4. /\ ValidDb(RevokedWith(n, u)) /\ live' = RevokedWith(n, u) /\ DOMAIN authFiles' = DOMAIN NoFiles
        /\ authFiles'.db = RevokedWith(n, u) /\ authFiles'.legacy = authFiles.legacy
        /\ authFiles'.code = authFiles.code
    BY <2>3, FilesCommitted DEF PersistDb, AccountInv, AuthFilesOk
  <2>5. QED BY <1>2, <1>3, <2>2, <2>3, <2>4, RevokedStep
<1>5. CASE o = "enable"
  <2> DEFINE u == [live.users[n] EXCEPT !.disabled = FALSE, !.failed = 0, !.lockedUntil = 0]
             d == [live EXCEPT !.users[n] = u]
  <2>1. WithDisabled(live, n, o = "disable") = d
    BY <1>5 DEF WithDisabled
  <2>2. IsUser(u) /\ u.pw = live.users[n].pw /\ u.disabled = FALSE
    BY <1>2, ServedAccounts, UserChanges
  <2>3. ValidDb(d) /\ authFiles' = Committed(d) /\ live' = d /\ UNCHANGED ended
    BY <1>1, <1>5, <2>1 DEF PersistDb
  <2> HIDE DEF u, n
  <2>4. /\ IsDb(d) /\ d.users[n] = u /\ \A m \in Names \ {n} : d.users[m] = live.users[m]
        /\ d.sessions = live.sessions /\ d.held = live.held
    BY <1>2, <2>2, ServedAccounts, UserReplaced
  <2> HIDE DEF d
  <2>5. SessionsHold(d, ended, lastUse)
    BY <1>2, <2>2, <2>3, <2>4, ServedAccounts, SessionsKept
  <2>6. ASSUME NEW m \in Names, HasUser(d, m) PROVE PasswordKnown(d, m, authFiles.code, TRUE)
    <3>1. HasUser(live, m) /\ d.users[m].pw = live.users[m].pw
      BY <1>2, <2>2, <2>4, <2>6 DEF HasUser
    <3>2. QED BY <1>2, <3>1, ServedAccounts DEF PasswordKnown
  <2>7. /\ DOMAIN authFiles' = DOMAIN NoFiles /\ authFiles'.db = live' /\ authFiles'.legacy = authFiles.legacy
        /\ authFiles'.code = authFiles.code
    BY <2>3, FilesCommitted DEF AccountInv, AuthFilesOk
  <2>8. SessionTimesOk' /\ AccountRequestsOk'
    BY <1>2, <1>3, RequestFinished DEF AccountInv, SessionTimesOk
  <2>9. QED BY <1>2, <1>3, <2>3, <2>4, <2>5, <2>6, <2>7, <2>8, AccountsCommitted, ValidAccounts
<1>6. QED BY <1>4, <1>5

(* A deletion takes the sessions of its account with it.                    *)
LEMMA DeleteUserStep ==
  ASSUME AccountInv, NEW r \in AccountRequests, DeleteUser(r)
  PROVE  AccountInv'
<1> DEFINE n == TargetOf(r)
           d == WithoutUser(live, n)
<1>1. /\ authServer = "up" /\ n \in Names /\ FinishRequest(r)
      /\ ValidDb(d) /\ authFiles' = Committed(d) /\ live' = d /\ ended' = ended \cup SessionsOf(live, n)
      /\ UNCHANGED <<authServer, stagedAccounts, accountClock, lastUse, admissions>>
  BY GatedRequest DEF DeleteUser, SameServer, PersistDb, EndSessionsOf
<1>2. IsDb(live)
  BY <1>1, ServedAccounts
<1> HIDE DEF n
<1>3. /\ DOMAIN d = DOMAIN NoDb /\ d.users = [live.users EXCEPT ![n] = NoUser]
      /\ d.sessions = live.sessions /\ d.held = live.held \ SessionsOf(live, n)
  BY <1>2, AccountFields DEF WithoutUser, IsDb
<1> HIDE DEF d
<1>4. /\ IsDb(d) /\ d.users[n] = NoUser /\ \A m \in Names \ {n} : d.users[m] = live.users[m]
  BY <1>1, <1>2, <1>3, FirstAccounts DEF IsDb
<1>5. EnabledAdmins(d) # {} /\ \A s \in d.held : HasUser(d, d.sessions[s].user)
  BY <1>1, ValidAccounts
<1>6. \A s \in d.held : d.sessions[s].user # n
  BY <1>3 DEF SessionsOf
<1>7. SessionsHold(d, ended', lastUse')
  BY <1>1, <1>2, <1>3, <1>4, <1>5, <1>6, ServedAccounts, SessionsEnded
<1>8. ASSUME NEW m \in Names, HasUser(d, m) PROVE PasswordKnown(d, m, authFiles.code, TRUE)
  BY <1>1, <1>4, <1>8, ServedAccounts DEF PasswordKnown, HasUser
<1>9. /\ DOMAIN authFiles' = DOMAIN NoFiles /\ authFiles'.db = live' /\ authFiles'.legacy = authFiles.legacy
      /\ authFiles'.code = authFiles.code
  BY <1>1, FilesCommitted DEF AccountInv, AuthFilesOk
<1>10. SessionTimesOk' /\ AccountRequestsOk'
  BY <1>1, RequestFinished DEF AccountInv, SessionTimesOk
<1>11. QED BY <1>1, <1>4, <1>5, <1>7, <1>8, <1>9, <1>10, AccountsCommitted

(* A changed password ends every session of its account but the new one.    *)
LEMMA ChangePasswordStep ==
  ASSUME AccountInv, NEW r \in AccountRequests, NEW s \in Tokens, ChangePassword(r, s)
  PROVE  AccountInv'
<1> DEFINE n == accountRequests[r].actor
           u == [live.users[n] EXCEPT !.pw = Chosen, !.must = FALSE, !.failed = 0, !.lockedUntil = 0]
           b == RevokedWith(n, u)
           d == CreateSession(b, n, s)
<1>1. /\ authServer = "up" /\ n \in Names /\ HasUser(live, n) /\ ~live.users[n].disabled
      /\ s \notin live.held /\ s \notin ended /\ FinishRequest(r)
      /\ ended' = ended \cup SessionsOf(live, n) /\ lastUse' = [lastUse EXCEPT ![s] = accountClock]
      /\ PersistAndForget(WithChangedPassword(live, n, s), n)
      /\ UNCHANGED <<authServer, stagedAccounts, accountClock, admissions>>
  BY GatedRequest DEF ChangePassword, SameServer, FreshToken, EndSessionsOf
<1>2. WithChangedPassword(live, n, s) = d
  BY DEF WithChangedPassword, WithPassword, RevokedWith
<1>3. IsUser(u) /\ u.pw = Chosen /\ u.disabled = live.users[n].disabled
  BY <1>1, ServedAccounts, UserChanges
<1> HIDE DEF u, n
<1>4. /\ IsDb(b) /\ b.held = live.held /\ b.users[n] = u
      /\ \A m \in Names \ {n} : b.users[m] = live.users[m]
      /\ \A t \in Tokens : /\ b.sessions[t].user = live.sessions[t].user
                           /\ b.sessions[t].seen = live.sessions[t].seen
                           /\ b.sessions[t].revoked <=>
                                live.sessions[t].revoked \/ (t \in live.held /\ live.sessions[t].user = n)
  BY <1>1, <1>3, ServedAccounts, RevokedDb
<1> HIDE DEF b
<1>5. /\ IsDb(d) /\ d.users = b.users /\ d.held \subseteq b.held \cup {s}
      /\ d.sessions[s].user = n /\ d.sessions[s].seen = accountClock
      /\ \A t \in Tokens \ {s} : d.sessions[t] = b.sessions[t]
  BY <1>1, <1>4, SessionCreated DEF AccountInv, SessionTimesOk
<1>6. /\ ValidDb(d) /\ live' = d /\ DOMAIN authFiles' = DOMAIN NoFiles /\ authFiles'.db = d
      /\ authFiles'.legacy = authFiles.legacy /\ (n = Admin \/ authFiles'.code = authFiles.code)
  BY <1>1, <1>2, PasswordCommitted DEF AccountInv, AuthFilesOk
<1> HIDE DEF d
<1>7. SessionTimesOk' /\ AccountRequestsOk'
  BY <1>1, RequestFinished DEF AccountInv, SessionTimesOk
<1>8. SessionsHold(d, ended', lastUse')
  <2> SUFFICES ASSUME NEW t \in d.held, ~d.sessions[t].revoked PROVE GoodSession(d, t, ended', lastUse')
    BY DEF SessionsHold
  <2>1. t \in Tokens /\ HasUser(d, d.sessions[t].user) /\ d.sessions[t].user \in Names
    BY <1>5, <1>6, ValidAccounts DEF IsDb, LoginRows
  <2>2. CASE t = s
    <3>1. s \notin ended' /\ lastUse'[s] = accountClock
      BY <1>1 DEF SessionsOf, AccountInv, SessionTimesOk
    <3>2. ~d.users[n].disabled /\ accountClock <= accountClock
      BY <1>1, <1>3, <1>4, <1>5 DEF AccountInv, SessionTimesOk
    <3>3. QED BY <2>1, <2>2, <3>1, <3>2, <1>5 DEF GoodSession
  <2>3. CASE t # s
    <3>1. t \in live.held /\ d.sessions[t] = b.sessions[t]
      BY <2>1, <2>3, <1>4, <1>5
    <3>2. ~live.sessions[t].revoked /\ live.sessions[t].user # n
      BY <2>1, <3>1, <1>4
    <3>3. GoodSession(live, t, ended, lastUse) /\ t \notin SessionsOf(live, n)
      BY <3>1, <3>2, <1>1, ServedAccounts DEF SessionsHold, SessionsOf
    <3>4. lastUse'[t] = lastUse[t]
      BY <2>1, <2>3, <1>1 DEF AccountInv, SessionTimesOk
    <3>5. QED BY <2>1, <3>1, <3>2, <3>3, <3>4, <1>1, <1>4, <1>5 DEF GoodSession
  <2>4. QED BY <2>2, <2>3
<1>9. ASSUME NEW m \in Names, HasUser(d, m) PROVE PasswordKnown(d, m, authFiles'.code, TRUE)
  <2>1. HasUser(live, m)
    BY <1>1, <1>4, <1>5, <1>9 DEF HasUser
  <2>2. PasswordKnown(live, m, authFiles.code, TRUE)
    BY <1>1, <2>1, ServedAccounts
  <2>3. CASE m = n
    BY <2>3, <1>3, <1>4, <1>5 DEF PasswordKnown
  <2>4. CASE m # n
    BY <2>2, <2>4, <1>4, <1>5, <1>6 DEF PasswordKnown
  <2>5. QED BY <2>3, <2>4
<1>10. QED BY <1>1, <1>5, <1>6, <1>7, <1>8, <1>9, AccountsCommitted, ValidAccounts

(* A logout ends its session, or finds it ended.                            *)
LEMMA LogOutStep ==
  ASSUME AccountInv, NEW r \in AccountRequests, LogOut(r)
  PROVE  AccountInv'
<1> DEFINE s == accountRequests[r].token
           d == LoggedOut(live, s)
<1>1. /\ authServer = "up" /\ FinishRequest(r) /\ ended' = ended \cup {s}
      /\ UNCHANGED <<authServer, stagedAccounts, accountClock, lastUse, admissions>>
  BY GatedRequest DEF LogOut, SameServer
<1>2. SessionTimesOk' /\ AccountRequestsOk'
  BY <1>1, RequestFinished DEF AccountInv, SessionTimesOk
<1>3. CASE s \in live.held /\ ~live.sessions[s].revoked
  <2>1. ValidDb(d) /\ authFiles' = Committed(d) /\ live' = d
    BY <1>3 DEF LogOut, PersistDb
  <2> HIDE DEF s
  <2>2. s \in Tokens /\ live.sessions[s] \in LoginRows
    BY <1>1, <1>3, ServedAccounts DEF IsDb
  <2> DEFINE row == [live.sessions[s] EXCEPT !.revoked = TRUE]
  <2>3. row \in LoginRows /\ row.revoked
    BY <2>2 DEF LoginRows
  <2>4. /\ DOMAIN d = DOMAIN NoDb /\ d.users = live.users /\ d.held = live.held
        /\ d.sessions = [live.sessions EXCEPT ![s] = row]
    BY <1>1, ServedAccounts, AccountFields DEF LoggedOut, IsDb
  <2> HIDE DEF d, row
  <2>5. IsDb(d) /\ d.sessions[s].revoked /\ \A t \in Tokens \ {s} : d.sessions[t] = live.sessions[t]
    BY <1>1, <2>2, <2>3, <2>4, ServedAccounts DEF IsDb
  <2>6. SessionsHold(d, ended', lastUse')
    <3> SUFFICES ASSUME NEW t \in d.held, ~d.sessions[t].revoked PROVE GoodSession(d, t, ended', lastUse')
      BY DEF SessionsHold
    <3>1. t # s /\ t \in live.held /\ d.sessions[t] = live.sessions[t]
      BY <2>4, <2>5 DEF IsDb
    <3>2. GoodSession(live, t, ended, lastUse)
      BY <3>1, <1>1, ServedAccounts DEF SessionsHold
    <3>3. QED BY <3>1, <3>2, <1>1, <2>4 DEF GoodSession, HasUser
  <2>7. EnabledAdmins(d) # {} /\ \A m \in Names : HasUser(d, m) => PasswordKnown(d, m, authFiles.code, TRUE)
    BY <1>1, <2>4, ServedAccounts DEF EnabledAdmins, HasUser, PasswordKnown
  <2>8. /\ DOMAIN authFiles' = DOMAIN NoFiles /\ authFiles'.db = live' /\ authFiles'.legacy = authFiles.legacy
        /\ authFiles'.code = authFiles.code
    BY <2>1, FilesCommitted DEF AccountInv, AuthFilesOk
  <2>9. QED BY <1>1, <1>2, <2>1, <2>5, <2>6, <2>7, <2>8, AccountsCommitted
<1>4. CASE ~(s \in live.held /\ ~live.sessions[s].revoked)
  <2>1. UNCHANGED <<authFiles, live>>
    BY <1>4 DEF LogOut
  <2> HIDE DEF s
  <2>2. SessionsHold(live, ended', lastUse')
    BY <1>1, <1>4, ServedAccounts DEF SessionsHold, GoodSession
  <2>3. QED BY <1>1, <1>2, <2>1, <2>2, ServedAccounts, AccountsCommitted DEF AccountInv, AuthFilesOk
<1>5. QED BY <1>3, <1>4

(* A refused request changes nothing of the store.                          *)
LEMMA RequestRefusedStep ==
  ASSUME AccountInv, NEW r \in AccountRequests, RequestRefused(r)
  PROVE  AccountInv'
<1>1. /\ authServer = "up" /\ FinishRequest(r)
      /\ UNCHANGED <<authFiles, live, authServer, stagedAccounts, accountClock, lastUse, ended, admissions>>
  BY DEF RequestRefused, SameServer
<1>2. SessionTimesOk' /\ AccountRequestsOk'
  BY <1>1, RequestFinished DEF AccountInv, SessionTimesOk
<1>3. QED BY <1>1, <1>2, ServedAccounts, AccountsCommitted DEF AccountInv, AuthFilesOk

-----------------------------------------------------------------------------
(* Opening, closing and time.                                               *)

(* What is known of a served account is known of a stopped one.             *)
LEMMA StoppedAccounts ==
  ASSUME NEW d, NEW c, NEW served \in BOOLEAN, Administered(d, c, served)
  PROVE  Administered(d, c, FALSE)
BY DEF Administered, PasswordKnown

(* A new home gets an administrator whose password is the code just written. *)
LEMMA OpenFreshStep ==
  ASSUME AccountInv, OpenFresh
  PROVE  AccountInv'
<1> DEFINE c == SetupCode(codes + 1)
           u == User("admin", TRUE, c)
           us == [NoDb.users EXCEPT ![Admin] = u]
<1>1. /\ authServer = "down" /\ authFiles.db = NoDb /\ authFiles' = [authFiles EXCEPT !.code = c]
      /\ stagedAccounts' = WithUsers(us) /\ authServer' = "install"
      /\ UNCHANGED <<live, accountClock, accountRequests, lastUse, ended, admissions>>
  BY DEF OpenFresh
<1> HIDE DEF c
<1>2. IsUser(u) /\ u.role = "admin" /\ u.pw = c /\ u.disabled = FALSE
  BY FirstUser
<1> HIDE DEF u
<1>3. DOMAIN us = Names /\ us[Admin] = u /\ \A m \in Names \ {Admin} : us[m] = NoUser
  BY AccountAssumption DEF NoDb
<1>4. \A m \in Names : IsUser(us[m])
  BY <1>2, <1>3, FirstAccounts
<1> HIDE DEF us
<1>5. IsDb(stagedAccounts') /\ stagedAccounts'.users = us /\ stagedAccounts'.held = {}
  BY <1>1, <1>3, <1>4, UsersOnly
<1>6. /\ DOMAIN authFiles' = DOMAIN NoFiles /\ authFiles'.code = c
      /\ authFiles'.db = authFiles.db /\ authFiles'.legacy = authFiles.legacy
  BY <1>1, AccountFields DEF AccountInv, AuthFilesOk
<1>7. Administered(stagedAccounts', authFiles'.code, FALSE)
  <2>1. Admin \in EnabledAdmins(stagedAccounts')
    BY <1>2, <1>3, <1>5, AccountAssumption DEF EnabledAdmins
  <2>2. \A m \in Names : HasUser(stagedAccounts', m) => m = Admin
    BY <1>3, <1>5 DEF HasUser
  <2>3. QED BY <2>1, <2>2, <1>2, <1>3, <1>5, <1>6 DEF Administered, PasswordKnown
<1>8. AuthFilesOk' /\ SessionTimesOk' /\ AccountRequestsOk'
  BY <1>1, <1>5, <1>6 DEF AccountInv, AuthFilesOk, SessionTimesOk, AccountRequestsOk
<1>9. AccountCopiesOk'
  BY <1>1, <1>5, <1>7 DEF AccountCopiesOk
<1>10. (authFiles'.db = NoDb) /\ SessionsHold(authFiles'.db, ended', lastUse') /\ admissions' = {}
  BY <1>1, <1>6 DEF AccountInv
<1>11. QED BY <1>8, <1>9, <1>10 DEF AccountInv

(* A legacy file has a pending administrator, whom the open replaces later. *)
LEMMA OpenLegacyStep ==
  ASSUME AccountInv, OpenLegacy
  PROVE  AccountInv'
<1> DEFINE l == authFiles.legacy
<1>1. /\ authServer = "down" /\ authFiles.db = NoDb /\ ValidDb(l) /\ authFiles' = [authFiles EXCEPT !.backup = l]
      /\ stagedAccounts' = WithUsers(l.users) /\ authServer' = "install"
      /\ UNCHANGED <<live, accountClock, accountRequests, lastUse, ended, admissions>>
  BY DEF OpenLegacy
<1>2. IsDb(l) /\ \A n \in Names : HasUser(l, n) => n = Admin /\ ShippedAdmin(l)
  BY DEF AccountInv, AuthFilesOk
<1> HIDE DEF l
<1>3. IsDb(stagedAccounts') /\ stagedAccounts'.users = l.users /\ stagedAccounts'.held = {}
  <2>1. DOMAIN l.users = Names /\ \A n \in Names : IsUser(l.users[n])
    BY <1>2 DEF IsDb
  <2>2. QED BY <1>1, <2>1, UsersOnly
<1>4. /\ DOMAIN authFiles' = DOMAIN NoFiles /\ authFiles'.code = authFiles.code
      /\ authFiles'.db = authFiles.db /\ authFiles'.legacy = authFiles.legacy
  BY <1>1, AccountFields DEF AccountInv, AuthFilesOk
<1>5. Administered(stagedAccounts', authFiles'.code, FALSE)
  <2>1. EnabledAdmins(stagedAccounts') # {}
    BY <1>1, <1>3, ValidAccounts DEF EnabledAdmins
  <2>2. \A n \in Names : HasUser(stagedAccounts', n) => n = Admin /\ ShippedAdmin(stagedAccounts')
    BY <1>2, <1>3 DEF HasUser, ShippedAdmin
  <2>3. QED BY <2>1, <2>2 DEF Administered, PasswordKnown
<1>6. AuthFilesOk' /\ SessionTimesOk' /\ AccountRequestsOk'
  BY <1>1, <1>3, <1>4 DEF AccountInv, AuthFilesOk, SessionTimesOk, AccountRequestsOk
<1>7. AccountCopiesOk'
  BY <1>1, <1>3, <1>5 DEF AccountCopiesOk
<1>8. (authFiles'.db = NoDb) /\ SessionsHold(authFiles'.db, ended', lastUse') /\ admissions' = {}
  BY <1>1, <1>4 DEF AccountInv
<1>9. QED BY <1>6, <1>7, <1>8 DEF AccountInv

(* An existing database is read as it is.                                   *)
LEMMA OpenAccountsStep ==
  ASSUME AccountInv, OpenAccounts
  PROVE  AccountInv'
<1>1. /\ authServer = "down" /\ authFiles.db # NoDb /\ stagedAccounts' = authFiles.db /\ authServer' = "mark"
      /\ UNCHANGED <<authFiles, live, accountClock, accountRequests, lastUse, ended, admissions>>
  BY DEF OpenAccounts
<1>2. AuthFilesOk' /\ SessionTimesOk' /\ AccountRequestsOk' /\ AccountCopiesOk'
  BY <1>1 DEF AccountInv, AuthFilesOk, SessionTimesOk, AccountRequestsOk, AccountCopiesOk
<1>3. Administered(authFiles.db, authFiles.code, FALSE)
  BY <1>1 DEF AccountInv
<1>4. QED BY <1>1, <1>2, <1>3 DEF AccountInv

(* The staged accounts become the database.                                 *)
LEMMA InstallDbStep ==
  ASSUME AccountInv, InstallDb
  PROVE  AccountInv'
<1>1. /\ authServer = "install" /\ authFiles' = Committed(stagedAccounts) /\ authServer' = "mark"
      /\ UNCHANGED <<stagedAccounts, live, accountClock, accountRequests, lastUse, ended, admissions>>
  BY DEF InstallDb, Committed
<1>2. /\ DOMAIN authFiles' = DOMAIN NoFiles /\ authFiles'.db = stagedAccounts
      /\ authFiles'.legacy = authFiles.legacy /\ authFiles'.code = authFiles.code
  BY <1>1, FilesCommitted DEF AccountInv, AuthFilesOk
<1>3. stagedAccounts.held = {} /\ Administered(stagedAccounts, authFiles.code, FALSE)
  BY <1>1 DEF AccountInv, AccountCopiesOk
<1>4. stagedAccounts # NoDb
  BY <1>3, NobodyInNoDb DEF Administered
<1>5. AuthFilesOk' /\ SessionTimesOk' /\ AccountRequestsOk'
  BY <1>1, <1>2 DEF AccountInv, AuthFilesOk, SessionTimesOk, AccountRequestsOk
<1>6. AccountCopiesOk'
  BY <1>1, <1>2, <1>4 DEF AccountCopiesOk
<1>7. SessionsHold(authFiles'.db, ended', lastUse')
  BY <1>2, <1>3 DEF SessionsHold
<1>8. QED BY <1>1, <1>2, <1>3, <1>5, <1>6, <1>7 DEF AccountInv

(* Publication: accounts that need no rotation are served at once.          *)
LEMMA WriteAccountMarkerStep ==
  ASSUME AccountInv, WriteAccountMarker
  PROVE  AccountInv'
<1>1. /\ authServer = "mark" /\ authFiles' = [authFiles EXCEPT !.marker = TRUE]
      /\ live' = stagedAccounts /\ stagedAccounts' = NoDb
      /\ UNCHANGED <<accountClock, accountRequests, lastUse, ended, admissions>>
  BY DEF WriteAccountMarker
<1>2. \/ ShippedAdmin(stagedAccounts) /\ authServer' = "rotate"
      \/ ~ShippedAdmin(stagedAccounts) /\ authServer' = "up"
  BY DEF WriteAccountMarker
<1>3. /\ DOMAIN authFiles' = DOMAIN NoFiles /\ authFiles'.db = authFiles.db
      /\ authFiles'.legacy = authFiles.legacy /\ authFiles'.code = authFiles.code
  BY <1>1, AccountFields DEF AccountInv, AuthFilesOk
<1>4. stagedAccounts = authFiles.db /\ authFiles.db # NoDb
  BY <1>1 DEF AccountInv, AccountCopiesOk
<1>5. Administered(authFiles.db, authFiles.code, FALSE)
  BY <1>1, <1>4 DEF AccountInv
<1>6. ~ShippedAdmin(authFiles.db) => Administered(authFiles.db, authFiles.code, TRUE)
  BY <1>5 DEF Administered, PasswordKnown
<1>7. AuthFilesOk' /\ SessionTimesOk' /\ AccountRequestsOk'
  BY <1>1, <1>3, FirstAccounts DEF AccountInv, AuthFilesOk, SessionTimesOk, AccountRequestsOk
<1>8. AccountCopiesOk'
  BY <1>1, <1>2, <1>3, <1>4 DEF AccountCopiesOk
<1>9. SessionsHold(authFiles'.db, ended', lastUse') /\ admissions' = {}
  BY <1>1, <1>3 DEF AccountInv
<1>10. CASE authServer' = "rotate"
  BY <1>3, <1>5, <1>7, <1>8, <1>9, <1>10 DEF AccountInv
<1>11. CASE authServer' = "up"
  BY <1>2, <1>3, <1>4, <1>6, <1>7, <1>8, <1>9, <1>11 DEF AccountInv
<1>12. QED BY <1>2, <1>10, <1>11

(* The code is written while the shipped record still stands.               *)
LEMMA WriteCodeStep ==
  ASSUME AccountInv, WriteCode
  PROVE  AccountInv'
<1> DEFINE c == SetupCode(codes + 1)
<1>1. /\ authServer = "rotate" /\ authFiles' = [authFiles EXCEPT !.code = c] /\ authServer' = "rotated"
      /\ UNCHANGED <<stagedAccounts, live, accountClock, accountRequests, lastUse, ended, admissions>>
  BY DEF WriteCode
<1> HIDE DEF c
<1>2. /\ DOMAIN authFiles' = DOMAIN NoFiles /\ authFiles'.db = authFiles.db /\ authFiles'.legacy = authFiles.legacy
  BY <1>1, AccountFields DEF AccountInv, AuthFilesOk
<1>3. live = authFiles.db /\ ShippedAdmin(live) /\ authFiles.db # NoDb
  BY <1>1 DEF AccountInv, AccountCopiesOk
<1>4. Administered(authFiles.db, authFiles.code, FALSE)
  BY <1>1, <1>3 DEF AccountInv
<1>5. Administered(authFiles.db, authFiles'.code, FALSE)
  BY <1>3, <1>4 DEF Administered, PasswordKnown
<1>6. AuthFilesOk' /\ SessionTimesOk' /\ AccountRequestsOk'
  BY <1>1, <1>2 DEF AccountInv, AuthFilesOk, SessionTimesOk, AccountRequestsOk
<1>7. AccountCopiesOk'
  BY <1>1, <1>2, <1>3 DEF AccountCopiesOk
<1>8. SessionsHold(authFiles'.db, ended', lastUse') /\ admissions' = {}
  BY <1>1, <1>2 DEF AccountInv
<1>9. QED BY <1>1, <1>2, <1>5, <1>6, <1>7, <1>8 DEF AccountInv

(* The rotation gives the administrator the code that was written.          *)
LEMMA RotateShippedStep ==
  ASSUME AccountInv, RotateShipped
  PROVE  AccountInv'
<1> DEFINE u == [live.users[Admin] EXCEPT !.pw = authFiles.code, !.must = TRUE, !.failed = 0, !.lockedUntil = 0]
           d == RevokedWith(Admin, u)
<1>1. /\ authServer = "rotated" /\ authServer' = "up" /\ ended' = ended \cup SessionsOf(live, Admin)
      /\ UNCHANGED <<stagedAccounts, accountClock, accountRequests, lastUse, admissions>>
  BY DEF RotateShipped
<1>2. ValidDb(d) /\ authFiles' = Committed(d) /\ live' = d
  BY DEF RotateShipped, PersistDb, RevokedWith
<1>3. live = authFiles.db /\ authFiles.db # NoDb /\ IsDb(live) /\ SessionsHold(live, ended, lastUse)
  BY <1>1 DEF AccountInv, AccountCopiesOk, AuthFilesOk
<1>4. IsUser(live.users[Admin])
  BY <1>3, AccountAssumption DEF IsDb
<1>5. IsUser(u) /\ u.pw = authFiles.code
  BY <1>4, AccountFields DEF IsUser
<1> HIDE DEF u
<1>6. /\ IsDb(d) /\ d.held = live.held /\ d.users[Admin] = u
      /\ \A m \in Names \ {Admin} : d.users[m] = live.users[m]
      /\ \A s \in Tokens : /\ d.sessions[s].user = live.sessions[s].user
                           /\ d.sessions[s].seen = live.sessions[s].seen
                           /\ d.sessions[s].revoked <=>
                                live.sessions[s].revoked \/ (s \in live.held /\ live.sessions[s].user = Admin)
  BY <1>3, <1>5, RevokedDb, AccountAssumption
<1>7. EnabledAdmins(d) # {} /\ \A s \in d.held : HasUser(d, d.sessions[s].user)
  BY <1>2, ValidAccounts
<1> HIDE DEF d
<1>8. d.held \subseteq Tokens /\ \A s \in d.held : d.sessions[s].user = Admin => d.sessions[s].revoked
  BY <1>6 DEF IsDb
<1>9. SessionsHold(d, ended', lastUse')
  BY <1>1, <1>3, <1>6, <1>7, <1>8, SessionsEnded, AccountAssumption
<1>10. Administered(authFiles.db, authFiles.code, FALSE)
  BY <1>1, <1>3 DEF AccountInv
<1>11. ASSUME NEW m \in Names, HasUser(d, m) PROVE PasswordKnown(d, m, authFiles.code, TRUE)
  <2>1. CASE m = Admin
    BY <2>1, <1>5, <1>6 DEF PasswordKnown
  <2>2. CASE m # Admin
    BY <2>2, <1>3, <1>6, <1>10, <1>11 DEF PasswordKnown, Administered, HasUser
  <2>3. QED BY <2>1, <2>2
<1>12. Administered(d, authFiles.code, TRUE) /\ d # NoDb
  BY <1>7, <1>11, NobodyInNoDb DEF Administered
<1>13. /\ DOMAIN authFiles' = DOMAIN NoFiles /\ authFiles'.db = d /\ authFiles'.legacy = authFiles.legacy
       /\ authFiles'.code = authFiles.code
  BY <1>2, FilesCommitted DEF AccountInv, AuthFilesOk
<1>14. AuthFilesOk' /\ SessionTimesOk' /\ AccountRequestsOk'
  BY <1>1, <1>2, <1>6, <1>13 DEF AccountInv, AuthFilesOk, SessionTimesOk, AccountRequestsOk
<1>15. AccountCopiesOk'
  BY <1>1, <1>2, <1>12, <1>13 DEF AccountCopiesOk
<1>16. QED BY <1>1, <1>9, <1>12, <1>13, <1>14, <1>15 DEF AccountInv

(* A crash leaves what was committed.                                       *)
LEMMA ServerCrashStep ==
  ASSUME AccountInv, ServerCrash
  PROVE  AccountInv'
<1>1. /\ authServer' = "down" /\ stagedAccounts' = NoDb /\ live' = NoDb
      /\ accountRequests' = [r \in AccountRequests |-> Idling]
      /\ UNCHANGED <<authFiles, accountClock, lastUse, ended, admissions>>
  BY DEF ServerCrash
<1>2. AuthFilesOk' /\ SessionTimesOk' /\ AccountRequestsOk' /\ AccountCopiesOk'
  BY <1>1, FirstAccounts, AccountAssumption DEF AccountInv, AuthFilesOk, SessionTimesOk, AccountRequestsOk, AccountCopiesOk, Idling
<1>3. authFiles.db # NoDb => Administered(authFiles.db, authFiles.code, FALSE)
  BY StoppedAccounts DEF AccountInv
<1>4. QED BY <1>1, <1>2, <1>3 DEF AccountInv

(* Without a database there is nothing to administer.                       *)
LEMMA LoseDatabaseStep ==
  ASSUME AccountInv, LoseDatabase
  PROVE  AccountInv'
<1>1. /\ authServer = "down" /\ authFiles' = Committed(NoDb)
      /\ UNCHANGED <<authServer, stagedAccounts, live, accountClock, accountRequests, lastUse, ended, admissions>>
  BY DEF LoseDatabase, Committed
<1>2. DOMAIN authFiles' = DOMAIN NoFiles /\ authFiles'.db = NoDb /\ authFiles'.legacy = authFiles.legacy
  BY <1>1, FilesCommitted DEF AccountInv, AuthFilesOk
<1>3. AuthFilesOk' /\ SessionTimesOk' /\ AccountRequestsOk' /\ AccountCopiesOk'
  BY <1>1, <1>2, FirstAccounts DEF AccountInv, AuthFilesOk, SessionTimesOk, AccountRequestsOk, AccountCopiesOk
<1>4. SessionsHold(authFiles'.db, ended', lastUse')
  BY <1>2, NobodyInNoDb DEF SessionsHold
<1>5. QED BY <1>1, <1>2, <1>3, <1>4 DEF AccountInv

(* Time passes.                                                             *)
LEMMA ClockTicksStep ==
  ASSUME AccountInv, ClockTicks
  PROVE  AccountInv'
<1>1. /\ accountClock' = accountClock + 1
      /\ UNCHANGED <<authFiles, authServer, stagedAccounts, live, accountRequests, lastUse, ended, admissions>>
  BY DEF ClockTicks
<1>2. SessionTimesOk'
  BY <1>1 DEF AccountInv, SessionTimesOk
<1>3. QED BY <1>1, <1>2 DEF AccountInv, AuthFilesOk, AccountRequestsOk, AccountCopiesOk

-----------------------------------------------------------------------------
(* The accounts of a home.                                                  *)

(* The homes an installation starts from.                                   *)
LEMMA FirstHomes ==
  ASSUME NEW h \in Homes
  PROVE  /\ DOMAIN h = DOMAIN NoFiles /\ IsDb(h.db) /\ IsDb(h.legacy) /\ h.db.held = {}
         /\ \A n \in Names : HasUser(h.legacy, n) => n = Admin /\ ShippedAdmin(h.legacy)
         /\ h.db # NoDb => Administered(h.db, h.code, FALSE)
<1> DEFINE pending == User("admin", FALSE, PendingRecord)
           shipped == User("admin", TRUE, Shipped)
           ps == [NoDb.users EXCEPT ![Admin] = pending]
           ss == [NoDb.users EXCEPT ![Admin] = shipped]
<1>1. NoFiles.db = NoDb /\ NoFiles.legacy = NoDb
  BY DEF NoFiles
<1>2. CASE h = NoFiles
  BY <1>1, <1>2, FirstAccounts, NobodyInNoDb
<1>3. CASE h = [NoFiles EXCEPT !.legacy = WithUsers(ps)]
  <2>1. DOMAIN h = DOMAIN NoFiles /\ h.legacy = WithUsers(ps) /\ h.db = NoDb
    BY <1>1, <1>3, AccountFields
  <2>2. IsUser(pending) /\ pending.pw = PendingRecord /\ pending.disabled = FALSE /\ pending.role = "admin"
    BY NewUser
  <2> HIDE DEF pending
  <2>3. DOMAIN ps = Names /\ ps[Admin] = pending /\ \A n \in Names \ {Admin} : ps[n] = NoUser
    BY AccountAssumption DEF NoDb
  <2>4. \A n \in Names : IsUser(ps[n])
    BY <2>2, <2>3, FirstAccounts
  <2> HIDE DEF ps
  <2>5. IsDb(h.legacy) /\ h.legacy.users = ps
    BY <2>1, <2>3, <2>4, UsersOnly
  <2>6. pending # NoUser
    BY <2>2 DEF NoUser
  <2>7. ShippedAdmin(h.legacy) /\ \A n \in Names : HasUser(h.legacy, n) => n = Admin
    BY <2>2, <2>3, <2>5, <2>6 DEF ShippedAdmin, HasUser
  <2>8. QED BY <2>1, <2>5, <2>7, FirstAccounts, NobodyInNoDb
<1>4. CASE h = [NoFiles EXCEPT !.marker = TRUE, !.db = WithUsers(ss)]
  <2>1. DOMAIN h = DOMAIN NoFiles /\ h.legacy = NoDb /\ h.db = WithUsers(ss)
    BY <1>1, <1>4, AccountFields
  <2>2. IsUser(shipped) /\ shipped.pw = Shipped /\ shipped.disabled = FALSE /\ shipped.role = "admin"
    BY FirstUser
  <2>0. shipped.must = TRUE
    BY AccountFields DEF User, NoUser
  <2> HIDE DEF shipped
  <2>3. DOMAIN ss = Names /\ ss[Admin] = shipped /\ \A n \in Names \ {Admin} : ss[n] = NoUser
    BY AccountAssumption DEF NoDb
  <2>4. \A n \in Names : IsUser(ss[n])
    BY <2>2, <2>3, FirstAccounts
  <2> HIDE DEF ss
  <2>5. IsDb(h.db) /\ h.db.users = ss /\ h.db.held = {}
    BY <2>1, <2>3, <2>4, UsersOnly
  <2>6. shipped # NoUser
    BY <2>2 DEF NoUser
  <2>7. ShippedAdmin(h.db) /\ \A n \in Names : HasUser(h.db, n) => n = Admin
    BY <2>2, <2>0, <2>3, <2>5, <2>6 DEF ShippedAdmin, HasUser
  <2>8. Admin \in EnabledAdmins(h.db)
    BY <2>2, <2>3, <2>5, AccountAssumption DEF EnabledAdmins
  <2>9. Administered(h.db, h.code, FALSE)
    BY <2>7, <2>8 DEF Administered, PasswordKnown
  <2>10. QED BY <2>1, <2>5, <2>9, FirstAccounts, NobodyInNoDb
<1>5. QED BY <1>2, <1>3, <1>4 DEF Homes

(* The invariant holds in them,                                             *)
LEMMA AccountStarts == AccountInit => AccountInv
<1> SUFFICES ASSUME AccountInit PROVE AccountInv
  OBVIOUS
<1>1. /\ authFiles \in Homes /\ authServer = "down" /\ stagedAccounts = NoDb /\ live = NoDb /\ accountClock = 1
      /\ accountRequests = [r \in AccountRequests |-> Idling] /\ lastUse = [s \in Tokens |-> 0] /\ admissions = {}
  BY DEF AccountInit
<1>2. AccountRequestsOk /\ SessionTimesOk
  BY <1>1, AccountAssumption DEF AccountRequestsOk, SessionTimesOk, Idling
<1>3. AuthFilesOk
  BY <1>1, FirstHomes, FirstAccounts DEF AuthFilesOk
<1>4. AccountCopiesOk
  BY <1>1 DEF AccountCopiesOk
<1>5. SessionsHold(authFiles.db, ended, lastUse)
  BY <1>1, FirstHomes DEF SessionsHold
<1>6. authFiles.db # NoDb => Administered(authFiles.db, authFiles.code, FALSE)
  BY <1>1, FirstHomes
<1>7. QED BY <1>1, <1>2, <1>3, <1>4, <1>5, <1>6 DEF AccountInv

(* ... is kept by every step,                                               *)
LEMMA AccountStep == AccountInv /\ [AccountNext]_accountVars => AccountInv'
<1> SUFFICES ASSUME AccountInv, [AccountNext]_accountVars PROVE AccountInv'
  OBVIOUS
<1>1. CASE UNCHANGED accountVars
  BY <1>1 DEF accountVars, AccountInv, AccountRequestsOk, SessionTimesOk, AuthFilesOk, AccountCopiesOk
<1>2. CASE OpenFresh \/ OpenLegacy \/ OpenAccounts \/ InstallDb \/ WriteAccountMarker
  BY <1>2, OpenFreshStep, OpenLegacyStep, OpenAccountsStep, InstallDbStep, WriteAccountMarkerStep
<1>3. CASE WriteCode \/ RotateShipped \/ ServerCrash \/ LoseDatabase \/ ClockTicks
  BY <1>3, WriteCodeStep, RotateShippedStep, ServerCrashStep, LoseDatabaseStep, ClockTicksStep
<1>4. ASSUME NEW n \in Names, NEW pw, NEW s \in Tokens, LogIn(n, pw, s) PROVE AccountInv'
  BY <1>4, LogInStep
<1>5. ASSUME NEW n \in Names, NEW pw, FailedLogin(n, pw) PROVE AccountInv'
  BY <1>5, FailedLoginStep
<1>6. ASSUME NEW r \in AccountRequests, NEW s \in Tokens, NEW o, NEW n \in Names, AccountRequestGate(r, s, o, n)
      PROVE  AccountInv'
  BY <1>6, AccountGateStep
<1>7. ASSUME NEW r \in AccountRequests, NEW s \in Tokens, ChangePassword(r, s) PROVE AccountInv'
  BY <1>7, ChangePasswordStep
<1>8. ASSUME NEW r \in AccountRequests,
             CreateUser(r) \/ SetPassword(r) \/ SetRole(r) \/ SetDisabled(r)
               \/ DeleteUser(r) \/ LogOut(r) \/ RequestRefused(r)
      PROVE  AccountInv'
  BY <1>8, CreateUserStep, SetPasswordStep, SetRoleStep, SetDisabledStep, DeleteUserStep, LogOutStep,
     RequestRefusedStep
<1>9. QED BY <1>1, <1>2, <1>3, <1>4, <1>5, <1>6, <1>7, <1>8 DEF AccountNext

(* ... and says that the home can be administered and only live sessions are served. *)
LEMMA AccountsServed == AccountInv => AdminCanSignIn /\ AdmittedIsLive
<1> SUFFICES ASSUME AccountInv PROVE AdminCanSignIn /\ AdmittedIsLive
  OBVIOUS
<1>1. AdmittedIsLive
  BY DEF AccountInv, AdmittedIsLive
<1>2. ASSUME authFiles.db # NoDb
      PROVE  \E n \in Names : LET u == authFiles.db.users[n] IN
               /\ u.role = "admin" /\ ~u.disabled
               /\ \/ u.pw = Chosen
                  \/ u.pw = authFiles.code
                  \/ n = Admin /\ authServer # "up" /\ ShippedAdmin(authFiles.db)
  <2>1. Administered(authFiles.db, authFiles.code, authServer = "up")
    BY <1>2 DEF AccountInv
  <2>2. PICK n \in Names : authFiles.db.users[n].role = "admin" /\ ~authFiles.db.users[n].disabled
    BY <2>1 DEF Administered, EnabledAdmins
  <2>3. HasUser(authFiles.db, n)
    BY <2>2 DEF HasUser, NoUser
  <2>4. PasswordKnown(authFiles.db, n, authFiles.code, authServer = "up")
    BY <2>1, <2>3 DEF Administered
  <2>5. QED BY <2>2, <2>4 DEF PasswordKnown
<1>3. QED BY <1>1, <1>2 DEF AdminCanSignIn

(* Whatever requests race, whatever is disabled, demoted or deleted, and wherever *)
(* the server dies while it opens: a home with a database has an enabled    *)
(* administrator with a password somebody knows, and no session passes the gate *)
(* after it was ended or outside its limits (auth_store.rs, auth_sqlite.rs, *)
(* guards.rs), for any number of accounts, sessions, requests and crashes.  *)
THEOREM AccountsSafe == AccountSpec => [](AdminCanSignIn /\ AdmittedIsLive)
BY AccountStarts, AccountStep, AccountsServed, PTL DEF AccountSpec

(* A behaviour of the services is one of the accounts, in which the steps   *)
(* of the other parts stutter.                                              *)
LEMMA ServicesAccounts ==
  /\ ServicesInit => AccountInit
  /\ [ServicesNext]_servicesAll => [AccountNext]_accountVars
<1>1. ServicesInit => AccountInit
  BY DEF ServicesInit
<1>2. ASSUME [ServicesNext]_servicesAll PROVE [AccountNext]_accountVars
  <2>1. CASE UNCHANGED servicesAll
    BY <2>1 DEF servicesAll
  <2>2. CASE ServicesNext
    BY <2>2 DEF ServicesNext
  <2>3. QED BY <1>2, <2>1, <2>2
<1>3. QED BY <1>1, <1>2

(* The same of the home with its other services beside the accounts.        *)
THEOREM AccountsAreSound == ServicesSpec => []AccountsHold
<1>1. AccountInv => AccountsHold
  BY AccountsServed DEF AccountsHold
<1>2. AccountInv /\ [ServicesNext]_servicesAll => AccountInv'
  BY AccountStep, ServicesAccounts
<1>3. ServicesInit => AccountInv
  BY AccountStarts, ServicesAccounts
<1>4. QED BY <1>1, <1>2, <1>3, PTL DEF ServicesSpec

-----------------------------------------------------------------------------
(* The bounded logs: for any sizes of file and queue, any number of records,   *)
(* children and faults.                                                        *)

LogLines == [recs : Seq(Nat), closed : BOOLEAN, cut : BOOLEAN]
LogContents == [there : BOOLEAN, lines : Seq(LogLines), bytes : Nat]
LogPair == [cur : LogContents, prev : LogContents]
Appending == {"open", "remove", "rename", "reopen", "write", "newline"}
LogAppends == [pc : Appending \cup {"idle", "try"}, path : LogPaths, rec : Nat]

(* How full the current file is at each step of the holder of its lease.       *)
LogRoom(pc, bytes) ==
  /\ pc \in {"remove", "rename"} => bytes = MaxFile
  /\ pc = "reopen" => bytes = 0
  /\ pc = "write" => bytes < MaxFile

(* The last records written, as many as the current file counts, are in it,    *)
(* and the newest MaxFile are in one of the two.                               *)
PairKept(f, w) ==
  /\ f.cur.bytes <= MaxFile
  /\ \A i \in DOMAIN w : i > Len(w) - f.cur.bytes => w[i] \in RecordsOf(f.cur)
  /\ \A i \in DOMAIN w : i > Len(w) - MaxFile => w[i] \in RecordsOf(f.cur) \cup RecordsOf(f.prev)

RotationInv ==
  /\ logFile \in [LogPaths -> LogPair] /\ append \in [Threads -> LogAppends]
  /\ wrote \in [LogPaths -> Seq(Nat)] /\ logged \in Nat /\ queue \in Seq(Int)
  /\ lease \in [LogPaths -> Threads \cup {"none"}]
  /\ \A t \in Threads : append[t].pc \in Appending =>
        lease[append[t].path] = t /\ LogRoom(append[t].pc, logFile[append[t].path].cur.bytes)
  /\ \A p \in LogPaths : PairKept(logFile[p], wrote[p])

(* The barriers in the queue belong to flushes up to this one; its own is      *)
(* behind every line submitted before it, and once it is answered none of them *)
(* is left.                                                                    *)
BarrierInv ==
  /\ queue \in Seq(Int) /\ append \in [Threads -> LogAppends] /\ children \in Nat /\ logged \in Nat
  /\ before \subseteq 1..logged
  /\ \A i \in DOMAIN queue : queue[i] <= logged /\ queue[i] >= Barrier
  /\ append["writer"].rec <= logged /\ (append["writer"].pc = "idle" => append["writer"].rec = 0)
  /\ child \in {"none", "running"} /\ (child = "running" => flush \in {"done", "late"})
  /\ \A i \in DOMAIN queue : queue[i] = Barrier =>
        /\ flush \in {"queued", "late"} /\ child = "none"
        /\ \A j \in DOMAIN queue : (queue[j] \in before => j < i) /\ (queue[j] = Barrier => j = i)
  /\ flush = "done" => \A r \in before : r # append["writer"].rec /\ \A i \in DOMAIN queue : queue[i] # r

(* The barrier invariant is what the child relies on.                          *)
LEMMA BarriersServe == BarrierInv => ChildFollowsServer
BY DEF BarrierInv, ChildFollowsServer, ToSet

(* A step of an append that leaves the writer's queue alone, and does not put  *)
(* a new record into the writer's hands, keeps the barriers in place.          *)
LEMMA AppendKeepsBarriers ==
  ASSUME BarrierInv, QueueSide, append' \in [Threads -> LogAppends],
         \/ append'["writer"].rec = append["writer"].rec /\ append'["writer"].pc # "idle"
         \/ append'["writer"] = append["writer"]
         \/ append'["writer"] = Rest
  PROVE  BarrierInv'
<1>1. /\ queue' = queue /\ flush' = flush /\ before' = before /\ child' = child
      /\ logged' = logged /\ children' = children /\ Barrier' = Barrier
  BY DEF QueueSide, Barrier
<1>2. append'["writer"].rec \in {0, append["writer"].rec} /\ append'["writer"].rec <= logged
      /\ (append'["writer"].pc = "idle" => append'["writer"].rec = 0)
  BY <1>1 DEF BarrierInv, Rest
<1>3. flush = "done" => \A r \in before : r # append'["writer"].rec
  BY <1>2 DEF BarrierInv
<1>4. QED BY <1>1, <1>2, <1>3 DEF BarrierInv

LEMMA LogKeepsBarriers == ASSUME BarrierInv, Log PROVE BarrierInv'
<1>1. /\ append' = append /\ flush' = flush /\ before' = before /\ child' = child /\ children' = children
      /\ Barrier' = Barrier /\ logged' = logged + 1 /\ logged \in Nat /\ Barrier \in Int /\ Barrier < 0
  BY DEF BarrierInv, Log, Barrier
<1>a. /\ before' \subseteq 1..logged' /\ append'["writer"].rec <= logged'
      /\ \A i \in DOMAIN queue : queue[i] <= logged' /\ queue[i] >= Barrier
  <2>1. append["writer"].rec \in Nat /\ \A i \in DOMAIN queue : queue[i] \in Int
    BY DEF BarrierInv, LogAppends, Threads
  <2>2. QED BY <1>1, <2>1 DEF BarrierInv
<1>2. CASE queue' = queue
  BY <1>1, <1>a, <1>2 DEF BarrierInv
<1>3. CASE queue' = Append(queue, logged + 1)
  <2>1. queue' \in Seq(Int) /\ DOMAIN queue' = 1..(Len(queue) + 1) /\ DOMAIN queue = 1..Len(queue) /\ Len(queue) \in Nat
        /\ queue'[Len(queue) + 1] = logged + 1 /\ \A i \in DOMAIN queue : queue'[i] = queue[i]
    BY <1>1, <1>3 DEF BarrierInv
  <2>2. \A i \in DOMAIN queue' : i \in DOMAIN queue \/ i = Len(queue) + 1
    BY <2>1
  <2>3. logged + 1 \notin before /\ \A r \in before : r \in Nat /\ r > 0
    BY <1>1 DEF BarrierInv
  <2>4. \A i \in DOMAIN queue' : queue'[i] <= logged' /\ queue'[i] >= Barrier
    BY ONLY <1>1, <1>a, <2>1, <2>2
  <2>5. \A i \in DOMAIN queue' : queue'[i] = Barrier =>
          i \in DOMAIN queue /\ queue[i] = Barrier /\ \A j \in DOMAIN queue' :
              /\ queue'[j] \in before => j \in DOMAIN queue /\ queue[j] \in before
              /\ queue'[j] = Barrier => j \in DOMAIN queue /\ queue[j] = Barrier
    BY <1>1, <2>1, <2>2, <2>3
  <2>6. flush = "done" => \A r \in before : \A i \in DOMAIN queue' : queue'[i] # r
    BY <1>1, <2>1, <2>2, <2>3 DEF BarrierInv
  <2>7. QED BY <1>1, <1>a, <2>1, <2>4, <2>5, <2>6 DEF BarrierInv
<1>4. QED BY <1>2, <1>3 DEF Log

LEMMA TakeJobKeepsBarriers == ASSUME BarrierInv, TakeJob PROVE BarrierInv'
<1>1. /\ before' = before /\ child' = child /\ children' = children /\ Barrier' = Barrier /\ logged' = logged
      /\ logged \in Nat /\ Barrier \in Int /\ queue # <<>> /\ append["writer"].rec = 0
  BY DEF BarrierInv, TakeJob, Barrier
<1>2. queue' \in Seq(Int) /\ DOMAIN queue' = 1..(Len(queue) - 1) /\ DOMAIN queue = 1..Len(queue) /\ Len(queue) \in Nat
      /\ 1 \in DOMAIN queue /\ Head(queue) = queue[1] /\ \A i \in DOMAIN queue' : i + 1 \in DOMAIN queue /\ queue'[i] = queue[i + 1]
  BY <1>1 DEF BarrierInv, TakeJob
<1>3. \A i \in DOMAIN queue' : queue'[i] <= logged /\ queue'[i] >= Barrier
  BY <1>2 DEF BarrierInv
<1>4. ASSUME NEW i \in DOMAIN queue', queue'[i] = Barrier, NEW j \in DOMAIN queue'
      PROVE  (queue'[j] \in before => j < i) /\ (queue'[j] = Barrier => j = i)
  <2>1. (queue'[j] \in before => j + 1 < i + 1) /\ (queue'[j] = Barrier => j + 1 = i + 1)
    BY <1>2, <1>4 DEF BarrierInv
  <2>2. i \in Int /\ j \in Int
    BY <1>2
  <2>3. QED BY <2>1, <2>2
<1>5. \A i \in DOMAIN queue' : queue'[i] = Barrier => flush \in {"queued", "late"} /\ child = "none"
  BY <1>2 DEF BarrierInv
<1>6. CASE Head(queue) > 0 /\ flush' = flush /\ append' = [append EXCEPT !["writer"] = [pc |-> "try", path |-> "audit", rec |-> Head(queue)]]
  <2>1. append' \in [Threads -> LogAppends] /\ append'["writer"].rec = queue[1] /\ append'["writer"].pc = "try"
    BY <1>2, <1>6 DEF BarrierInv, LogAppends, LogPaths, Threads
  <2>2. queue[1] <= logged
    BY <1>2 DEF BarrierInv
  <2>3. flush = "done" => \A r \in before : r # append'["writer"].rec /\ \A i \in DOMAIN queue' : queue'[i] # r
    BY <1>2, <2>1 DEF BarrierInv
  <2>4. QED BY <1>1, <1>2, <1>3, <1>4, <1>5, <1>6, <2>1, <2>2, <2>3 DEF BarrierInv
<1>7. CASE Head(queue) < 0 /\ append' = append /\ flush' = (IF flush = "queued" /\ Head(queue) = Barrier THEN "done" ELSE flush)
  <2>1. CASE flush = "queued" /\ Head(queue) = Barrier
    <3>0. \A j \in DOMAIN queue : (queue[j] \in before => j < 1) /\ (queue[j] = Barrier => j = 1)
      <4>1. queue[1] = Barrier /\ 1 \in DOMAIN queue
        BY <1>2, <2>1
      <4>2. QED BY <4>1 DEF BarrierInv
    <3>1. \A j \in DOMAIN queue : queue[j] \notin before
      BY ONLY <1>2, <3>0
    <3>2. \A r \in before : r # append["writer"].rec /\ \A i \in DOMAIN queue' : queue'[i] # r
      BY <1>1, <1>2, <3>1 DEF BarrierInv
    <3>3. \A i \in DOMAIN queue' : queue'[i] # Barrier
      <4>1. SUFFICES ASSUME NEW i \in DOMAIN queue', queue'[i] = Barrier PROVE FALSE
        OBVIOUS
      <4>2. i + 1 = 1 /\ i \in Nat /\ i > 0
        BY ONLY <1>2, <3>0, <4>1
      <4>3. QED BY <4>2
    <3>4. child # "running"
      BY <2>1 DEF BarrierInv
    <3>5. QED BY <1>1, <1>2, <1>3, <1>7, <2>1, <3>2, <3>3, <3>4 DEF BarrierInv
  <2>2. CASE flush' = flush
    <3>1. flush = "done" => \A r \in before : \A i \in DOMAIN queue' : queue'[i] # r
      BY <1>2 DEF BarrierInv
    <3>2. QED BY <1>1, <1>2, <1>3, <1>4, <1>5, <1>7, <2>2, <3>1 DEF BarrierInv
  <2>3. QED BY <1>7, <2>1, <2>2
<1>8. QED BY <1>6, <1>7 DEF TakeJob
LEMMA FlushKeepsBarriers == ASSUME BarrierInv, Flush \/ FlushLate PROVE BarrierInv'
<1>1. /\ queue' = queue /\ append' = append /\ child' = child /\ children' = children /\ Barrier' = Barrier /\ logged' = logged
  BY DEF Flush, FlushLate, Barrier
<1>2. CASE FlushLate
  <2>1. flush' = "late" /\ before' = before
    BY <1>2 DEF FlushLate
  <2>2. QED BY <1>1, <2>1 DEF BarrierInv
<1>3. CASE Flush
  <2>1. flush = "no" /\ flush' = "waiting" /\ child = "none"
    BY <1>3 DEF Flush
  <2>2. \A r \in before' : r \in 1..logged
    <3>1. append["writer"].rec \in Nat /\ \A i \in DOMAIN queue : queue[i] \in Int
      BY DEF BarrierInv, LogAppends, Threads
    <3>2. ASSUME NEW r \in before' PROVE r > 0 /\ (r = append["writer"].rec \/ \E i \in DOMAIN queue : r = queue[i])
      BY <1>3, <3>2 DEF Flush, ToSet
    <3>3. QED BY <3>1, <3>2 DEF BarrierInv
  <2>3. \A i \in DOMAIN queue : queue[i] # Barrier
    BY <2>1 DEF BarrierInv
  <2>4. QED BY <1>1, <2>1, <2>2, <2>3 DEF BarrierInv
<1>4. QED BY <1>2, <1>3

LEMMA SendBarrierKeepsBarriers == ASSUME BarrierInv, SendBarrier PROVE BarrierInv'
<1>1. /\ append' = append /\ before' = before /\ child' = child /\ children' = children /\ Barrier' = Barrier /\ logged' = logged
      /\ logged \in Nat /\ Barrier \in Int /\ Barrier < 0 /\ flush = "waiting" /\ flush' = "queued" /\ queue' = Append(queue, Barrier)
  BY DEF BarrierInv, SendBarrier, Barrier
<1>2. queue' \in Seq(Int) /\ DOMAIN queue' = 1..(Len(queue) + 1) /\ DOMAIN queue = 1..Len(queue) /\ Len(queue) \in Nat
      /\ queue'[Len(queue) + 1] = Barrier /\ \A i \in DOMAIN queue : queue'[i] = queue[i]
  BY <1>1 DEF BarrierInv
<1>3. \A i \in DOMAIN queue' : i \in DOMAIN queue \/ i = Len(queue) + 1
  BY <1>2
<1>4. \A i \in DOMAIN queue : queue[i] # Barrier
  BY <1>1 DEF BarrierInv
<1>6. \A i \in DOMAIN queue' : queue'[i] = Barrier => i = Len(queue) + 1
  BY ONLY <1>2, <1>3, <1>4
<1>7. Barrier \notin before
  BY <1>1 DEF BarrierInv
<1>8. \A j \in DOMAIN queue' : queue'[j] \in before => j < Len(queue) + 1
  BY ONLY <1>1, <1>2, <1>3, <1>7
<1>9. \A i \in DOMAIN queue : queue[i] <= logged /\ queue[i] >= Barrier
  BY DEF BarrierInv
<1>10. \A i \in DOMAIN queue' : queue'[i] <= logged /\ queue'[i] >= Barrier
  BY ONLY <1>1, <1>2, <1>3, <1>9
<1>11. child \in {"none", "running"} /\ child # "running"
  BY <1>1 DEF BarrierInv
<1>12. QED BY <1>1, <1>2, <1>6, <1>8, <1>10, <1>11 DEF BarrierInv

LEMMA ChildKeepsBarriers == ASSUME BarrierInv, StartChild \/ ChildEnds PROVE BarrierInv'
<1>1. queue' = queue /\ logged' = logged /\ children \in Nat /\ Barrier = -(children + 1) /\ Barrier' = -(children' + 1)
  BY DEF BarrierInv, StartChild, ChildEnds, Barrier
<1>2. \A i \in DOMAIN queue : queue[i] \in Int /\ queue[i] <= logged /\ queue[i] >= Barrier
  BY DEF BarrierInv
<1>3. CASE StartChild
  <2>1. /\ append' = append /\ before' = before /\ flush' = flush /\ flush \in {"done", "late"}
        /\ child' = "running" /\ children' = children + 1
    BY <1>3 DEF StartChild
  <2>2. Barrier' < Barrier /\ Barrier' \in Int /\ Barrier \in Int
    BY <1>1, <2>1
  <2>3. \A i \in DOMAIN queue : queue[i] >= Barrier' /\ queue[i] # Barrier'
    BY ONLY <1>2, <2>2
  <2>4. QED BY <1>1, <1>2, <2>1, <2>3 DEF BarrierInv
<1>4. CASE ChildEnds
  <2>1. /\ append' = [append EXCEPT !["child"] = Rest] /\ before' = {} /\ flush' = "no" /\ child = "running" /\ child' = "none"
        /\ children' = children /\ Barrier' = Barrier
    BY <1>4 DEF ChildEnds, Barrier
  <2>2. append' \in [Threads -> LogAppends] /\ append'["writer"] = append["writer"]
    BY <2>1 DEF BarrierInv, Threads, LogAppends, Rest, LogPaths
  <2>3. \A i \in DOMAIN queue : queue[i] # Barrier
    BY <2>1 DEF BarrierInv
  <2>4. QED BY <1>1, <1>2, <2>1, <2>2, <2>3 DEF BarrierInv
<1>5. QED BY <1>3, <1>4

LEMMA SubmitKeepsBarriers ==
  ASSUME BarrierInv, NEW t \in {"request", "child"}, NEW p \in LogPaths, Submit(t, p) PROVE BarrierInv'
<1>1. /\ queue' = queue /\ flush' = flush /\ before' = before /\ child' = child /\ children' = children /\ Barrier' = Barrier
      /\ logged' = logged + 1 /\ logged \in Nat
  BY DEF BarrierInv, Submit, Barrier
<1>2. append' = [append EXCEPT ![t] = [pc |-> "try", path |-> p, rec |-> logged + 1]]
  BY DEF Submit
<1>3. append' \in [Threads -> LogAppends] /\ append'["writer"] = append["writer"]
  BY <1>1, <1>2 DEF BarrierInv, Threads, LogAppends
<1>4. append["writer"].rec \in Nat /\ \A i \in DOMAIN queue : queue[i] \in Int
  BY DEF BarrierInv, LogAppends, Threads
<1>5. before \subseteq 1..logged' /\ append["writer"].rec <= logged' /\ \A i \in DOMAIN queue : queue[i] <= logged'
  BY <1>1, <1>4 DEF BarrierInv
<1>6. QED BY <1>1, <1>3, <1>5 DEF BarrierInv

(* The steps of one append.                                                     *)
FileSteps(t) ==
  \/ TryLease(t) \/ GiveUp(t) \/ OpenLog(t) \/ RemovePrevious(t) \/ RenameCurrent(t)
  \/ WriteLine(t) \/ WriteNewline(t) \/ FileFault(t)

LEMMA FileStepsKeepBarriers == ASSUME BarrierInv, NEW t \in Threads, FileSteps(t) PROVE BarrierInv'
<1>1. QueueSide
  BY DEF FileSteps, TryLease, GiveUp, OpenLog, RemovePrevious, RenameCurrent, WriteLine, WriteNewline, FileFault
<1>2. Settle(t) \/ \E pc \in Appending : To(t, pc)
  BY DEF FileSteps, TryLease, GiveUp, OpenLog, RemovePrevious, RenameCurrent, WriteLine, WriteNewline, FileFault, Appending
<1>3. append \in [Threads -> LogAppends] /\ "writer" \in Threads
  BY DEF BarrierInv, Threads
<1>4. CASE Settle(t)
  <2>1. append' \in [Threads -> LogAppends] /\ (append'["writer"] = append["writer"] \/ append'["writer"] = Rest)
    BY <1>3, <1>4 DEF Settle, LogAppends, Rest, LogPaths
  <2>2. QED BY <1>1, <2>1, AppendKeepsBarriers
<1>5. CASE \E pc \in Appending : To(t, pc)
  <2>1. PICK pc \in Appending : append' = [append EXCEPT ![t].pc = pc]
    BY <1>5 DEF To
  <2>2. append' \in [Threads -> LogAppends]
    BY <1>3, <2>1 DEF LogAppends
  <2>3. \/ append'["writer"].rec = append["writer"].rec /\ append'["writer"].pc # "idle"
        \/ append'["writer"] = append["writer"]
    BY <1>3, <2>1 DEF LogAppends, Appending
  <2>4. QED BY <1>1, <2>2, <2>3, AppendKeepsBarriers
<1>6. QED BY <1>2, <1>4, <1>5

LEMMA BarrierStep == BarrierInv /\ [LogsNext]_logsVars => BarrierInv'
<1> SUFFICES ASSUME BarrierInv, [LogsNext]_logsVars PROVE BarrierInv'
  OBVIOUS
<1>1. CASE Log
  BY <1>1, LogKeepsBarriers
<1>2. CASE TakeJob
  BY <1>2, TakeJobKeepsBarriers
<1>3. CASE Flush \/ FlushLate
  BY <1>3, FlushKeepsBarriers
<1>4. CASE SendBarrier
  BY <1>4, SendBarrierKeepsBarriers
<1>5. CASE StartChild \/ ChildEnds
  BY <1>5, ChildKeepsBarriers
<1>6. CASE RecordSpend \/ ChildLogs
  BY <1>6, SubmitKeepsBarriers DEF RecordSpend, ChildLogs, LogPaths
<1>7. CASE \E t \in Threads : FileSteps(t)
  BY <1>7, FileStepsKeepBarriers
<1>8. CASE ReadCurrent \/ Summarize \/ Answered \/ UNCHANGED logsVars
  <2>1. UNCHANGED <<queue, append, flush, before, child, logged, children>>
    BY <1>8 DEF ReadCurrent, Summarize, Answered, SummaryStep, logsVars
  <2>2. QED BY <2>1 DEF BarrierInv, Barrier
<1>9. QED BY <1>1, <1>2, <1>3, <1>4, <1>5, <1>6, <1>7, <1>8 DEF LogsNext, FileSteps

(* What the lines of a file hold.                                              *)
LineRecords(lines) == {x \in Nat : \E i \in DOMAIN lines : \E k \in DOMAIN lines[i].recs : x = lines[i].recs[k]}

LEMMA RecordsAreLines ==
  ASSUME NEW f \in LogContents PROVE RecordsOf(f) = LineRecords(f.lines)
<1>0. f.lines \in Seq(LogLines)
  BY DEF LogContents
<1>1. ASSUME NEW i \in DOMAIN f.lines PROVE f.lines[i].recs \in Seq(Nat)
  <2>1. f.lines[i] \in LogLines
    BY <1>0
  <2>2. QED BY <2>1 DEF LogLines
<1>2. ASSUME NEW i \in DOMAIN f.lines, NEW k \in DOMAIN f.lines[i].recs PROVE f.lines[i].recs[k] \in Nat
  BY <1>1, <1>2
<1>3. \A x : x \in RecordsOf(f) <=> \E i \in DOMAIN f.lines : \E k \in DOMAIN f.lines[i].recs : x = f.lines[i].recs[k]
  BY DEF RecordsOf, ToSet
<1>4. QED BY <1>2, <1>3 DEF LineRecords

(* A line that is written adds its record and takes none away.                 *)
LEMMA JoinedHolds ==
  ASSUME NEW lines \in Seq(LogLines), NEW rec \in Nat
  PROVE  /\ Joined(lines, rec) \in Seq(LogLines) /\ Joined(lines, rec) # <<>>
         /\ LineRecords(lines) \cup {rec} \subseteq LineRecords(Joined(lines, rec))
<1> DEFINE L == Joined(lines, rec)  n == Len(lines)
<1>1. CASE lines # <<>> /\ ~Last(lines).closed
  <2>0. n \in Nat /\ n > 0 /\ n \in DOMAIN lines /\ DOMAIN lines = 1..n /\ lines[n] \in LogLines
    BY <1>1
  <2>1. n \in Nat /\ n > 0 /\ n \in DOMAIN lines /\ DOMAIN lines = 1..n /\ lines[n] \in LogLines /\ lines[n].recs \in Seq(Nat)
    BY <2>0 DEF LogLines
  <2>2. PICK l \in LogLines : l = [lines[n] EXCEPT !.recs = Append(@, rec)]
    <3>0. Append(lines[n].recs, rec) \in Seq(Nat)
      BY <2>1
    <3>1. PICK s \in Seq(Nat) : s = Append(lines[n].recs, rec)
      BY <3>0
    <3>2. [lines[n] EXCEPT !.recs = s] \in LogLines
      BY <2>1 DEF LogLines
    <3>3. QED BY <3>1, <3>2
  <2>3. l.recs = Append(lines[n].recs, rec)
    BY <2>1, <2>2 DEF LogLines
  <2>4. L = [lines EXCEPT ![n] = l]
    BY <1>1, <2>2 DEF Joined
  <2>5. L \in Seq(LogLines) /\ DOMAIN L = DOMAIN lines /\ L[n] = l /\ (\A i \in DOMAIN lines : i # n => L[i] = lines[i]) /\ L # <<>>
    BY <2>1, <2>4
  <2>6. DOMAIN l.recs = 1..(Len(lines[n].recs) + 1) /\ l.recs[Len(lines[n].recs) + 1] = rec /\ Len(lines[n].recs) \in Nat
        /\ DOMAIN lines[n].recs = 1..Len(lines[n].recs) /\ \A k \in DOMAIN lines[n].recs : k \in DOMAIN l.recs /\ l.recs[k] = lines[n].recs[k]
    BY <2>1, <2>3
  <2>7. rec \in LineRecords(L)
    <3>1. Len(lines[n].recs) + 1 \in DOMAIN L[n].recs /\ rec = L[n].recs[Len(lines[n].recs) + 1] /\ n \in DOMAIN L
      BY <2>1, <2>5, <2>6
    <3>2. QED BY <3>1 DEF LineRecords
  <2>8. ASSUME NEW x \in LineRecords(lines) PROVE x \in LineRecords(L)
    <3>1. PICK i \in DOMAIN lines : \E k \in DOMAIN lines[i].recs : x = lines[i].recs[k]
      BY <2>8 DEF LineRecords
    <3>2. PICK k \in DOMAIN lines[i].recs : x = lines[i].recs[k]
      BY <3>1
    <3>3. i \in DOMAIN L /\ k \in DOMAIN L[i].recs /\ x = L[i].recs[k]
      BY <2>5, <2>6, <3>1, <3>2
    <3>4. QED BY <2>8, <3>3 DEF LineRecords
  <2>9. QED BY <2>5, <2>7, <2>8
<1>2. CASE ~(lines # <<>> /\ ~Last(lines).closed)
  <2> DEFINE l == [recs |-> <<rec>>, closed |-> FALSE, cut |-> FALSE]
  <2>1. L = Append(lines, l) /\ l \in LogLines /\ l.recs = <<rec>> /\ n \in Nat
    BY <1>2 DEF Joined, LogLines
  <2>2. /\ L \in Seq(LogLines) /\ L # <<>> /\ DOMAIN L = 1..(n + 1) /\ DOMAIN lines = 1..n /\ L[n + 1] = l
        /\ \A i \in DOMAIN lines : i \in DOMAIN L /\ L[i] = lines[i]
    BY <2>1
  <2>3. rec \in LineRecords(L)
    <3>1. n + 1 \in DOMAIN L /\ 1 \in DOMAIN L[n + 1].recs /\ rec = L[n + 1].recs[1]
      BY <2>1, <2>2
    <3>2. QED BY <3>1 DEF LineRecords
  <2>4. LineRecords(lines) \subseteq LineRecords(L)
    BY <2>2 DEF LineRecords
  <2>5. QED BY <2>2, <2>3, <2>4
<1>3. QED BY <1>1, <1>2

(* Marking the last line as closed or cut changes none of its records.         *)
LEMMA MarkedHolds ==
  ASSUME NEW lines \in Seq(LogLines), NEW marked,
         \/ marked = [lines EXCEPT ![Len(lines)].closed = TRUE]
         \/ marked = [lines EXCEPT ![Len(lines)].cut = TRUE]
         \/ marked = lines
  PROVE  marked \in Seq(LogLines) /\ LineRecords(marked) = LineRecords(lines)
<1>1. DOMAIN lines = 1..Len(lines) /\ Len(lines) \in Nat /\ \A i \in DOMAIN lines : lines[i] \in LogLines
  OBVIOUS
<1>2. DOMAIN marked = DOMAIN lines /\ \A i \in DOMAIN lines : marked[i] \in LogLines /\ marked[i].recs = lines[i].recs
  <2>1. CASE marked = [lines EXCEPT ![Len(lines)].closed = TRUE]
    BY <1>1, <2>1 DEF LogLines
  <2>2. CASE marked = [lines EXCEPT ![Len(lines)].cut = TRUE]
    BY <1>1, <2>2 DEF LogLines
  <2>3. QED BY <1>1, <2>1, <2>2
<1>3. marked \in Seq(LogLines)
  BY <1>1, <1>2
<1>4. QED BY <1>2, <1>3 DEF LineRecords

(* A step of the holder t of a lease touches the files of its own path only,   *)
(* and no other thread is inside an append to that path.                       *)
LEMMA HolderStep ==
  ASSUME RotationInv, NEW t \in Threads, NEW p, p = append[t].path, append[t].pc \in Appending,
         NEW f \in LogPair, NEW w \in Seq(Nat), NEW a \in LogAppends,
         logFile' = [logFile EXCEPT ![p] = f], wrote' = [wrote EXCEPT ![p] = w],
         append' = [append EXCEPT ![t] = a], QueueSide,
         \/ lease' = lease /\ a.pc \in Appending /\ a.path = p /\ LogRoom(a.pc, f.cur.bytes)
         \/ lease' = [lease EXCEPT ![p] = "none"] /\ a.pc = "idle",
         PairKept(f, w)
  PROVE  RotationInv'
<1>1. p \in LogPaths /\ lease[p] = t /\ t # "none"
  BY DEF RotationInv, LogAppends, Threads
<1>2. logFile' \in [LogPaths -> LogPair] /\ logFile'[p] = f /\ \A q \in LogPaths : q # p => logFile'[q] = logFile[q]
  BY <1>1 DEF RotationInv
<1>3. wrote' \in [LogPaths -> Seq(Nat)] /\ wrote'[p] = w /\ \A q \in LogPaths : q # p => wrote'[q] = wrote[q]
  BY <1>1 DEF RotationInv
<1>4. append' \in [Threads -> LogAppends] /\ append'[t] = a /\ \A u \in Threads : u # t => append'[u] = append[u]
  BY DEF RotationInv
<1>5. lease' \in [LogPaths -> Threads \cup {"none"}] /\ \A q \in LogPaths : q # p => lease'[q] = lease[q]
  BY <1>1 DEF RotationInv
<1>6. ASSUME NEW u \in Threads, append'[u].pc \in Appending
      PROVE  lease'[append'[u].path] = u /\ LogRoom(append'[u].pc, logFile'[append'[u].path].cur.bytes)
  <2>1. CASE u = t
    <3>1. a.pc \in Appending /\ a.pc # "idle"
      BY <1>4, <1>6, <2>1 DEF Appending
    <3>2. QED BY <1>1, <1>2, <1>4, <2>1, <3>1
  <2>2. CASE u # t
    <3>1. append'[u] = append[u] /\ append[u].path \in LogPaths /\ append[u].pc \in Appending
      BY <1>4, <1>6, <2>2 DEF RotationInv, LogAppends
    <3>2. lease[append[u].path] = u /\ LogRoom(append[u].pc, logFile[append[u].path].cur.bytes)
      BY <3>1 DEF RotationInv
    <3>3. append[u].path # p
      BY <1>1, <2>2, <3>2
    <3>4. QED BY <1>2, <1>5, <3>1, <3>2, <3>3
  <2>3. QED BY <2>1, <2>2
<1>7. \A q \in LogPaths : PairKept(logFile'[q], wrote'[q])
  BY <1>2, <1>3 DEF RotationInv
<1>8. logged' \in Nat /\ queue' \in Seq(Int)
  BY DEF RotationInv, QueueSide
<1>9. QED BY <1>2, <1>3, <1>4, <1>5, <1>6, <1>7, <1>8 DEF RotationInv

(* What the holder of a lease starts from.                                     *)
LEMMA HolderFacts ==
  ASSUME RotationInv, NEW t \in Threads, append[t].pc \in Appending
  PROVE  LET p == append[t].path IN
         /\ p \in LogPaths /\ lease[p] = t /\ append[t].rec \in Nat /\ append[t] \in LogAppends
         /\ logFile[p] \in LogPair /\ logFile[p].cur \in LogContents /\ logFile[p].prev \in LogContents
         /\ logFile[p].cur.bytes \in Nat /\ wrote[p] \in Seq(Nat)
         /\ PairKept(logFile[p], wrote[p]) /\ LogRoom(append[t].pc, logFile[p].cur.bytes)
         /\ logFile = [logFile EXCEPT ![p] = logFile[p]] /\ wrote = [wrote EXCEPT ![p] = wrote[p]]
BY DEF RotationInv, LogAppends, LogPair, LogContents

LEMMA OpenLogKeeps == ASSUME RotationInv, NEW t \in Threads, OpenLog(t) PROVE RotationInv'
<1> DEFINE p == append[t].path
<1>1. append[t].pc \in {"open", "reopen"} /\ append[t].pc \in Appending /\ QueueSide /\ lease' = lease /\ wrote' = wrote
  BY DEF OpenLog, Appending
<1>2. /\ p \in LogPaths /\ logFile[p] \in LogPair /\ logFile[p].cur \in LogContents /\ logFile[p].cur.bytes \in Nat
      /\ wrote[p] \in Seq(Nat) /\ PairKept(logFile[p], wrote[p]) /\ LogRoom(append[t].pc, logFile[p].cur.bytes)
      /\ wrote' = [wrote EXCEPT ![p] = wrote[p]] /\ append[t] \in LogAppends
  BY <1>1, HolderFacts
<1>3. PICK c \in LogContents : c = Opened(logFile[p].cur)
  BY <1>2 DEF Opened, LogContents
<1>4. c.lines = logFile[p].cur.lines /\ c.bytes = logFile[p].cur.bytes
  BY <1>2, <1>3 DEF Opened, LogContents
<1>5. PICK f \in LogPair : f = [cur |-> c, prev |-> logFile[p].prev]
  BY <1>2 DEF LogPair
<1>6. logFile' = [logFile EXCEPT ![p] = f]
  <2>1. logFile' = [logFile EXCEPT ![p].cur = c]
    BY <1>3 DEF OpenLog
  <2>2. [logFile[p] EXCEPT !.cur = c] = f
    BY <1>2, <1>5 DEF LogPair
  <2>3. QED BY <2>1, <2>2
<1>7. f.cur.bytes = logFile[p].cur.bytes /\ RecordsOf(f.cur) = RecordsOf(logFile[p].cur) /\ RecordsOf(f.prev) = RecordsOf(logFile[p].prev)
  BY <1>4, <1>5 DEF RecordsOf
<1>8. PairKept(f, wrote[p])
  BY <1>2, <1>7 DEF PairKept
<1>9. PICK pc \in {"remove", "write"} : /\ append' = [append EXCEPT ![t].pc = pc]
                                      /\ pc = (IF append[t].pc = "open" /\ NeedsRotation(logFile[p].cur) THEN "remove" ELSE "write")
  BY DEF OpenLog, To
<1>10. LogRoom(pc, f.cur.bytes)
  <2>1. f.cur.bytes \in Nat /\ f.cur.bytes <= MaxFile /\ MaxFile \in Nat /\ MaxFile > 0
    BY <1>2, <1>7, LogsAssumption DEF PairKept
  <2>2. CASE pc = "remove"
    <3>1. f.cur.bytes + 1 > MaxFile
      BY <1>7, <1>9, <2>2 DEF NeedsRotation
    <3>2. QED BY <2>1, <2>2, <3>1 DEF LogRoom
  <2>3. CASE pc = "write"
    <3>1. f.cur.bytes = 0 \/ ~(f.cur.bytes + 1 > MaxFile)
      BY <1>1, <1>2, <1>7, <1>9, <2>3 DEF NeedsRotation, LogRoom
    <3>2. QED BY <2>1, <2>3, <3>1 DEF LogRoom
  <2>4. QED BY <2>2, <2>3
<1>11. PICK a \in LogAppends : a = [append[t] EXCEPT !.pc = pc]
  BY <1>2 DEF LogAppends, Appending
<1>12. a.pc = pc /\ a.path = p /\ a.pc \in Appending /\ append' = [append EXCEPT ![t] = a]
  BY <1>2, <1>9, <1>11 DEF LogAppends, Appending
<1>13. QED BY <1>1, <1>2, <1>6, <1>8, <1>10, <1>12, HolderStep

LEMMA RotateKeeps == ASSUME RotationInv, NEW t \in Threads, RemovePrevious(t) \/ RenameCurrent(t) PROVE RotationInv'
<1> DEFINE p == append[t].path
<1>1. append[t].pc \in {"remove", "rename"} /\ append[t].pc \in Appending /\ QueueSide /\ lease' = lease /\ wrote' = wrote
  BY DEF RemovePrevious, RenameCurrent, Appending
<1>2. /\ p \in LogPaths /\ logFile[p] \in LogPair /\ logFile[p].cur \in LogContents /\ logFile[p].cur.bytes \in Nat
      /\ wrote[p] \in Seq(Nat) /\ PairKept(logFile[p], wrote[p]) /\ LogRoom(append[t].pc, logFile[p].cur.bytes)
      /\ wrote' = [wrote EXCEPT ![p] = wrote[p]] /\ append[t] \in LogAppends
  BY <1>1, HolderFacts
<1>3. \A i \in DOMAIN wrote[p] : i > Len(wrote[p]) - MaxFile => wrote[p][i] \in RecordsOf(logFile[p].cur)
  BY <1>1, <1>2 DEF PairKept, LogRoom
<1>4. Gone \in LogContents /\ Gone.bytes = 0 /\ MaxFile \in Nat
  BY LogsAssumption DEF Gone, LogContents
<1>5. CASE RemovePrevious(t)
  <2>1. PICK f \in LogPair : f = [cur |-> logFile[p].cur, prev |-> Gone]
    BY <1>2, <1>4 DEF LogPair
  <2>2. logFile' = [logFile EXCEPT ![p] = f]
    <3>1. [logFile[p] EXCEPT !.prev = Gone] = f
      BY <1>2, <2>1 DEF LogPair
    <3>2. QED BY <1>5, <3>1 DEF RemovePrevious
  <2>3. f.cur = logFile[p].cur
    BY <2>1
  <2>4. PairKept(f, wrote[p])
    BY <1>2, <1>3, <2>3 DEF PairKept
  <2>5. LogRoom("rename", f.cur.bytes)
    BY <1>1, <1>2, <2>3 DEF LogRoom
  <2>6. PICK a \in LogAppends : a = [append[t] EXCEPT !.pc = "rename"]
    BY <1>2 DEF LogAppends, Appending
  <2>7. a.pc = "rename" /\ a.path = p /\ a.pc \in Appending /\ append' = [append EXCEPT ![t] = a]
    BY <1>2, <1>5, <2>6 DEF LogAppends, Appending, RemovePrevious, To
  <2>8. QED BY <1>1, <1>2, <2>2, <2>4, <2>5, <2>7, HolderStep
<1>6. CASE RenameCurrent(t)
  <2>1. PICK f \in LogPair : f = [cur |-> Gone, prev |-> logFile[p].cur]
    BY <1>2, <1>4 DEF LogPair
  <2>2. logFile' = [logFile EXCEPT ![p] = f]
    BY <1>6, <2>1 DEF RenameCurrent
  <2>3. f.cur = Gone /\ f.prev = logFile[p].cur
    BY <2>1
  <2>4. PairKept(f, wrote[p])
    <3>1. \A i \in DOMAIN wrote[p] : ~(i > Len(wrote[p]) - f.cur.bytes)
      BY <1>2, <1>4, <2>3
    <3>2. QED BY <1>3, <1>4, <2>3, <3>1 DEF PairKept
  <2>5. LogRoom("reopen", f.cur.bytes)
    BY <1>4, <2>3 DEF LogRoom
  <2>6. PICK a \in LogAppends : a = [append[t] EXCEPT !.pc = "reopen"]
    BY <1>2 DEF LogAppends, Appending
  <2>7. a.pc = "reopen" /\ a.path = p /\ a.pc \in Appending /\ append' = [append EXCEPT ![t] = a]
    BY <1>2, <1>6, <2>6 DEF LogAppends, Appending, RenameCurrent, To
  <2>8. QED BY <1>1, <1>2, <2>2, <2>4, <2>5, <2>7, HolderStep
<1>7. QED BY <1>5, <1>6
(* The whole line, or as much of it as fits on the disk: the record is in the  *)
(* current file, which has room for it.                                        *)
LEMMA PutRowHolds ==
  ASSUME RotationInv, NEW t \in Threads, NEW cut \in BOOLEAN, PutRow(t, cut)
  PROVE  LET p == append[t].path IN
         \E f \in LogPair, w \in Seq(Nat) :
           /\ logFile' = [logFile EXCEPT ![p] = f] /\ wrote' = [wrote EXCEPT ![p] = w] /\ PairKept(f, w)
<1> DEFINE p == append[t].path  rec == append[t].rec  old == logFile[p].cur  lines == Joined(old.lines, rec)
           new == IF cut THEN [lines EXCEPT ![Len(lines)].cut = TRUE] ELSE lines
<1>1. append[t].pc = "write" /\ append[t].pc \in Appending
  BY DEF PutRow, Appending
<1>2. /\ p \in LogPaths /\ logFile[p] \in LogPair /\ old \in LogContents /\ old.bytes \in Nat /\ rec \in Nat
      /\ wrote[p] \in Seq(Nat) /\ PairKept(logFile[p], wrote[p]) /\ LogRoom("write", old.bytes)
  BY <1>1, HolderFacts
<1>3. old.lines \in Seq(LogLines)
  BY <1>2 DEF LogContents
<1>4. lines \in Seq(LogLines) /\ LineRecords(old.lines) \cup {rec} \subseteq LineRecords(lines)
  BY <1>2, <1>3, JoinedHolds
<1>5. new \in Seq(LogLines) /\ LineRecords(new) = LineRecords(lines)
  <2>1. new = [lines EXCEPT ![Len(lines)].cut = TRUE] \/ new = lines
    OBVIOUS
  <2> HIDE DEF lines, new
  <2>2. QED BY <1>4, <2>1, MarkedHolds
<1> HIDE DEF lines, new
<1>a. PICK b \in Nat : b = old.bytes + 1
  BY <1>2
<1>6. PICK c \in LogContents : c = [there |-> TRUE, bytes |-> b, lines |-> new]
  BY <1>5 DEF LogContents
<1>7. PICK f \in LogPair : f = [cur |-> c, prev |-> logFile[p].prev]
  BY <1>2 DEF LogPair
<1>8. f.cur = c /\ f.prev = logFile[p].prev /\ c.bytes = b /\ c.lines = new
  BY <1>6, <1>7
<1>9. logFile' = [logFile EXCEPT ![p] = f]
  <2>1. logFile' = [logFile EXCEPT ![p].cur = c]
    BY <1>a, <1>6 DEF PutRow, new, lines
  <2>2. [logFile[p] EXCEPT !.cur = c] = f
    BY <1>2, <1>7 DEF LogPair
  <2>3. QED BY <2>1, <2>2
<1>10. PICK w \in Seq(Nat) : w = Append(wrote[p], rec)
  <2>1. Append(wrote[p], rec) \in Seq(Nat)
    BY <1>2
  <2>2. QED BY <2>1
<1>11. wrote' = [wrote EXCEPT ![p] = w]
  BY <1>10 DEF PutRow
<1>12. rec \in RecordsOf(f.cur) /\ RecordsOf(old) \subseteq RecordsOf(f.cur)
  BY <1>2, <1>4, <1>5, <1>8, RecordsAreLines
<1>13. /\ Len(w) = Len(wrote[p]) + 1 /\ Len(wrote[p]) \in Nat /\ DOMAIN w = 1..Len(w) /\ DOMAIN wrote[p] = 1..Len(wrote[p])
       /\ w[Len(w)] = rec /\ \A i \in DOMAIN wrote[p] : w[i] = wrote[p][i]
  BY <1>2, <1>10
<1>14. f.cur.bytes <= MaxFile /\ MaxFile \in Nat
  BY <1>2, <1>a, <1>8, LogsAssumption DEF LogRoom
<1>15. ASSUME NEW i \in DOMAIN w, i # Len(w) PROVE i \in DOMAIN wrote[p] /\ i \in Int
  BY <1>13, <1>15
<1>16. ASSUME NEW i \in DOMAIN w, i > Len(w) - f.cur.bytes PROVE w[i] \in RecordsOf(f.cur)
  <2>1. CASE i = Len(w)
    BY <1>12, <1>13, <2>1
  <2>2. CASE i # Len(w)
    <3>1. i > Len(wrote[p]) - old.bytes
      <4>1. old.bytes \in Nat /\ f.cur.bytes = old.bytes + 1 /\ i \in Int
        BY <1>2, <1>a, <1>8, <1>15, <2>2
      <4>2. Len(w) = Len(wrote[p]) + 1 /\ Len(wrote[p]) \in Nat
        BY <1>13
      <4>3. PICK n \in Nat, o \in Nat : n = Len(wrote[p]) /\ o = old.bytes
        BY <4>1, <4>2
      <4>4. Len(w) = n + 1 /\ f.cur.bytes = o + 1
        BY <4>1, <4>2, <4>3
      <4>5. (n + 1) - (o + 1) = n - o
        OBVIOUS
      <4>6. Len(w) - f.cur.bytes = Len(wrote[p]) - old.bytes
        BY ONLY <4>3, <4>4, <4>5
      <4>7. QED BY ONLY <1>16, <4>6
    <3>2. QED BY <1>2, <1>12, <1>13, <1>15, <2>2, <3>1 DEF PairKept
  <2>3. QED BY <2>1, <2>2
<1>17. ASSUME NEW i \in DOMAIN w, i > Len(w) - MaxFile PROVE w[i] \in RecordsOf(f.cur) \cup RecordsOf(f.prev)
  <2>1. CASE i = Len(w)
    BY <1>12, <1>13, <2>1
  <2>2. CASE i # Len(w)
    <3>1. i > Len(wrote[p]) - MaxFile
      BY <1>13, <1>14, <1>15, <1>17, <2>2
    <3>2. QED BY <1>2, <1>8, <1>12, <1>13, <1>15, <2>2, <3>1 DEF PairKept
  <2>3. QED BY <2>1, <2>2
<1>18. PairKept(f, w)
  BY <1>14, <1>16, <1>17 DEF PairKept
<1>19. QED BY <1>9, <1>11, <1>18

LEMMA WriteLineKeeps == ASSUME RotationInv, NEW t \in Threads, WriteLine(t) PROVE RotationInv'
<1> DEFINE p == append[t].path
<1>1. PutRow(t, FALSE) /\ append[t].pc \in Appending /\ QueueSide /\ lease' = lease /\ append' = [append EXCEPT ![t].pc = "newline"]
  BY DEF WriteLine, PutRow, Appending, To
<1>2. PICK f \in LogPair, w \in Seq(Nat) :
           /\ logFile' = [logFile EXCEPT ![p] = f] /\ wrote' = [wrote EXCEPT ![p] = w] /\ PairKept(f, w)
  BY <1>1, PutRowHolds
<1>3. append[t] \in LogAppends
  BY DEF RotationInv
<1>4. PICK a \in LogAppends : a = [append[t] EXCEPT !.pc = "newline"]
  BY <1>3 DEF LogAppends, Appending
<1>5. a.pc = "newline" /\ a.path = p /\ a.pc \in Appending /\ append' = [append EXCEPT ![t] = a] /\ LogRoom(a.pc, f.cur.bytes)
  BY <1>1, <1>3, <1>4 DEF LogAppends, Appending, LogRoom
<1>6. QED BY <1>1, <1>2, <1>5, HolderStep

(* The end of an append gives the lease back.                                  *)
LEMMA LeaseReleased ==
  ASSUME RotationInv, NEW t \in Threads, append[t].pc \in Appending, Unlock(t), Settle(t)
  PROVE  /\ lease' = [lease EXCEPT ![append[t].path] = "none"]
         /\ append' = [append EXCEPT ![t] = Rest] /\ Rest \in LogAppends /\ Rest.pc = "idle"
BY HolderFacts DEF Unlock, Settle, Rest, LogAppends, LogPaths

LEMMA NewlineKeeps == ASSUME RotationInv, NEW t \in Threads, WriteNewline(t) PROVE RotationInv'
<1> DEFINE p == append[t].path  lines == logFile[p].cur.lines
<1>1. append[t].pc = "newline" /\ append[t].pc \in Appending /\ QueueSide /\ wrote' = wrote /\ Unlock(t) /\ Settle(t)
  BY DEF WriteNewline, Appending
<1>2. /\ p \in LogPaths /\ logFile[p] \in LogPair /\ logFile[p].cur \in LogContents
      /\ wrote[p] \in Seq(Nat) /\ PairKept(logFile[p], wrote[p]) /\ wrote' = [wrote EXCEPT ![p] = wrote[p]]
  BY <1>1, HolderFacts
<1>3. lines \in Seq(LogLines)
  BY <1>2 DEF LogContents
<1>4. PICK new \in Seq(LogLines) : new = [lines EXCEPT ![Len(lines)].closed = TRUE] /\ LineRecords(new) = LineRecords(lines)
  <2> HIDE DEF lines
  <2>1. PICK new : new = [lines EXCEPT ![Len(lines)].closed = TRUE]
    OBVIOUS
  <2>2. new \in Seq(LogLines) /\ LineRecords(new) = LineRecords(lines)
    BY <1>3, <2>1, MarkedHolds
  <2>3. QED BY <2>1, <2>2
<1>5. PICK c \in LogContents : c = [logFile[p].cur EXCEPT !.lines = new]
  BY <1>2 DEF LogContents
<1>6. c.bytes = logFile[p].cur.bytes /\ c.lines = new
  BY <1>2, <1>5 DEF LogContents
<1>7. PICK f \in LogPair : f = [cur |-> c, prev |-> logFile[p].prev]
  BY <1>2 DEF LogPair
<1>8. logFile' = [logFile EXCEPT ![p] = f]
  <2>1. logFile' = [logFile EXCEPT ![p].cur.lines = new]
    BY <1>4 DEF WriteNewline
  <2>2. [logFile[p] EXCEPT !.cur.lines = new] = f
    BY <1>2, <1>5, <1>7 DEF LogPair
  <2>3. QED BY <2>1, <2>2
<1>9. RecordsOf(f.cur) = RecordsOf(logFile[p].cur) /\ f.prev = logFile[p].prev /\ f.cur.bytes = logFile[p].cur.bytes
  BY <1>2, <1>4, <1>6, <1>7, RecordsAreLines
<1>10. PairKept(f, wrote[p])
  BY <1>2, <1>9 DEF PairKept
<1>11. /\ lease' = [lease EXCEPT ![p] = "none"]
       /\ append' = [append EXCEPT ![t] = Rest] /\ Rest \in LogAppends /\ Rest.pc = "idle"
  BY <1>1, LeaseReleased
<1>12. QED BY <1>1, <1>2, <1>8, <1>10, <1>11, HolderStep

LEMMA FaultKeeps == ASSUME RotationInv, NEW t \in Threads, FileFault(t) PROVE RotationInv'
<1> DEFINE p == append[t].path
<1>1. append[t].pc \in Appending /\ QueueSide /\ Unlock(t) /\ Settle(t)
  BY DEF FileFault, Appending
<1>2. CASE UNCHANGED <<logFile, wrote>>
  <2>1. /\ logFile[p] \in LogPair /\ wrote[p] \in Seq(Nat) /\ PairKept(logFile[p], wrote[p])
        /\ logFile' = [logFile EXCEPT ![p] = logFile[p]] /\ wrote' = [wrote EXCEPT ![p] = wrote[p]]
    BY <1>1, <1>2, HolderFacts
  <2>2. QED BY <1>1, <2>1, LeaseReleased, HolderStep
<1>3. CASE PutRow(t, TRUE)
  <2>1. PICK f \in LogPair, w \in Seq(Nat) :
           /\ logFile' = [logFile EXCEPT ![p] = f] /\ wrote' = [wrote EXCEPT ![p] = w] /\ PairKept(f, w)
    BY <1>3, PutRowHolds
  <2>2. QED BY <1>1, <2>1, LeaseReleased, HolderStep
<1>4. QED BY <1>2, <1>3 DEF FileFault
(* A step that leaves files, leases and the history alone, and gives no thread *)
(* a new place inside an append.                                               *)
LEMMA OutsideKeeps ==
  ASSUME RotationInv, logFile' = logFile, wrote' = wrote, logged' \in Nat, queue' \in Seq(Int),
         append' \in [Threads -> LogAppends], lease' \in [LogPaths -> Threads \cup {"none"}],
         \A t \in Threads : append'[t].pc \in Appending =>
            append'[t] = append[t] /\ lease'[append[t].path] = lease[append[t].path]
  PROVE  RotationInv'
BY DEF RotationInv

LEMMA TryKeeps == ASSUME RotationInv, NEW t \in Threads, TryLease(t) \/ GiveUp(t) PROVE RotationInv'
<1> DEFINE p == append[t].path
<1>1. /\ logFile' = logFile /\ wrote' = wrote /\ logged' \in Nat /\ queue' \in Seq(Int) /\ p \in LogPaths
      /\ append[t] \in LogAppends /\ append[t].pc = "try"
  BY DEF RotationInv, TryLease, GiveUp, QueueSide, LogAppends
<1>2. CASE GiveUp(t)
  <2>1. append' = [append EXCEPT ![t] = Rest] /\ lease' = lease /\ Rest \in LogAppends /\ Rest.pc = "idle"
    BY <1>2 DEF GiveUp, Settle, Rest, LogAppends, LogPaths
  <2>2. append' \in [Threads -> LogAppends] /\ \A u \in Threads : append'[u].pc \in Appending => append'[u] = append[u]
    BY <2>1 DEF RotationInv, Appending
  <2>3. lease' \in [LogPaths -> Threads \cup {"none"}]
    BY <2>1 DEF RotationInv
  <2>4. QED BY <1>1, <2>1, <2>2, <2>3, OutsideKeeps
<1>3. CASE TryLease(t)
  <2>1. lease[p] = "none" /\ lease' = [lease EXCEPT ![p] = t] /\ append' = [append EXCEPT ![t].pc = "open"]
    BY <1>3 DEF TryLease, LeaseFree, To
  <2>2. lease' \in [LogPaths -> Threads \cup {"none"}] /\ lease'[p] = t /\ \A q \in LogPaths : q # p => lease'[q] = lease[q]
    BY <1>1, <2>1 DEF RotationInv
  <2>3. PICK a \in LogAppends : a = [append[t] EXCEPT !.pc = "open"]
    BY <1>1 DEF LogAppends, Appending
  <2>4. a.pc = "open" /\ a.path = p
    BY <1>1, <2>3 DEF LogAppends
  <2>5. append' \in [Threads -> LogAppends] /\ append'[t] = a /\ \A u \in Threads : u # t => append'[u] = append[u]
    BY <2>1, <2>3 DEF RotationInv
  <2>6. ASSUME NEW u \in Threads, append'[u].pc \in Appending
        PROVE  lease'[append'[u].path] = u /\ LogRoom(append'[u].pc, logFile'[append'[u].path].cur.bytes)
    <3>1. CASE u = t
      BY <2>2, <2>4, <2>5, <3>1 DEF LogRoom
    <3>2. CASE u # t
      <4>1. append'[u] = append[u] /\ append[u].path \in LogPaths
        BY <2>5, <3>2 DEF RotationInv, LogAppends
      <4>2. lease[append[u].path] = u /\ LogRoom(append[u].pc, logFile[append[u].path].cur.bytes)
        BY <2>6, <4>1 DEF RotationInv
      <4>3. append[u].path # p
        BY <2>1, <4>2 DEF Threads
      <4>4. QED BY <1>1, <2>2, <4>1, <4>2, <4>3
    <3>3. QED BY <3>1, <3>2
  <2>7. QED BY <1>1, <2>2, <2>5, <2>6 DEF RotationInv
<1>4. QED BY <1>2, <1>3

LEMMA QueueKeepsFiles ==
  ASSUME BarrierInv, RotationInv, Log \/ TakeJob \/ Flush \/ SendBarrier \/ FlushLate \/ StartChild PROVE RotationInv'
<1>1. logFile' = logFile /\ wrote' = wrote /\ lease' = lease /\ lease' \in [LogPaths -> Threads \cup {"none"}]
  BY DEF RotationInv, Log, TakeJob, Flush, SendBarrier, FlushLate, StartChild
<1>2. CASE TakeJob
  <2>1. queue \in Seq(Int) /\ queue # <<>> /\ logged' \in Nat
    BY <1>2 DEF TakeJob, RotationInv
  <2>2. Head(queue) \in Int /\ queue' \in Seq(Int)
    BY <1>2, <2>1 DEF TakeJob
  <2>3. append' = append \/ (Head(queue) > 0 /\ append' = [append EXCEPT !["writer"] = [pc |-> "try", path |-> "audit", rec |-> Head(queue)]])
    BY <1>2 DEF TakeJob
  <2>4. CASE append' = append
    BY <1>1, <2>1, <2>2, <2>4, OutsideKeeps DEF RotationInv
  <2>5. CASE Head(queue) > 0 /\ append' = [append EXCEPT !["writer"] = [pc |-> "try", path |-> "audit", rec |-> Head(queue)]]
    <3>0. PICK h \in Nat : h = Head(queue)
      BY <2>2, <2>5
    <3>1. PICK a \in LogAppends : a = [pc |-> "try", path |-> "audit", rec |-> h]
      BY DEF LogAppends, LogPaths
    <3>2. append' = [append EXCEPT !["writer"] = a] /\ a.pc = "try"
      BY <2>5, <3>0, <3>1
    <3>3. append' \in [Threads -> LogAppends] /\ \A u \in Threads : append'[u].pc \in Appending => append'[u] = append[u]
      BY <3>2 DEF RotationInv, Appending, Threads
    <3>4. QED BY <1>1, <2>1, <2>2, <3>3, OutsideKeeps
  <2>6. QED BY <2>3, <2>4, <2>5
<1>3. CASE Log \/ Flush \/ SendBarrier \/ FlushLate \/ StartChild
  <2>1. append' = append /\ append \in [Threads -> LogAppends] /\ logged' \in Nat
    BY <1>3 DEF RotationInv, Log, Flush, SendBarrier, FlushLate, StartChild
  <2>2. PICK n \in Int : queue' = queue \/ queue' = Append(queue, n)
    <3>1. logged + 1 \in Int /\ Barrier \in Int
      BY DEF BarrierInv, Barrier
    <3>2. QED BY <1>3, <3>1 DEF Log, Flush, SendBarrier, FlushLate, StartChild
  <2>3. queue' \in Seq(Int)
    <3>1. queue \in Seq(Int)
      BY DEF RotationInv
    <3>2. Append(queue, n) \in Seq(Int)
      BY ONLY <3>1, n \in Int
    <3>3. QED BY <2>2, <3>1, <3>2
  <2>4. QED BY <1>1, <2>1, <2>3, OutsideKeeps
<1>4. QED BY <1>2, <1>3

(* The lease of a child that ends goes with it, and the child is the only one  *)
(* who held it.                                                                *)
LEMMA ChildEndsKeepsFiles == ASSUME RotationInv, ChildEnds PROVE RotationInv'
<1>1. /\ logFile' = logFile /\ wrote' = wrote /\ logged' \in Nat /\ queue' \in Seq(Int)
      /\ lease' = [p \in LogPaths |-> IF lease[p] = "child" THEN "none" ELSE lease[p]] /\ append' = [append EXCEPT !["child"] = Rest]
  BY DEF RotationInv, ChildEnds
<1>2. Rest \in LogAppends /\ Rest.pc = "idle"
  BY DEF Rest, LogAppends, LogPaths
<1>3. append' \in [Threads -> LogAppends] /\ \A u \in Threads : append'[u].pc \in Appending => u # "child" /\ append'[u] = append[u]
  BY <1>1, <1>2 DEF RotationInv, Appending
<1>4. lease' \in [LogPaths -> Threads \cup {"none"}]
  BY <1>1 DEF RotationInv
<1>5. ASSUME NEW u \in Threads, append'[u].pc \in Appending
      PROVE  append'[u] = append[u] /\ lease'[append[u].path] = lease[append[u].path]
  <2>1. u # "child" /\ append'[u] = append[u] /\ append[u].path \in LogPaths
    BY <1>3, <1>5 DEF RotationInv, LogAppends
  <2>2. lease[append[u].path] = u
    BY <1>5, <2>1 DEF RotationInv
  <2>3. QED BY <1>1, <2>1, <2>2
<1>6. QED BY <1>1, <1>3, <1>4, <1>5, OutsideKeeps

LEMMA SubmitKeepsFiles ==
  ASSUME RotationInv, NEW t \in Threads, NEW p \in LogPaths, Submit(t, p) PROVE RotationInv'
<1>1. logFile' = logFile /\ wrote' = wrote /\ lease' = lease /\ queue' \in Seq(Int) /\ lease' \in [LogPaths -> Threads \cup {"none"}]
  BY DEF RotationInv, Submit
<1>2. logged' = logged + 1 /\ logged' \in Nat /\ append' = [append EXCEPT ![t] = [pc |-> "try", path |-> p, rec |-> logged + 1]]
  BY DEF RotationInv, Submit
<1>3. PICK a \in LogAppends : a = [pc |-> "try", path |-> p, rec |-> logged + 1]
  BY <1>2 DEF LogAppends
<1>4. append' = [append EXCEPT ![t] = a] /\ a.pc = "try"
  BY <1>2, <1>3
<1>5. append' \in [Threads -> LogAppends] /\ \A u \in Threads : append'[u].pc \in Appending => append'[u] = append[u]
  BY <1>4 DEF RotationInv, Appending
<1>6. QED BY <1>1, <1>2, <1>5, OutsideKeeps

LEMMA RotationStep == BarrierInv /\ RotationInv /\ [LogsNext]_logsVars => RotationInv'
<1> SUFFICES ASSUME BarrierInv, RotationInv, [LogsNext]_logsVars PROVE RotationInv'
  OBVIOUS
<1>1. CASE Log \/ TakeJob \/ Flush \/ SendBarrier \/ FlushLate \/ StartChild
  BY <1>1, QueueKeepsFiles
<1>2. CASE ChildEnds
  BY <1>2, ChildEndsKeepsFiles
<1>3. CASE RecordSpend \/ ChildLogs
  BY <1>3, SubmitKeepsFiles DEF RecordSpend, ChildLogs, LogPaths, Threads
<1>4. CASE \E t \in Threads : FileSteps(t)
  BY <1>4, TryKeeps, OpenLogKeeps, RotateKeeps, WriteLineKeeps, NewlineKeeps, FaultKeeps DEF FileSteps
<1>5. CASE ReadCurrent \/ Summarize \/ Answered \/ UNCHANGED logsVars
  <2>1. UNCHANGED <<logFile, lease, queue, append, wrote, logged>>
    BY <1>5 DEF ReadCurrent, Summarize, Answered, SummaryStep, logsVars
  <2>2. QED BY <2>1, OutsideKeeps DEF RotationInv
<1>6. QED BY <1>1, <1>2, <1>3, <1>4, <1>5 DEF LogsNext, FileSteps

LEMMA LogsStart == LogsInit => BarrierInv /\ RotationInv
<1> SUFFICES ASSUME LogsInit PROVE BarrierInv /\ RotationInv
  OBVIOUS
<1>1. Rest \in LogAppends /\ Rest.pc = "idle" /\ Rest.rec = 0
  BY DEF Rest, LogAppends, LogPaths
<1>2. append \in [Threads -> LogAppends] /\ (\A t \in Threads : append[t] = Rest) /\ "writer" \in Threads
  BY <1>1 DEF LogsInit, Threads
<1>3. BarrierInv
  BY <1>1, <1>2 DEF LogsInit, BarrierInv
<1>4. Gone \in LogContents /\ Gone.bytes = 0
  BY DEF Gone, LogContents
<1>5. PICK g \in LogPair : g = [cur |-> Gone, prev |-> Gone]
  BY <1>4 DEF LogPair
<1>6. g.cur = Gone /\ MaxFile \in Nat
  BY <1>5, LogsAssumption
<1>7. logFile \in [LogPaths -> LogPair] /\ (\A p \in LogPaths : logFile[p] = g) /\ wrote \in [LogPaths -> Seq(Nat)] /\ \A p \in LogPaths : wrote[p] = <<>>
  BY <1>5 DEF LogsInit
<1>8. \A p \in LogPaths : PairKept(logFile[p], wrote[p])
  BY <1>4, <1>6, <1>7 DEF PairKept
<1>9. RotationInv
  BY <1>1, <1>2, <1>7, <1>8 DEF LogsInit, RotationInv, Appending
<1>10. QED BY <1>3, <1>9

(* Whatever is appended by whom and wherever a write, a rename or the child    *)
(* fails, the newest MaxFile records of a log are in one of its two files, and *)
(* a child whose flush was answered runs behind every line submitted before it *)
(* (bounded_log.rs append_until, audit.rs flush_async and write_jobs), for any *)
(* sizes and any number of records, children and faults.                       *)
THEOREM LogsAreOrdered == LogsSpec => [](NewestKept /\ ChildFollowsServer)
<1>1. RotationInv => NewestKept
  BY DEF RotationInv, PairKept, NewestKept
<1>2. QED BY <1>1, LogsStart, BarrierStep, RotationStep, BarriersServe, PTL DEF LogsSpec

(* A behaviour of the services is one of the logs.                          *)
LEMMA ServicesLogs ==
  /\ ServicesInit => LogsInit
  /\ [ServicesNext]_servicesAll => [LogsNext]_logsVars
<1>1. ServicesInit => LogsInit
  BY DEF ServicesInit
<1>2. ASSUME [ServicesNext]_servicesAll PROVE [LogsNext]_logsVars
  <2>1. CASE UNCHANGED servicesAll
    BY <2>1 DEF servicesAll
  <2>2. CASE ServicesNext
    BY <2>2 DEF ServicesNext
  <2>3. QED BY <1>2, <2>1, <2>2
<1>3. QED BY <1>1, <1>2

(* The same of the home with its other services beside the logs.            *)
THEOREM LogsStayInOrder == ServicesSpec => []LogsInOrder
<1>1. BarrierInv /\ RotationInv => LogsInOrder
  BY BarriersServe DEF LogsInOrder, RotationInv, PairKept, NewestKept
<1>2. BarrierInv /\ RotationInv /\ [ServicesNext]_servicesAll => (BarrierInv /\ RotationInv)'
  BY BarrierStep, RotationStep, ServicesLogs
<1>3. ServicesInit => BarrierInv /\ RotationInv
  BY LogsStart, ServicesLogs
<1>4. QED BY <1>1, <1>2, <1>3, PTL DEF ServicesSpec

-----------------------------------------------------------------------------
(* What a summary of the spend ledger says.                                     *)

(* The steps of a group's total: a row of the group is added, any other skipped. *)
PriceOf(n) == EstimateUsd(ParsedUsage(UsageOf[n]))
TotalOne(rs, g, a, n) == IF n \in rs /\ GroupOf(UsageOf[n]) = g THEN AddUsd(a, PriceOf(n)) ELSE a
TotalUpto(rs, g, h, m) == h = [k \in 0..m |-> h[k]] /\ h[0] = 0 /\ \A k \in 1..m : h[k] = TotalOne(rs, g, h[k - 1], k)

LEMMA TotalExists ==
  ASSUME NEW rs, NEW g, NEW n \in Nat
  PROVE  \E h : TotalUpto(rs, g, h, n)
<1> DEFINE T == {m \in 0..n : \E h : TotalUpto(rs, g, h, m)}
<1>1. 0 \in T
  <2>1. TotalUpto(rs, g, [k \in 0..0 |-> 0], 0) BY DEF TotalUpto
  <2> QED BY <2>1
<1>2. ASSUME NEW m \in 1..n, m - 1 \in T PROVE m \in T
  <2>1. PICK f : TotalUpto(rs, g, f, m - 1) BY <1>2
  <2>2. PICK h : h = [k \in 0..m |-> IF k = m THEN TotalOne(rs, g, f[m - 1], m) ELSE f[k]] OBVIOUS
  <2>3. h = [k \in 0..m |-> h[k]] BY <2>2
  <2>4. h[0] = 0
    <3>1. 0 \in 0..m /\ 0 # m BY <1>2
    <3> QED BY <2>1, <2>2, <3>1 DEF TotalUpto
  <2>5. ASSUME NEW k \in 1..m PROVE h[k] = TotalOne(rs, g, h[k - 1], k)
    <3>1. k \in 0..m /\ k - 1 \in 0..m /\ k - 1 # m BY <1>2, <2>5
    <3>2. h[k - 1] = f[k - 1] BY <2>2, <3>1
    <3>3. CASE k = m
      <4>1. h[k] = TotalOne(rs, g, f[k - 1], k) BY <2>2, <3>1, <3>3
      <4> QED BY <3>2, <4>1
    <3>4. CASE k # m
      <4>1. k \in 1..(m - 1) BY <1>2, <2>5, <3>4
      <4>2. h[k] = f[k] BY <2>2, <3>1, <3>4
      <4> QED BY <2>1, <3>2, <4>1, <4>2 DEF TotalUpto
    <3> QED BY <3>3, <3>4
  <2>6. TotalUpto(rs, g, h, m) BY <2>3, <2>4, <2>5 DEF TotalUpto
  <2> QED BY <2>6
<1>3. 0..n \subseteq T
  <2> HIDE DEF T
  <2> QED BY <1>1, <1>2, Climb
<1>4. n \in 0..n OBVIOUS
<1> QED BY <1>3, <1>4

(* A group that has a total has no row without a price: from the first such row *)
(* on, the total stays lost.                                                     *)
LEMMA TotalIsPriced ==
  ASSUME NEW rs, NEW g, GroupTotal(rs, g) # Unpriced, NEW r \in 1..MaxRecords, r \in rs, GroupOf(UsageOf[r]) = g
  PROVE  PriceOf(r) # Unpriced
<1>1. PICK n \in Nat : n = MaxRecords BY LogsAssumption
<1>2. PICK h : TotalUpto(rs, g, h, n) BY TotalExists
<1> DEFINE Unrolls(f) == f = [k \in 0..n |-> IF k = 0 THEN 0
                            ELSE IF k \in rs /\ GroupOf(UsageOf[k]) = g THEN AddUsd(f[k - 1], EstimateUsd(ParsedUsage(UsageOf[k])))
                            ELSE f[k - 1]]
<1>3. PICK f : Unrolls(f)
  <2>1. \A k \in 0..n : k # 0 => k \in 1..n OBVIOUS
  <2>2. ASSUME NEW k \in 0..n
        PROVE h[k] = IF k = 0 THEN 0
                     ELSE IF k \in rs /\ GroupOf(UsageOf[k]) = g THEN AddUsd(h[k - 1], EstimateUsd(ParsedUsage(UsageOf[k])))
                     ELSE h[k - 1]
    BY <1>2, <2>1 DEF TotalUpto, TotalOne, PriceOf
  <2>3. h = [k \in 0..n |-> h[k]] BY <1>2 DEF TotalUpto
  <2>4. Unrolls(h) BY <2>2, <2>3
  <2> QED BY <2>4
<1>4. PICK c : c = CHOOSE e : Unrolls(e) OBVIOUS
<1>5. Unrolls(c) BY <1>3, <1>4
<1>6. GroupTotal(rs, g) = c[n] BY <1>1, <1>4 DEF GroupTotal
<1>7. \A k \in 1..n : c[k] = TotalOne(rs, g, c[k - 1], k)
  <2>1. \A k \in 1..n : k \in 0..n /\ k # 0 OBVIOUS
  <2> QED BY <1>5, <2>1 DEF TotalOne, PriceOf
<1> HIDE DEF Unrolls
<1>8. \A k \in 1..n : c[k - 1] = Unpriced => c[k] = Unpriced BY <1>7 DEF TotalOne, AddUsd
<1>9. SUFFICES ASSUME PriceOf(r) = Unpriced PROVE FALSE OBVIOUS
<1>10. r \in 1..n /\ c[r] = Unpriced BY <1>1, <1>7, <1>9 DEF TotalOne, AddUsd
<1> DEFINE T == {m \in 0..n : m >= r => c[m] = Unpriced}
<1>11. 0 \in T BY <1>10
<1>12. ASSUME NEW m \in 1..n, m - 1 \in T PROVE m \in T
  <2>1. CASE m = r BY <1>10, <2>1
  <2>2. CASE m < r BY <1>10, <2>2
  <2>3. CASE m > r
    <3>1. m - 1 >= r BY <1>10, <2>3
    <3>2. c[m - 1] = Unpriced BY <1>12, <3>1
    <3> QED BY <1>8, <3>2
  <2> QED BY <1>10, <2>1, <2>2, <2>3
<1>13. 0..n \subseteq T
  <2> HIDE DEF T
  <2> QED BY <1>11, <1>12, Climb
<1>14. n \in 0..n /\ n >= r BY <1>10
<1> QED BY <1>6, <1>13, <1>14

(* Every record of a file has a row of the ledger, and a file that is not there *)
(* has no lines.                                                                *)
SoundFile(c) == LineRecords(c.lines) \subseteq 1..MaxRecords /\ (~c.there => c.lines = <<>>)
(* What was read of one file is all it had, when nothing was skipped.           *)
SoundRead(r) == r.rows \subseteq 1..MaxRecords /\ (r.status \in {"read", "missing"} /\ r.skipped = 0 => r.rows = r.had)
LedgerInv ==
  /\ logged <= MaxRecords
  /\ \A t \in Threads : append[t].pc # "idle" => append[t].rec \in 1..MaxRecords
  /\ \A p \in LogPaths : SoundFile(logFile[p].cur) /\ SoundFile(logFile[p].prev)
  /\ summary.pc = "current" => \E r : summary.read = <<r>> /\ SoundRead(r)
  /\ SummaryIsHonest

LEMMA ReadIsSound ==
  ASSUME NEW f \in LogContents, SoundFile(f), NEW ok \in BOOLEAN
  PROVE  SoundRead(ReadRows(f, ok))
<1> DEFINE r == ReadRows(f, ok)
           bad == {i \in DOMAIN f.lines : ~RowOk(f.lines[i])}
<1>1. f.lines \in Seq(LogLines) /\ RecordsOf(f) = LineRecords(f.lines) BY RecordsAreLines DEF LogContents
<1>2. \A i \in DOMAIN f.lines : f.lines[i] \in LogLines BY <1>1
<1>3. \A i \in DOMAIN f.lines : f.lines[i].recs \in Seq(Nat) BY <1>2 DEF LogLines
<1>4. ASSUME NEW i \in DOMAIN f.lines, RowOk(f.lines[i])
      PROVE  DOMAIN f.lines[i].recs = {1} /\ f.lines[i].recs[1] \in Nat
  <2>1. PICK s \in Seq(Nat) : s = f.lines[i].recs BY <1>3
  <2>2. Len(s) = 1 BY <1>4, <2>1 DEF RowOk
  <2>3. DOMAIN s = 1..1 /\ s[1] \in Nat BY <2>2
  <2>4. 1..1 = {1} OBVIOUS
  <2> QED BY <2>1, <2>3, <2>4
<1> DEFINE good == {l.recs[1] : l \in {l \in ToSet(f.lines) : RowOk(l)}}
<1>5. \A x : x \in good <=> \E i \in DOMAIN f.lines : RowOk(f.lines[i]) /\ x = f.lines[i].recs[1] BY DEF ToSet
<1>6. good \subseteq LineRecords(f.lines)
  <2>1. SUFFICES ASSUME NEW x \in good PROVE x \in LineRecords(f.lines) OBVIOUS
  <2>2. PICK i \in DOMAIN f.lines : RowOk(f.lines[i]) /\ x = f.lines[i].recs[1] BY <1>5, <2>1
  <2>3. 1 \in DOMAIN f.lines[i].recs /\ x \in Nat BY <1>4, <2>2
  <2> QED BY <2>2, <2>3 DEF LineRecords
<1>7. r.had = LineRecords(f.lines) /\ r.rows = (IF ok THEN good ELSE {}) /\ r.skipped = (IF ok THEN Cardinality(bad) ELSE 0)
      /\ r.status = (IF ~f.there THEN "missing" ELSE IF ok THEN "read" ELSE "unreadable")
  BY <1>1 DEF ReadRows
<1>8. r.rows \subseteq 1..MaxRecords BY <1>6, <1>7 DEF SoundFile
<1>9. CASE ok
  <2>1. SUFFICES ASSUME r.skipped = 0 PROVE r.rows = r.had BY <1>8 DEF SoundRead
  <2>2. bad = {}
    <3>1. bad \subseteq DOMAIN f.lines /\ IsFiniteSet(DOMAIN f.lines)
      <4>1. PICK n \in Nat : n = Len(f.lines) BY <1>1
      <4>2. DOMAIN f.lines = 1..n /\ 1 \in Int /\ n \in Int BY <1>1, <4>1
      <4> QED BY <4>2, FS_Interval
    <3>2. IsFiniteSet(bad) BY <3>1, FS_Subset
    <3>3. Cardinality(bad) = 0 BY <1>7, <1>9, <2>1
    <3> HIDE DEF bad
    <3> QED BY <3>2, <3>3, FS_EmptySet
  <2>3. \A i \in DOMAIN f.lines : RowOk(f.lines[i]) BY <2>2
  <2>4. LineRecords(f.lines) \subseteq good
    <3>1. SUFFICES ASSUME NEW x \in LineRecords(f.lines) PROVE x \in good OBVIOUS
    <3>2. PICK i \in DOMAIN f.lines : \E k \in DOMAIN f.lines[i].recs : x = f.lines[i].recs[k] BY <3>1 DEF LineRecords
    <3>3. RowOk(f.lines[i]) /\ x = f.lines[i].recs[1] BY <1>4, <2>3, <3>2
    <3> HIDE DEF good
    <3> QED BY <1>5, <3>3
  <2> QED BY <1>6, <1>7, <1>9, <2>4
<1>10. CASE ~ok
  <2>1. CASE f.there BY <1>7, <1>8, <1>10, <2>1 DEF SoundRead
  <2>2. CASE ~f.there
    <3>1. f.lines = <<>> BY <2>2 DEF SoundFile
    <3>2. LineRecords(f.lines) = {} BY <3>1 DEF LineRecords
    <3> QED BY <1>7, <1>8, <1>10, <3>2 DEF SoundRead
  <2> QED BY <2>1, <2>2
<1> QED BY <1>9, <1>10

LEMMA SummaryKeepsLedger ==
  ASSUME RotationInv, LedgerInv, ReadCurrent \/ Summarize \/ Answered PROVE LedgerInv'
<1>1. UNCHANGED <<logFile, append, logged>> BY DEF ReadCurrent, Summarize, Answered, SummaryStep
<1>2. /\ logFile["spend"].cur \in LogContents /\ SoundFile(logFile["spend"].cur)
      /\ logFile["spend"].prev \in LogContents /\ SoundFile(logFile["spend"].prev)
  <2>1. "spend" \in LogPaths BY DEF LogPaths
  <2>2. logFile["spend"] \in LogPair BY <2>1 DEF RotationInv
  <2> QED BY <2>1, <2>2 DEF LedgerInv, LogPair
<1>3. SUFFICES /\ summary'.pc = "current" => \E r : summary'.read = <<r>> /\ SoundRead(r)
               /\ SummaryIsHonest'
  BY <1>1 DEF LedgerInv
<1>4. CASE ReadCurrent
  <2>1. PICK ok \in BOOLEAN : summary' = [NoSummary EXCEPT !.pc = "current", !.read = <<ReadRows(logFile["spend"].cur, ok)>>]
    BY <1>4 DEF ReadCurrent, SummaryStep
  <2>2. PICK r : r = ReadRows(logFile["spend"].cur, ok) OBVIOUS
  <2>3. SoundRead(r) BY <1>2, <2>2, ReadIsSound
  <2>4. summary'.read = <<r>> /\ summary'.complete = FALSE /\ DOMAIN summary'.usd = {} BY <2>1, <2>2 DEF NoSummary
  <2> QED BY <2>3, <2>4 DEF SummaryIsHonest
<1>5. CASE Answered
  <2>1. summary' = NoSummary BY <1>5 DEF Answered, SummaryStep
  <2>2. summary'.pc = "none" /\ summary'.complete = FALSE /\ DOMAIN summary'.usd = {} BY <2>1 DEF NoSummary
  <2> QED BY <2>2 DEF SummaryIsHonest
<1>6. CASE Summarize
  <2>1. PICK a : summary.read = <<a>> /\ SoundRead(a) BY <1>6 DEF Summarize, LedgerInv
  <2>2. PICK ok \in BOOLEAN :
          LET fs == Append(summary.read, ReadRows(logFile["spend"].prev, ok))
              rs == fs[1].rows \cup fs[2].rows
          IN summary' = [pc |-> "done", read |-> <<>>, complete |-> Complete(fs), rows |-> rs,
                         had |-> fs[1].had \cup fs[2].had, usd |-> Groups(rs)]
    BY <1>6 DEF Summarize, SummaryStep
  <2>3. PICK b : b = ReadRows(logFile["spend"].prev, ok) OBVIOUS
  <2>4. SoundRead(b) BY <1>2, <2>3, ReadIsSound
  <2>5. PICK fs : fs = Append(<<a>>, b) OBVIOUS
  <2>6. fs[1] = a /\ fs[2] = b BY <2>5
  <2>7. PICK rs : rs = a.rows \cup b.rows OBVIOUS
  <2>8. /\ summary'.pc = "done" /\ summary'.complete = Complete(fs) /\ summary'.rows = rs
        /\ summary'.had = a.had \cup b.had /\ summary'.usd = Groups(rs)
    BY <2>1, <2>2, <2>3, <2>5, <2>6, <2>7
  <2>9. rs \subseteq 1..MaxRecords BY <2>1, <2>4, <2>7 DEF SoundRead
  <2>10. Complete(fs) => rs = a.had \cup b.had
    <3>1. SUFFICES ASSUME Complete(fs) PROVE rs = a.had \cup b.had OBVIOUS
    <3>2. 1 \in 1..2 /\ 2 \in 1..2 OBVIOUS
    <3>3. a.status \in {"read", "missing"} /\ a.skipped = 0 /\ b.status \in {"read", "missing"} /\ b.skipped = 0
      BY <2>6, <3>1, <3>2 DEF Complete
    <3> QED BY <2>1, <2>4, <2>7, <3>3 DEF SoundRead
  <2>11. ASSUME NEW g \in DOMAIN Groups(rs), Groups(rs)[g] # Unpriced, NEW n \in rs, GroupOf(UsageOf[n]) = g
         PROVE  EstimateUsd(ParsedUsage(UsageOf[n])) # Unpriced
    <3>1. GroupTotal(rs, g) # Unpriced BY <2>11 DEF Groups
    <3>2. n \in 1..MaxRecords BY <2>9
    <3>3. PriceOf(n) # Unpriced BY <2>11, <3>1, <3>2, TotalIsPriced
    <3> QED BY <3>3 DEF PriceOf
  <2> QED BY <2>8, <2>10, <2>11 DEF SummaryIsHonest
<1> QED BY <1>4, <1>5, <1>6

(* A line that is written adds its record and nothing else.                      *)
LEMMA JoinedAdds ==
  ASSUME NEW lines \in Seq(LogLines), NEW rec \in Nat
  PROVE  LineRecords(Joined(lines, rec)) \subseteq LineRecords(lines) \cup {rec}
<1> DEFINE L == Joined(lines, rec)
<1>1. PICK n \in Nat : n = Len(lines) OBVIOUS
<1>2. DOMAIN lines = 1..n BY <1>1
<1>3. ASSUME NEW i \in DOMAIN L, NEW k \in DOMAIN L[i].recs
      PROVE  L[i].recs[k] = rec \/ (i \in DOMAIN lines /\ k \in DOMAIN lines[i].recs /\ L[i].recs[k] = lines[i].recs[k])
  <2>1. CASE lines # <<>> /\ ~Last(lines).closed
    <3>1. n \in 1..n BY <1>1, <2>1
    <3>2. L = [lines EXCEPT ![n].recs = Append(@, rec)] BY <1>1, <2>1 DEF Joined
    <3>3. DOMAIN L = DOMAIN lines /\ \A j \in 1..n : j # n => L[j] = lines[j] BY <1>2, <3>2
    <3>4. L[n].recs = Append(lines[n].recs, rec) /\ lines[n].recs \in Seq(Nat)
      <4>1. lines[n] \in LogLines BY <1>2, <3>1
      <4> QED BY <1>2, <3>1, <3>2, <4>1 DEF LogLines
    <3>5. CASE i = n
      <4>1. PICK s \in Seq(Nat) : s = lines[n].recs BY <3>4
      <4>2. k \in DOMAIN Append(s, rec) BY <1>3, <3>4, <3>5, <4>1
      <4>3. Append(s, rec)[k] = rec \/ (k \in DOMAIN s /\ Append(s, rec)[k] = s[k])
        <5>1. k = Len(s) + 1 \/ k \in 1..Len(s) BY ONLY <4>2, s \in Seq(Nat)
        <5> QED BY ONLY <5>1, <4>2, s \in Seq(Nat)
      <4> QED BY <3>3, <3>4, <3>5, <4>1, <4>3
    <3>6. CASE i # n BY <1>2, <1>3, <3>3, <3>6
    <3> QED BY <3>5, <3>6
  <2>2. CASE ~(lines # <<>> /\ ~Last(lines).closed)
    <3>1. PICK l : l = [recs |-> <<rec>>, closed |-> FALSE, cut |-> FALSE] OBVIOUS
    <3>2. l.recs = <<rec>> /\ l \in LogLines BY <3>1 DEF LogLines
    <3>3. L = Append(lines, l) BY <2>2, <3>1 DEF Joined
    <3>4. DOMAIN L = 1..(n + 1) /\ L[n + 1] = l /\ \A j \in 1..n : L[j] = lines[j] BY <1>1, <3>2, <3>3
    <3>5. CASE i = n + 1 BY <1>3, <3>2, <3>4, <3>5
    <3>6. CASE i # n + 1
      <4>1. i \in 1..n BY <3>4, <3>6
      <4> QED BY <1>2, <1>3, <3>4, <4>1
    <3> QED BY <3>5, <3>6
  <2> QED BY <2>1, <2>2
<1> QED BY <1>3 DEF LineRecords

(* A step that leaves the summary alone.                                         *)
LEMMA LedgerKept ==
  ASSUME LedgerInv, summary' = summary, logged' <= MaxRecords,
         \A t \in Threads : append'[t].pc # "idle" => append'[t].rec \in 1..MaxRecords,
         \A p \in LogPaths : SoundFile(logFile'[p].cur) /\ SoundFile(logFile'[p].prev)
  PROVE  LedgerInv'
BY DEF LedgerInv, SummaryIsHonest

LEMMA QueueKeepsLedger ==
  ASSUME BarrierInv, LedgerInv, Log \/ TakeJob \/ Flush \/ SendBarrier \/ FlushLate \/ StartChild \/ ChildEnds
  PROVE  LedgerInv'
<1>1. logFile' = logFile /\ summary' = summary BY DEF Log, TakeJob, Flush, SendBarrier, FlushLate, StartChild, ChildEnds
<1>2. logged \in Nat /\ MaxRecords \in Nat /\ logged <= MaxRecords BY LogsAssumption DEF BarrierInv, LedgerInv
<1>3. logged' <= MaxRecords
  BY <1>2 DEF Log, TakeJob, Flush, SendBarrier, FlushLate, StartChild, ChildEnds
<1>4. ASSUME NEW t \in Threads, append'[t].pc # "idle" PROVE append'[t].rec \in 1..MaxRecords
  <2>1. CASE append' = append BY <1>4, <2>1 DEF LedgerInv
  <2>2. CASE ChildEnds
    <3>1. append' = [append EXCEPT !["child"] = Rest] BY <2>2 DEF ChildEnds
    <3>2. append'[t] = append[t] BY <1>4, <3>1 DEF BarrierInv, Rest
    <3> QED BY <1>4, <3>2 DEF LedgerInv
  <2>3. CASE TakeJob /\ append' # append
    <3>1. /\ queue # <<>> /\ Head(queue) > 0
          /\ append' = [append EXCEPT !["writer"] = [pc |-> "try", path |-> "audit", rec |-> Head(queue)]]
      BY <2>3 DEF TakeJob
    <3>2. queue \in Seq(Int) /\ 1 \in DOMAIN queue /\ Head(queue) = queue[1] BY <3>1 DEF BarrierInv
    <3>3. PICK h \in Int : h = Head(queue) /\ h > 0 /\ h <= logged BY <3>1, <3>2 DEF BarrierInv
    <3>4. append'[t] = append[t] \/ append'[t].rec = h BY <3>1, <3>3 DEF BarrierInv
    <3> QED BY <1>2, <1>4, <3>3, <3>4 DEF LedgerInv
  <2> QED BY <2>1, <2>2, <2>3 DEF Log, Flush, SendBarrier, FlushLate, StartChild
<1> QED BY <1>1, <1>3, <1>4, LedgerKept DEF LedgerInv

LEMMA SubmitKeepsLedger ==
  ASSUME RotationInv, LedgerInv, NEW t \in Threads, NEW p \in LogPaths, Submit(t, p) PROVE LedgerInv'
<1>1. logFile' = logFile /\ summary' = summary BY DEF Submit
<1>2. logged \in Nat /\ MaxRecords \in Nat /\ logged < MaxRecords BY LogsAssumption DEF RotationInv, Submit
<1>3. logged' = logged + 1 /\ append' = [append EXCEPT ![t] = [pc |-> "try", path |-> p, rec |-> logged + 1]] BY DEF Submit
<1>4. ASSUME NEW u \in Threads, append'[u].pc # "idle" PROVE append'[u].rec \in 1..MaxRecords
  <2>1. append'[u] = append[u] \/ append'[u].rec = logged + 1 BY <1>3 DEF RotationInv
  <2> QED BY <1>2, <1>4, <2>1 DEF LedgerInv
<1> QED BY <1>1, <1>2, <1>3, <1>4, LedgerKept DEF LedgerInv

(* Marking the last line leaves a sound file sound.                              *)
LEMMA RowPutSound ==
  ASSUME RotationInv, LedgerInv, NEW t \in Threads, NEW cut \in BOOLEAN, PutRow(t, cut)
  PROVE  \A p \in LogPaths : SoundFile(logFile'[p].cur) /\ SoundFile(logFile'[p].prev)
<1> DEFINE p == append[t].path
<1>1. append[t].pc = "write" /\ append[t].pc \in Appending BY DEF PutRow, Appending
<1>2. p \in LogPaths /\ append[t].rec \in Nat /\ logFile[p] \in LogPair /\ logFile[p].cur \in LogContents
  BY <1>1, HolderFacts
<1>3. append[t].rec \in 1..MaxRecords BY <1>1 DEF LedgerInv
<1>4. PICK lines \in Seq(LogLines) : lines = Joined(logFile[p].cur.lines, append[t].rec)
  BY <1>2, JoinedHolds DEF LogContents
<1>5. LineRecords(lines) \subseteq 1..MaxRecords
  <2>1. LineRecords(lines) \subseteq LineRecords(logFile[p].cur.lines) \cup {append[t].rec}
    BY <1>2, <1>4, JoinedAdds DEF LogContents
  <2> QED BY <1>2, <1>3, <2>1 DEF LedgerInv, SoundFile
<1>6. PICK marked : marked = IF cut THEN [lines EXCEPT ![Len(lines)].cut = TRUE] ELSE lines OBVIOUS
<1>7. LineRecords(marked) = LineRecords(lines) BY <1>6, MarkedHolds
<1>8. PICK c : c = [there |-> TRUE, bytes |-> logFile[p].cur.bytes + 1, lines |-> marked] OBVIOUS
<1>9. SoundFile(c) BY <1>5, <1>7, <1>8 DEF SoundFile
<1>10. logFile' = [logFile EXCEPT ![p].cur = c] BY <1>4, <1>6, <1>8 DEF PutRow
<1>11. logFile'[p].cur = c /\ logFile'[p].prev = logFile[p].prev /\ \A q \in LogPaths : q # p => logFile'[q] = logFile[q]
  <2>1. logFile \in [LogPaths -> LogPair] BY DEF RotationInv
  <2> QED BY <1>2, <1>10, <2>1 DEF LogPair
<1> QED BY <1>2, <1>9, <1>11 DEF LedgerInv

LEMMA FilesKeepLedger ==
  ASSUME RotationInv, LedgerInv, NEW t \in Threads, FileSteps(t) PROVE LedgerInv'
<1> DEFINE p == append[t].path
<1>1. QueueSide
  BY DEF FileSteps, TryLease, GiveUp, OpenLog, RemovePrevious, RenameCurrent, WriteLine, WriteNewline, FileFault
<1>2. Settle(t) \/ (append[t].pc # "idle" /\ \E pc \in Appending : To(t, pc))
  <2>1. CASE WriteLine(t)
    <3>1. append[t].pc = "write" BY <2>1 DEF WriteLine, PutRow
    <3> QED BY <2>1, <3>1 DEF WriteLine, Appending
  <2>2. CASE TryLease(t) \/ OpenLog(t) \/ RemovePrevious(t) \/ RenameCurrent(t)
    <3>1. append[t].pc # "idle" BY <2>2 DEF TryLease, OpenLog, RemovePrevious, RenameCurrent
    <3>2. \E pc \in Appending : To(t, pc) BY <2>2 DEF TryLease, OpenLog, RemovePrevious, RenameCurrent, Appending
    <3> QED BY <3>1, <3>2
  <2> QED BY <2>1, <2>2 DEF FileSteps, GiveUp, WriteNewline, FileFault
<1>3. append \in [Threads -> LogAppends] /\ logFile \in [LogPaths -> LogPair] BY DEF RotationInv
<1>4. ASSUME NEW u \in Threads, append'[u].pc # "idle" PROVE append'[u].rec \in 1..MaxRecords
  <2>1. CASE Settle(t)
    <3>1. append'[u] = append[u] BY <1>3, <1>4, <2>1 DEF Settle, Rest
    <3> QED BY <1>4, <3>1 DEF LedgerInv
  <2>2. CASE append[t].pc # "idle" /\ \E pc \in Appending : To(t, pc)
    <3>1. PICK pc \in Appending : append' = [append EXCEPT ![t].pc = pc] BY <2>2 DEF To
    <3>2. append'[u].rec = append[u].rec /\ append[u].pc # "idle" BY <1>3, <1>4, <2>2, <3>1 DEF LogAppends
    <3> QED BY <3>2 DEF LedgerInv
  <2> QED BY <1>2, <2>1, <2>2
<1>5. \A q \in LogPaths : SoundFile(logFile'[q].cur) /\ SoundFile(logFile'[q].prev)
  <2>1. CASE logFile' = logFile BY <2>1 DEF LedgerInv
  <2>2. CASE \E cut \in BOOLEAN : PutRow(t, cut) BY <2>2, RowPutSound
  <2>3. CASE OpenLog(t) \/ RemovePrevious(t) \/ RenameCurrent(t) \/ WriteNewline(t)
    <3>1. append[t].pc \in Appending BY <2>3 DEF OpenLog, RemovePrevious, RenameCurrent, WriteNewline, Appending
    <3>2. p \in LogPaths /\ logFile[p] \in LogPair /\ logFile[p].cur \in LogContents BY <3>1, HolderFacts
    <3>3. SoundFile(logFile[p].cur) /\ SoundFile(logFile[p].prev) BY <3>2 DEF LedgerInv
    <3>4. SoundFile(Gone) BY DEF SoundFile, Gone, LineRecords
    <3>5. PICK f : logFile' = [logFile EXCEPT ![p] = f] /\ SoundFile(f.cur) /\ SoundFile(f.prev)
      <4>1. CASE OpenLog(t)
        <5>1. PICK c : c = Opened(logFile[p].cur) OBVIOUS
        <5>2. SoundFile(c)
          <6>1. c.lines = logFile[p].cur.lines /\ c.there = TRUE BY <3>2, <5>1 DEF Opened, LogContents
          <6> QED BY <3>3, <6>1 DEF SoundFile
        <5>3. logFile' = [logFile EXCEPT ![p] = [logFile[p] EXCEPT !.cur = c]] BY <4>1, <5>1 DEF OpenLog
        <5>4. [logFile[p] EXCEPT !.cur = c].cur = c /\ [logFile[p] EXCEPT !.cur = c].prev = logFile[p].prev
          BY <3>2 DEF LogPair
        <5> QED BY <3>3, <5>2, <5>3, <5>4
      <4>2. CASE RemovePrevious(t)
        <5>1. logFile' = [logFile EXCEPT ![p] = [logFile[p] EXCEPT !.prev = Gone]] BY <4>2 DEF RemovePrevious
        <5>2. [logFile[p] EXCEPT !.prev = Gone].cur = logFile[p].cur /\ [logFile[p] EXCEPT !.prev = Gone].prev = Gone
          BY <3>2 DEF LogPair
        <5> QED BY <3>3, <3>4, <5>1, <5>2
      <4>3. CASE RenameCurrent(t)
        <5>1. logFile' = [logFile EXCEPT ![p] = [cur |-> Gone, prev |-> logFile[p].cur]] BY <4>3 DEF RenameCurrent
        <5>2. PICK f : f = [cur |-> Gone, prev |-> logFile[p].cur] OBVIOUS
        <5>3. f.cur = Gone /\ f.prev = logFile[p].cur BY <5>2
        <5> QED BY <3>3, <3>4, <5>1, <5>2, <5>3
      <4>4. CASE WriteNewline(t)
        <5>1. PICK lines \in Seq(LogLines) : lines = logFile[p].cur.lines BY <3>2 DEF LogContents
        <5>2. PICK m : m = [lines EXCEPT ![Len(lines)].closed = TRUE] OBVIOUS
        <5>3. m \in Seq(LogLines) /\ LineRecords(m) = LineRecords(lines) BY <5>2, MarkedHolds
        <5>4. lines = <<>> => m = <<>> BY <5>2, <5>3
        <5>5. PICK c : c = [logFile[p].cur EXCEPT !.lines = m] OBVIOUS
        <5>6. c.lines = m /\ c.there = logFile[p].cur.there BY <3>2, <5>5 DEF LogContents
        <5>7. SoundFile(c) BY <3>3, <5>1, <5>3, <5>4, <5>6 DEF SoundFile
        <5>8. logFile' = [logFile EXCEPT ![p] = [logFile[p] EXCEPT !.cur = c]] BY <4>4, <5>1, <5>2, <5>5 DEF WriteNewline
        <5>9. [logFile[p] EXCEPT !.cur = c].cur = c /\ [logFile[p] EXCEPT !.cur = c].prev = logFile[p].prev
          BY <3>2 DEF LogPair
        <5> QED BY <3>3, <5>7, <5>8, <5>9
      <4> QED BY <2>3, <4>1, <4>2, <4>3, <4>4
    <3>6. logFile'[p] = f /\ \A q \in LogPaths : q # p => logFile'[q] = logFile[q] BY <1>3, <3>2, <3>5
    <3> QED BY <3>5, <3>6 DEF LedgerInv
  <2>4. QED BY <2>1, <2>2, <2>3 DEF FileSteps, TryLease, GiveUp, WriteLine, FileFault
<1>6. logged' <= MaxRecords BY <1>1 DEF QueueSide, LedgerInv
<1>7. summary' = summary BY <1>1 DEF QueueSide
<1> QED BY <1>4, <1>5, <1>6, <1>7, LedgerKept

LEMMA LedgerStep == BarrierInv /\ RotationInv /\ LedgerInv /\ [LogsNext]_logsVars => LedgerInv'
<1> SUFFICES ASSUME BarrierInv, RotationInv, LedgerInv, [LogsNext]_logsVars PROVE LedgerInv'
  OBVIOUS
<1>1. CASE Log \/ TakeJob \/ Flush \/ SendBarrier \/ FlushLate \/ StartChild \/ ChildEnds BY <1>1, QueueKeepsLedger
<1>2. CASE RecordSpend \/ ChildLogs BY <1>2, SubmitKeepsLedger DEF RecordSpend, ChildLogs, LogPaths, Threads
<1>3. CASE \E t \in Threads : FileSteps(t) BY <1>3, FilesKeepLedger
<1>4. CASE ReadCurrent \/ Summarize \/ Answered BY <1>4, SummaryKeepsLedger
<1>5. CASE UNCHANGED logsVars BY <1>5 DEF logsVars, LedgerInv, SummaryIsHonest
<1> QED BY <1>1, <1>2, <1>3, <1>4, <1>5 DEF LogsNext, FileSteps

LEMMA LedgerStarts == LogsInit => LedgerInv
<1> SUFFICES ASSUME LogsInit PROVE LedgerInv OBVIOUS
<1>1. SoundFile(Gone) BY DEF SoundFile, Gone, LineRecords
<1>2. summary.pc = "none" /\ summary.complete = FALSE /\ DOMAIN summary.usd = {} BY DEF LogsInit, NoSummary
<1>3. \A t \in Threads : append[t].pc = "idle" BY DEF LogsInit, Rest
<1>4. \A p \in LogPaths : logFile[p].cur = Gone /\ logFile[p].prev = Gone BY DEF LogsInit
<1>5. logged <= MaxRecords BY LogsAssumption DEF LogsInit
<1> QED BY <1>1, <1>2, <1>3, <1>4, <1>5 DEF LedgerInv, SummaryIsHonest

-----------------------------------------------------------------------------
(* The request gate.  Budgets are positive, and a client's hits are finitely    *)
(* many and have a time.                                                        *)
LiveLimits == [revision : Nat, max : Nat \ {0}, window : Nat \ {0}]
GateRequests == [pc : {"free", "allow", "retry", "account"}, client : GateClients \cup {"none"}, live : LiveLimits]
HitSets == {H \in SUBSET [at : Nat, nth : Nat] : IsFiniteSet(H)}
GateInv ==
  /\ gateClock \in Nat /\ hits \in [GateClients -> HitSets] /\ limits \in LiveLimits
  /\ requests \in [GateSlots -> GateRequests]
  /\ \A s \in GateSlots : requests[s].pc \in {"allow", "retry"} => requests[s].client \in GateClients
  /\ RetrySuffices

(* When the window is full, some hit has fewer than max behind it and, counting *)
(* those of its own instant, at least max: the newest instant with fewer than    *)
(* max behind it, going back, is one.                                            *)
LEMMA ThresholdIs ==
  ASSUME NEW H \in HitSets, NEW max \in Nat \ {0}, max <= Cardinality(H)
  PROVE  Threshold(H, max) \in Nat /\ IsThreshold(H, max, Threshold(H, max))
<1> DEFINE times == {h.at : h \in H}
           later(t) == {h \in H : h.at > t}
           enough == {t \in times : Cardinality(later(t)) < max}
<1>1. H \subseteq [at : Nat, nth : Nat] /\ IsFiniteSet(H) BY DEF HitSets
<1>2. times \subseteq Nat BY <1>1
<1>3. \A S \in SUBSET H : IsFiniteSet(S) /\ Cardinality(S) \in Nat /\ Cardinality(S) <= Cardinality(H)
  BY <1>1, FS_Subset, FS_CardinalityType
<1>4. \E t \in times : later(t) = {}
  <2> DEFINE sizes == {Cardinality(later(t)) : t \in times}
  <2>1. \A t \in times : later(t) \in SUBSET H OBVIOUS
  <2>2. sizes \subseteq Nat BY <1>3, <2>1
  <2>3. sizes # {}
    <3>1. H # {} BY FS_EmptySet
    <3> QED BY <3>1
  <2>4. PICK n \in sizes : \A k \in sizes : n <= k
    <3> HIDE DEF sizes
    <3> QED BY <2>2, <2>3, SmallestIn
  <2>5. PICK t \in times : n = Cardinality(later(t)) BY <2>4
  <2>6. SUFFICES ASSUME NEW g \in later(t) PROVE FALSE BY <2>5
  <2>7. g.at \in times /\ g.at \in Nat /\ t \in Nat /\ g.at > t BY <1>1, <1>2
  <2>8. later(g.at) \subseteq later(t) /\ later(g.at) # later(t) BY <1>1, <2>7
  <2>9. IsFiniteSet(later(t)) BY <1>3, <2>5, <2>1
  <2>10. Cardinality(later(g.at)) < Cardinality(later(t))
    <3> HIDE DEF later
    <3>1. Cardinality(later(t)) \in Nat /\ Cardinality(later(g.at)) \in Nat BY <2>8, <2>9, FS_Subset, FS_CardinalityType
    <3>2. later(g.at) \in SUBSET later(t) BY <2>8
    <3>3. /\ Cardinality(later(g.at)) <= Cardinality(later(t))
          /\ Cardinality(later(g.at)) = Cardinality(later(t)) => later(g.at) = later(t)
      BY <2>9, <3>2, FS_Subset, Zenon
    <3> QED BY <2>8, <3>1, <3>3
  <2>11. Cardinality(later(g.at)) \in sizes BY <2>7
  <2>12. Cardinality(later(g.at)) \in Nat /\ n \in Nat /\ n <= Cardinality(later(g.at)) BY <2>2, <2>4, <2>11
  <2> QED BY <2>5, <2>10, <2>12
<1>5. PICK m \in enough : \A t \in enough : m <= t
  <2>1. enough # {} BY <1>4, FS_EmptySet
  <2>2. enough \subseteq Nat BY <1>2
  <2> HIDE DEF enough
  <2> QED BY <2>1, <2>2, SmallestIn
<1> DEFINE since == {h \in H : h.at >= m}
<1>6. m \in Nat /\ m \in times /\ Cardinality(later(m)) < max BY <1>2, <1>5
<1>7. max <= Cardinality(since)
  <2>1. since \in SUBSET H /\ Cardinality(since) \in Nat BY <1>3
  <2>2. SUFFICES ASSUME Cardinality(since) < max PROVE FALSE BY <2>1
  <2> DEFINE gaps == {m - u : u \in {t \in times : t < m}}
  <2>3. gaps \subseteq Nat
    <3>1. ASSUME NEW u \in times, u < m PROVE m - u \in Nat
      <4>1. u \in Nat BY <1>2, <3>1
      <4> QED BY <1>6, <3>1, <4>1
    <3> QED BY <3>1
  <2>4. gaps # {}
    <3>1. since # H
      <4>1. Cardinality(H) \in Nat BY <1>1, FS_CardinalityType
      <4> HIDE DEF since
      <4> QED BY <2>1, <2>2, <4>1
    <3>2. PICK h \in H : ~(h.at >= m) BY <3>1
    <3>3. h.at \in times /\ h.at < m BY <1>1, <1>6, <3>2
    <3> QED BY <3>3
  <2>5. PICK d \in gaps : \A x \in gaps : d <= x
    <3> HIDE DEF gaps
    <3> QED BY <2>3, <2>4, SmallestIn
  <2>6. PICK u \in times : u < m /\ d = m - u BY <2>5
  <2>7. u \in Nat BY <1>2
  <2>8. later(u) \subseteq since
    <3>1. SUFFICES ASSUME NEW h \in H, h.at > u, ~(h.at >= m) PROVE FALSE OBVIOUS
    <3>2. h.at \in times /\ h.at \in Nat /\ h.at < m BY <1>1, <1>6, <3>1
    <3>3. m - h.at \in gaps BY <3>2
    <3>4. d <= m - h.at BY <2>5, <3>3
    <3> QED BY <1>6, <2>6, <2>7, <3>1, <3>2, <3>4
  <2>9. Cardinality(later(u)) \in Nat /\ Cardinality(later(u)) <= Cardinality(since)
    <3>1. IsFiniteSet(since) /\ later(u) \in SUBSET H BY <1>3
    <3>2. Cardinality(later(u)) \in Nat BY <1>3, <3>1
    <3> HIDE DEF later, since
    <3> QED BY <2>8, <3>1, <3>2, FS_Subset
  <2>10. Cardinality(later(u)) < max BY <2>1, <2>2, <2>9
  <2>11. u \in enough BY <2>10
  <2>12. m <= u BY <1>5, <2>11
  <2> QED BY <1>6, <2>6, <2>7, <2>12
<1>8. IsThreshold(H, max, m) BY <1>6, <1>7 DEF IsThreshold
<1>9. Threshold(H, max) \in times /\ IsThreshold(H, max, Threshold(H, max))
  BY <1>6, <1>8, Zenon DEF Threshold
<1> QED BY <1>2, <1>9

(* A client that waits as it was told has room then.                             *)
LEMMA WaitSuffices ==
  ASSUME NEW H \in HitSets, NEW now \in Nat, NEW lim \in LiveLimits, NEW w \in Nat, w >= 1, w >= RetryAfter(H, now, lim)
  PROVE  Cardinality(Within(H, now + w, lim.window)) < lim.max
<1> DEFINE kept == Within(H, now, lim.window)
           left == Within(H, now + w, lim.window)
<1>1. H \subseteq [at : Nat, nth : Nat] /\ IsFiniteSet(H) BY DEF HitSets
<1>2. lim.window \in Nat /\ lim.max \in Nat \ {0} BY DEF LiveLimits
<1>3. kept \in HitSets /\ IsFiniteSet(kept) /\ Cardinality(kept) \in Nat
  <2>1. kept \subseteq H BY DEF Within
  <2> QED BY <1>1, <2>1, FS_Subset, FS_CardinalityType DEF HitSets
<1>4. left \subseteq kept BY <1>1, <1>2 DEF Within
<1>5. CASE Cardinality(kept) < lim.max
  <2>1. Cardinality(left) <= Cardinality(kept) /\ Cardinality(left) \in Nat
    <3> HIDE DEF kept, left
    <3> QED BY <1>3, <1>4, FS_Subset, FS_CardinalityType
  <2> QED BY <1>2, <1>3, <1>5, <2>1
<1>6. CASE ~(Cardinality(kept) < lim.max)
  <2>1. PICK t \in Nat : t = Threshold(kept, lim.max) /\ IsThreshold(kept, lim.max, t)
    BY <1>2, <1>3, <1>6, ThresholdIs
  <2> DEFINE behind == {h \in kept : h.at > t}
  <2>2. IsFiniteSet(behind) /\ Cardinality(behind) \in Nat /\ Cardinality(behind) < lim.max
    <3>1. behind \subseteq kept OBVIOUS
    <3> QED BY <1>3, <2>1, <3>1, FS_Subset, FS_CardinalityType DEF IsThreshold
  <2>3. w >= lim.window - (now - t) BY <1>2, <1>6, <2>1 DEF RetryAfter
  <2>4. left \subseteq behind BY <1>1, <1>2, <1>4, <2>3 DEF Within
  <2>5. Cardinality(left) <= Cardinality(behind) /\ Cardinality(left) \in Nat
    <3> HIDE DEF behind, left
    <3> QED BY <2>2, <2>4, FS_Subset, FS_CardinalityType
  <2> QED BY <1>2, <2>2, <2>5
<1> QED BY <1>5, <1>6

LEMMA LimitsLoaded ==
  ASSUME NEW cfg, LoadableLimits(cfg), NEW revision \in Nat
  PROVE  LoadedLimits(cfg, revision) \in LiveLimits
<1>1. ValueOr(cfg.max, ReqDefault) \in ReqRange /\ ValueOr(cfg.window, WindowDefault) \in WindowRange
  BY GateAssumption DEF LoadableLimits, InRange, ValueOr
<1> QED BY <1>1, GateAssumption DEF LoadedLimits, LiveLimits

LEMMA GateStarts == GateInit => GateInv
<1> SUFFICES ASSUME GateInit PROVE GateInv OBVIOUS
<1>1. LoadableLimits(configFile) BY DEF GateInit, LoadableLimits, InRange
<1>2. limits \in LiveLimits BY <1>1, LimitsLoaded DEF GateInit
<1>3. {} \in HitSets BY FS_EmptySet DEF HitSets
<1>4. FreeRequest \in GateRequests /\ FreeRequest.pc = "free" BY DEF FreeRequest, GateRequests, LiveLimits
<1>5. RetrySuffices BY DEF GateInit, RetrySuffices, NoGateAnswer
<1> QED BY <1>2, <1>3, <1>4, <1>5 DEF GateInit, GateInv

(* The steps of the operator and of the clock.                                   *)
LEMMA OperatorStep ==
  ASSUME GateInv, OperatorEdits \/ Reload \/ GateRestart \/ Tick \/ ClockSetBack
  PROVE  GateInv'
<1>1. gateAnswer'.code # "RATE_LIMIT"
  BY DEF OperatorEdits, Reload, GateRestart, Tick, ClockSetBack, NoGateAnswer, Answer
<1>2. gateClock' \in Nat BY DEF GateInv, OperatorEdits, Reload, GateRestart, Tick, ClockSetBack
<1>3. limits' \in LiveLimits
  <2>1. CASE Reload
    <3>1. limits.revision \in Nat BY DEF GateInv, LiveLimits
    <3>2. CASE Candidate
      <4>1. LoadedLimits(configFile, limits.revision) \in LiveLimits BY <3>1, <3>2, LimitsLoaded DEF Candidate
      <4>2. Published(LoadedLimits(configFile, limits.revision)) \in LiveLimits
        BY <3>1, <4>1 DEF Published, LiveLimits, GateInv
      <4> QED BY <2>1, <3>2, <4>2 DEF Reload
    <3> QED BY <2>1, <3>2 DEF Reload, GateInv
  <2>2. CASE GateRestart BY <2>2, LimitsLoaded DEF GateRestart
  <2> QED BY <2>1, <2>2 DEF GateInv, OperatorEdits, Tick, ClockSetBack
<1>4. CASE GateRestart
  <2>1. {} \in HitSets BY FS_EmptySet DEF HitSets
  <2>2. FreeRequest \in GateRequests /\ FreeRequest.pc = "free" BY DEF FreeRequest, GateRequests, LiveLimits
  <2>3. hits' \in [GateClients -> HitSets] BY <1>4, <2>1 DEF GateRestart
  <2>4. /\ requests' \in [GateSlots -> GateRequests]
        /\ \A s \in GateSlots : requests'[s].pc \in {"allow", "retry"} => requests'[s].client \in GateClients
    BY <1>4, <2>2 DEF GateRestart
  <2> QED BY <1>1, <1>2, <1>3, <2>3, <2>4 DEF GateInv, RetrySuffices
<1>5. CASE ~GateRestart
  <2>1. UNCHANGED <<hits, requests>> BY <1>5 DEF OperatorEdits, Reload, Tick, ClockSetBack
  <2> QED BY <1>1, <1>2, <1>3, <2>1 DEF GateInv, RetrySuffices
<1> QED BY <1>4, <1>5

(* What the limiter keeps of a client's hits, and the hit it adds.               *)
LEMMA HitsKept ==
  ASSUME NEW H \in HitSets, NEW now, NEW window
  PROVE  Within(H, now, window) \in HitSets
<1>1. Within(H, now, window) \subseteq H BY DEF Within
<1> QED BY <1>1, FS_Subset DEF HitSets
LEMMA HitPushed ==
  ASSUME NEW H \in HitSets, gateClock \in Nat
  PROVE  Pushed(H) \in HitSets
<1> DEFINE same == {h \in H : h.at = gateClock}
<1>1. H \subseteq [at : Nat, nth : Nat] /\ IsFiniteSet(H) BY DEF HitSets
<1>2. Cardinality(same) \in Nat
  <2>1. same \subseteq H OBVIOUS
  <2> QED BY <1>1, <2>1, FS_Subset, FS_CardinalityType
<1>3. PICK n \in Nat : n = Cardinality(same) + 1
  <2> HIDE DEF same
  <2> QED BY <1>2
<1>4. Pushed(H) = H \cup {[at |-> gateClock, nth |-> n]} BY <1>3 DEF Pushed
<1>5. IsFiniteSet(Pushed(H)) 
  <2>1. PICK h : h = [at |-> gateClock, nth |-> n] OBVIOUS
  <2>2. IsFiniteSet(H \cup {h}) BY <1>1, FS_AddElement, Zenon
  <2> QED BY <1>4, <2>1, <2>2
<1> QED BY <1>1, <1>4, <1>5 DEF HitSets

LEMMA AllowStep == ASSUME GateInv, NEW s \in GateSlots, Allow(s) PROVE GateInv'
<1> DEFINE swept == AfterSweep(requests[s].live.window)
           c == requests[s].client
           kept == Within(swept[c], gateClock, requests[s].live.window)
<1>1. c \in GateClients BY DEF Allow, GateInv
<1>2. swept \in [GateClients -> HitSets]
  <2>1. {} \in HitSets BY FS_EmptySet DEF HitSets
  <2> QED BY <2>1 DEF AfterSweep, GateInv
<1>3. kept \in HitSets
  <2> HIDE DEF swept, c
  <2>1. swept[c] \in HitSets BY <1>1, <1>2
  <2> QED BY <2>1, HitsKept
<1>4. Pushed(kept) \in HitSets
  <2> HIDE DEF kept
  <2> QED BY <1>3, HitPushed DEF GateInv
<1>5. hits' \in [GateClients -> HitSets]
  <2>1. PICK H \in HitSets : hits' = [swept EXCEPT ![c] = H]
    <3>1. hits' = [swept EXCEPT ![c] = IF Admits(kept, requests[s].live) THEN Pushed(kept) ELSE kept] BY DEF Allow
    <3> HIDE DEF swept, kept, c
    <3> QED BY <1>3, <1>4, <3>1
  <2> QED BY <1>1, <1>2, <2>1
<1>6. /\ requests' \in [GateSlots -> GateRequests]
      /\ \A r \in GateSlots : requests'[r].pc \in {"allow", "retry"} => requests'[r].client \in GateClients
  <2>1. PICK pc \in {"account", "retry"} : requests' = [requests EXCEPT ![s].pc = pc] BY DEF Allow
  <2> QED BY <1>1, <2>1 DEF GateInv, GateRequests
<1>7. gateAnswer'.code # "RATE_LIMIT" BY DEF Allow, NoGateAnswer
<1> QED BY <1>5, <1>6, <1>7 DEF Allow, GateInv, RetrySuffices

LEMMA RequestStep == ASSUME GateInv, NEW s \in GateSlots, Arrive(s) \/ AccountGate(s) PROVE GateInv'
<1>1. FreeRequest \in GateRequests /\ FreeRequest.pc = "free" BY DEF FreeRequest, GateRequests, LiveLimits
<1>2. /\ requests' \in [GateSlots -> GateRequests]
      /\ \A r \in GateSlots : requests'[r].pc \in {"allow", "retry"} => requests'[r].client \in GateClients
  <2>1. CASE AccountGate(s) BY <1>1, <2>1 DEF AccountGate, GateInv
  <2>2. CASE Arrive(s)
    <3>1. CASE \E c \in Reaching : requests' = [requests EXCEPT ![s] = [pc |-> "allow", client |-> c, live |-> limits]]
      <4>1. PICK c \in GateClients : requests' = [requests EXCEPT ![s] = [pc |-> "allow", client |-> c, live |-> limits]]
        BY <3>1 DEF Reaching
      <4>2. [pc |-> "allow", client |-> c, live |-> limits] \in GateRequests BY DEF GateInv, GateRequests
      <4> QED BY <4>1, <4>2 DEF GateInv
    <3> QED BY <2>2, <3>1 DEF Arrive, GateInv
  <2> QED BY <2>1, <2>2
<1>3. gateAnswer'.code # "RATE_LIMIT" BY DEF Arrive, AccountGate, NoGateAnswer, Answer
<1> QED BY <1>2, <1>3 DEF Arrive, AccountGate, GateInv, RetrySuffices

LEMMA RetryStep == ASSUME GateInv, NEW s \in GateSlots, Retry(s) PROVE GateInv'
<1> DEFINE r == requests[s]
           w == RetryAfter(hits[r.client], gateClock, r.live)
<1>1. r.client \in GateClients /\ r.live \in LiveLimits /\ hits[r.client] \in HitSets BY DEF Retry, GateInv, GateRequests
<1>2. FreeRequest \in GateRequests /\ FreeRequest.pc = "free" BY DEF FreeRequest, GateRequests, LiveLimits
<1>3. /\ requests' \in [GateSlots -> GateRequests]
      /\ \A x \in GateSlots : requests'[x].pc \in {"allow", "retry"} => requests'[x].client \in GateClients
  BY <1>2 DEF Retry, GateInv
<1>4. w \in Nat
  <2>1. PICK H \in HitSets, lim \in LiveLimits : H = hits[r.client] /\ lim = r.live BY <1>1
  <2>2. Within(H, gateClock, lim.window) \in HitSets BY HitsKept
  <2>3. PICK kept \in HitSets : kept = Within(H, gateClock, lim.window) BY <2>2
  <2>4. lim.window \in Nat /\ lim.max \in Nat \ {0} BY DEF LiveLimits
  <2>5. CASE Cardinality(kept) < lim.max BY <2>1, <2>3, <2>5 DEF RetryAfter
  <2>6. CASE ~(Cardinality(kept) < lim.max)
    <3>1. Cardinality(kept) \in Nat BY FS_CardinalityType DEF HitSets
    <3>2. PICK t \in Nat : t = Threshold(kept, lim.max) BY <2>4, <2>6, <3>1, ThresholdIs
    <3> QED BY <2>1, <2>3, <2>4, <2>6, <3>2 DEF RetryAfter, GateInv
  <2> QED BY <2>5, <2>6
<1>5. PICK wait \in Nat : wait = (IF w < 1 THEN 1 ELSE w) BY <1>4
<1>6. wait >= 1 /\ wait >= w BY <1>4, <1>5
<1>7. Cardinality(Within(hits[r.client], gateClock + wait, r.live.window)) < r.live.max
  BY <1>1, <1>6, WaitSuffices DEF GateInv
<1>8. gateAnswer'.client = r.client /\ gateAnswer'.at = gateClock /\ gateAnswer'.wait = wait /\ gateAnswer'.live = r.live
  BY <1>5 DEF Retry
<1>9. RetrySuffices' BY <1>7, <1>8 DEF RetrySuffices, Retry
<1> QED BY <1>3, <1>9 DEF Retry, GateInv

LEMMA GateStep == GateInv /\ [GateNext]_gateVars => GateInv'
<1> SUFFICES ASSUME GateInv, [GateNext]_gateVars PROVE GateInv' OBVIOUS
<1>1. CASE UNCHANGED gateVars BY <1>1 DEF gateVars, GateInv, RetrySuffices
<1>2. CASE GateNext BY <1>2, OperatorStep, AllowStep, RequestStep, RetryStep DEF GateNext
<1> QED BY <1>1, <1>2

-----------------------------------------------------------------------------
(* The services together.                                                       *)

(* A behaviour of the services is one of each of the other parts.               *)
LEMMA ServicesParts ==
  /\ ServicesInit => KeysInit /\ OwnerFilesInit /\ GateInit /\ SkillInit /\ ShimInit
  /\ [ServicesNext]_servicesAll =>
       /\ [KeysNext]_keyVars /\ [OwnerFilesNext]_fileVars /\ [GateNext]_gateVars
       /\ [SkillNext]_skillVars /\ [ShimNext]_shimVars
<1>1. ServicesInit => KeysInit /\ OwnerFilesInit /\ GateInit /\ SkillInit /\ ShimInit
  BY DEF ServicesInit
<1>2. ASSUME [ServicesNext]_servicesAll
      PROVE  /\ [KeysNext]_keyVars /\ [OwnerFilesNext]_fileVars /\ [GateNext]_gateVars
             /\ [SkillNext]_skillVars /\ [ShimNext]_shimVars
  <2>1. CASE UNCHANGED servicesAll
    BY <2>1 DEF servicesAll
  <2>2. CASE ServicesNext
    BY <2>2 DEF ServicesNext
  <2>3. QED BY <1>2, <2>1, <2>2
<1>3. QED BY <1>1, <1>2

(* Work stays within its limits (WorkIsBounded): for any number of callers and *)
(* permits, any budget however it is reloaded and any movement of the wall     *)
(* clock, and any child (mcp_server.rs, ratelimit.rs, process/unix.rs).         *)
THEOREM WorkStaysBounded == ServicesSpec => []WorkIsBounded
<1> DEFINE Inv == PermitInv /\ GateInv /\ ChildInv
<1>1. Inv => WorkIsBounded
  BY PermitsBound DEF GateInv, ChildInv, GroupInv, GroupEndsOnlyItself, WorkIsBounded
<1>2. ServicesInit => Inv
  BY PermitsStart, GateStarts, ChildStarts, ServicesParts
<1>3. Inv /\ [ServicesNext]_servicesAll => Inv'
  BY PermitStep, GateStep, ChildStepKeeps, ServicesParts
<1> HIDE DEF Inv
<1>4. QED BY <1>1, <1>2, <1>3, PTL DEF ServicesSpec

(* What an operation reports is what is on disk (ReportedIsStored): of the      *)
(* keys, the soul, the blobs, the spend ledger and the skills, with any crash   *)
(* and any failed write between (env_keys.rs, persona.rs, attachments.rs,       *)
(* spend.rs, registry.rs).                                                      *)
THEOREM ReportsAreStored == ServicesSpec => []ReportedIsStored
<1> DEFINE Inv == KeyStoreInv /\ PersonaInv /\ FilesInv /\ SkillInv /\ BarrierInv /\ RotationInv /\ LedgerInv
<1>1. Inv => ReportedIsStored
  <2>1. KeyStoreInv => RefusedUpdateRollsBack
    BY DEF KeyStoreInv, RollbackInv, AsRead, RefusedUpdateRollsBack
  <2>2. LedgerInv => SummaryIsHonest
    BY DEF LedgerInv
  <2>3. QED BY <2>1, <2>2, PersonaPromise, FilesHold DEF SkillInv, ReportedIsStored
<1>2. ServicesInit => Inv
  BY KeyStoreStarts, PersonaStarts, FilesInitInv, SkillStarts, LogsStart, LedgerStarts, ServicesStores, ServicesParts, ServicesLogs
<1>3. Inv /\ [ServicesNext]_servicesAll => Inv'
  BY KeyStoreStep, PersonaStep, FilesNextInv, SkillStep, BarrierStep, RotationStep, LedgerStep,
     ServicesStores, ServicesParts, ServicesLogs
<1> HIDE DEF Inv
<1>4. QED BY <1>1, <1>2, <1>3, PTL DEF ServicesSpec
=============================================================================
