--------------------------- MODULE CodingRunProofs ---------------------------
(***************************************************************************)
(* Proofs about CodingRun: its records are sound, what is offered was       *)
(* verified, a commit is what was accepted, and the run keeps RunPromise.   *)
(***************************************************************************)
EXTENDS CodingRun, TLAPS

(* Where a worker is that owns its lease.                                   *)
Holding == Looping \cup {"cloned", "exhausted", "failed", "quarantined", "dispose"}

(* Where a command is that owns the lease.                                  *)
HasLease(o) == opc[o] \notin {"idle", "begun"}

(* A lease has one owner, and while a worker is alive the record says so:   *)
(* no command has even begun on a record that is missing or running.        *)
OwnInv ==
  /\ \A o \in Ops : HasLease(o) => lease = o
  /\ wpc \in Holding => lease = "worker"
  /\ record.status \in {"none", "running"} => \A o \in Ops : opc[o] = "idle"
  /\ wpc \in {"none", "context", "cloned"} => record.status = "none"
  /\ wpc \in Looping \cup {"exhausted", "failed", "quarantined"} => record.status = "running"
  /\ wpc = "dispose" => record.status = "failed"
  /\ wpc \in Looping \cup {"cloned"} => clone = "present"

(* What a command that is about to save will write over the record.         *)
SavedBy(o) ==
  /\ okind[o] = "approve" => /\ record.status = "pending"
                             /\ orec[o] = [record EXCEPT !.status = "approved", !.commit = record.accepted]
  /\ okind[o] = "reject" => /\ record.status = "pending"
                            /\ orec[o] = [record EXCEPT !.status = "rejected"]
  /\ okind[o] = "push" => /\ record.status = "approved"
                          /\ orec[o] = [record EXCEPT !.pushed = TRUE]
  /\ okind[o] = "publish" => /\ record.status = "approved"
                             /\ \E pr \in PrStates : orec[o] = [record EXCEPT !.pr = pr]
  /\ okind[o] = "discard" => /\ record.status \notin {"none", "running", "pending"}
                             /\ orec[o] = [record EXCEPT !.status = "discarded"]

(* The private index holds the accepted files hashed so far.                *)
Hashed(o) ==
  blobs = [f \in Files |-> IF f \in oleft THEN Keep ELSE orec[o].accepted[f]]

(* A command under the lease works on the record as it is: nobody else      *)
(* writes it, and each place of the command remembers what it checked.      *)
CopyInv ==
  \A o \in Ops : HasLease(o) =>
    /\ opc[o] # "save" => orec[o] = record /\ Proper(okind[o], record)
    /\ opc[o] = "save" => SavedBy(o)
    /\ okind[o] = "approve" /\ opc[o] \in {"lock", "hash", "head"} => InScope(o)
    /\ okind[o] = "approve" /\ opc[o] \in {"hash", "head"} => Hashed(o)
    /\ okind[o] = "approve" /\ opc[o] = "head" => oleft = {}
    /\ okind[o] = "publish" /\ opc[o] = "planned" => remote = record.commit

(* Only an approved record has something to push: its accepted files.       *)
OriginInv ==
  /\ record.status = "approved" => record.commit = record.accepted
  /\ RemoteIsApproved

(* A file nobody else touched differs from the base only if an iteration    *)
(* wrote it; one being installed is remembered as it was.                   *)
TreeInv ==
  /\ wpc \in (Looping \ {"install", "rollback"}) \cup {"none", "context", "cloned"} =>
       \A f \in Files \ (dirty \cup written) : tree[f] = BaseTree[f]
  /\ wpc \in {"install", "rollback"} =>
       \A f \in Files \ (dirty \cup written) :
         IF f \in installed THEN expected[f] = BaseTree[f] ELSE tree[f] = BaseTree[f]
  /\ wpc = "accepted" => \A f \in Files \ dirty : verified[f] = tree[f]
  /\ record.status \in {"pending", "approved"} => wpc = "over"

CodingInv == OwnInv /\ CopyInv /\ OriginInv /\ TreeInv /\ AcceptedIsVerified

-----------------------------------------------------------------------------
(* Type correctness.                                                        *)

LEMMA TypeInit == Init => TypeOK
<1> SUFFICES ASSUME Init PROVE TypeOK
  OBVIOUS
<1>1. Nothing \in Snapshot /\ NoRecord \in Record
  BY DEF NoRecord, Record, Statuses, PrStates, Nothing, Snapshot
<1>2. /\ opc \in [Ops -> OpPlaces] /\ okind \in [Ops -> Kinds] /\ orec \in [Ops -> Record]
      /\ oscope \in [Ops -> SUBSET Files]
  BY <1>1 DEF Init, OpPlaces, Kinds
<1>3. step \in 0..(MaxIterations + MaxGhRetries) /\ tampers \in 0..MaxTampers
  BY BoundAssumption DEF Init
<1>4. /\ tree \in [Files -> Contents] /\ expected \in [Files -> Contents] /\ verified \in [Files -> Contents]
      /\ record \in Record /\ prop \in Snapshot /\ blobs \in Snapshot
  BY <1>1, TreeAssumption DEF Init
<1>5. /\ moved \in BOOLEAN /\ idxLock \in BOOLEAN /\ opened \in BOOLEAN /\ writes \in BOOLEAN
      /\ installed \subseteq Files /\ written \subseteq Files /\ oleft \subseteq Files
      /\ dirty \subseteq Files /\ wscope \subseteq Files /\ scope \in Scopes
      /\ wpc \in WorkerPlaces /\ lease \in {"free", "worker"} \cup Ops
      /\ clone \in {"none", "partial", "present", "gone"}
      /\ branch \in Snapshot \cup {NoCommit} /\ remote \in Snapshot \cup {NoCommit}
  BY DEF Init, WorkerPlaces
<1>6. QED BY <1>2, <1>3, <1>4, <1>5, Zenon DEF TypeOK

(* The steps of the surroundings keep the types.                            *)
LEMMA TypeSurroundings ==
  ASSUME TypeOK, EditPolicy \/ Rewrite \/ Reconcile \/ (\E f \in Files : Tamper(f))
  PROVE  TypeOK'
<1> USE DEF TypeOK
<1>1. CASE EditPolicy
  BY <1>1 DEF EditPolicy, gitVars, outVars, workVars, planVars, opVars, envVars
<1>2. CASE Rewrite
  BY <1>2, BoundAssumption DEF Rewrite, outVars, polVars, workVars, planVars, opVars, Snapshot
<1>3. CASE Reconcile
  BY <1>3 DEF Reconcile, gitVars, outVars, polVars, workVars, planVars, opVars, envVars,
    Record, Statuses, Settled
<1>4. ASSUME NEW f \in Files, Tamper(f) PROVE TypeOK'
  BY <1>4, BoundAssumption DEF Tamper, gitVars, outVars, polVars, workVars, planVars, opVars
<1>5. QED BY <1>1, <1>2, <1>3, <1>4

(* What a worker that forgets is left with has its types.                   *)
LEMMA TypeForgets ==
  ASSUME Forgets
  PROVE  /\ step' \in 0..(MaxIterations + MaxGhRetries) /\ wscope' \subseteq Files
         /\ expected' \in [Files -> Contents] /\ prop' \in Snapshot
         /\ installed' \subseteq Files /\ written' \subseteq Files
BY BoundAssumption, TreeAssumption DEF Forgets, Nothing, Snapshot

(* The steps of a worker keep the types.                                    *)
LEMMA TypeWorker == ASSUME TypeOK, Worker PROVE TypeOK'
<1> USE DEF TypeOK
<1> USE BoundAssumption, TreeAssumption, ScopeAssumption
<1>1. CASE FetchContext
  BY <1>1 DEF FetchContext, gitVars, outVars, polVars, planVars, opVars, envVars, WorkerPlaces
<1>2. CASE CloneTimesOut
  BY <1>2 DEF CloneTimesOut, WorkerOnly, gitVars, outVars, polVars, planVars, opVars, envVars
<1>3. CASE RetryClone
  BY <1>3 DEF RetryClone, WorkerOnly, gitVars, outVars, polVars, planVars, opVars, envVars
<1>4. CASE CloneFails
  BY <1>4, TypeForgets DEF CloneFails, gitVars, outVars, polVars, opVars, envVars, WorkerPlaces
<1>5. CASE Clone
  BY <1>5 DEF Clone, gitVars, outVars, polVars, planVars, opVars, envVars, WorkerPlaces
<1>6. CASE Register
  <2> USE <1>6 DEF Register, gitVars, outVars, polVars, planVars, opVars, envVars, WorkerPlaces
  <2>1. CASE record' = [record EXCEPT !.status = "running"] /\ wpc' = "collect"
    <3>1. record' \in Record
      BY <2>1 DEF Record, Statuses
    <3>2. CASE step' = 1 /\ UNCHANGED <<lease, clone, tree, wscope, planVars, written>>
      BY <2>1, <3>1, <3>2
    <3>3. QED BY <2>1, <3>1, <3>2
  <2>2. CASE Removed /\ lease' = "free" /\ wpc' = "over" /\ Forgets /\ UNCHANGED record
    BY <2>2, TypeForgets DEF Removed
  <2>3. QED BY <2>1, <2>2
<1>7. CASE Collect
  BY <1>7, ContentAssumption DEF Collect, Preimage, WorkerOnly, gitVars, outVars, polVars, opVars,
    envVars, WorkerPlaces
<1>8. CASE Plan
  <2>1. prop' \in Snapshot /\ wpc' \in WorkerPlaces
    BY <1>8 DEF Plan, WorkerPlaces, Snapshot
  <2>2. QED BY <1>8, <2>1 DEF Plan, WorkerOnly, gitVars, outVars, polVars, opVars, envVars
<1>9. CASE Stage
  BY <1>9 DEF Stage, WorkerOnly, gitVars, outVars, polVars, opVars, envVars, WorkerPlaces
<1>10. CASE Applied
  BY <1>10 DEF Applied, WorkerOnly, gitVars, outVars, polVars, planVars, opVars, envVars, WorkerPlaces
<1>11. CASE RolledBack
  BY <1>11 DEF RolledBack, WorkerOnly, gitVars, outVars, polVars, planVars, opVars, envVars, WorkerPlaces
<1>12. CASE Verify
  BY <1>12 DEF Verify, Judged, WorkerOnly, gitVars, outVars, polVars, planVars, opVars, envVars,
    WorkerPlaces
<1>13. CASE NextIteration
  BY <1>13 DEF NextIteration, Removed, WorkerOnly, gitVars, outVars, polVars, planVars, opVars, envVars,
    WorkerPlaces
<1>14. CASE LoopError
  BY <1>14 DEF LoopError, WorkerOnly, gitVars, outVars, polVars, planVars, opVars, envVars, WorkerPlaces
<1>15. CASE SaveExhausted
  BY <1>15, TypeForgets DEF SaveExhausted, WorkerSaves, gitVars, outVars, polVars, opVars, envVars,
    WorkerPlaces, Record, Statuses, Settled
<1>16. CASE SaveFailed
  BY <1>16, TypeForgets DEF SaveFailed, WorkerSaves, gitVars, outVars, polVars, opVars, envVars,
    WorkerPlaces, Record, Statuses, Settled
<1>17. CASE Dispose
  BY <1>17, TypeForgets DEF Dispose, Removed, WorkerSaves, gitVars, outVars, polVars, opVars, envVars,
    WorkerPlaces
<1>18. CASE SaveAccepted
  BY <1>18, TypeForgets DEF SaveAccepted, ChangedFiles, WorkerSaves, gitVars, outVars, polVars, opVars,
    envVars, WorkerPlaces, Record, Statuses, Snapshot
<1>19. CASE WorkerExit
  BY <1>19, TypeForgets DEF WorkerExit, gitVars, outVars, polVars, opVars, envVars, WorkerPlaces
<1>20. ASSUME NEW f \in Files, Install(f) PROVE TypeOK'
  BY <1>20 DEF Install, In, Snapshot, WorkerOnly, gitVars, outVars, polVars, opVars, envVars, WorkerPlaces
<1>21. ASSUME NEW f \in Files, Rollback(f) PROVE TypeOK'
  BY <1>21 DEF Rollback, WorkerOnly, gitVars, outVars, polVars, opVars, envVars, WorkerPlaces
<1>22. QED
  BY <1>1, <1>2, <1>3, <1>4, <1>5, <1>6, <1>7, <1>8, <1>9, <1>10, <1>11, <1>12, <1>13, <1>14, <1>15,
     <1>16, <1>17, <1>18, <1>19, <1>20, <1>21 DEF Worker

(* The steps of a command keep the types.                                   *)
LEMMA TypeCommand == ASSUME TypeOK, NEW o \in Ops, Command(o) PROVE TypeOK'
<1> USE DEF TypeOK
<1>a. Ends(o) => /\ opc' \in [Ops -> OpPlaces] /\ okind' \in [Ops -> Kinds]
                 /\ orec' \in [Ops -> Record] /\ oscope' \in [Ops -> SUBSET Files]
  BY DEF Ends, OpPlaces, Kinds, NoRecord, Record, Nothing, Snapshot, Statuses, PrStates
<1>b. ASSUME NEW p \in OpPlaces, Goes(o, p)
      PROVE  /\ opc' \in [Ops -> OpPlaces] /\ okind' \in [Ops -> Kinds]
             /\ oscope' \in [Ops -> SUBSET Files]
  BY <1>b DEF Goes
<1>c. /\ "leased" \in OpPlaces /\ "lock" \in OpPlaces /\ "hash" \in OpPlaces /\ "head" \in OpPlaces
      /\ "save" \in OpPlaces /\ "sending" \in OpPlaces /\ "planned" \in OpPlaces /\ "begun" \in OpPlaces
  BY DEF OpPlaces
<1>d. Nothing \in Snapshot
  BY DEF Nothing, Snapshot
<1>1. CASE Lease(o)
  BY <1>1, <1>a, <1>b, <1>c DEF Lease, Reloaded, gitVars, outVars, polVars, workVars, planVars, envVars
<1>2. CASE Finalize(o)
  BY <1>2, <1>b, <1>c DEF Finalize, gitVars, outVars, polVars, workVars, planVars, envVars
<1>3. CASE LockIndex(o)
  BY <1>3, <1>b, <1>c, <1>d DEF LockIndex, In, outVars, polVars, workVars, planVars, envVars
<1>4. CASE CreateBranch(o)
  BY <1>4, <1>b, <1>c DEF CreateBranch, outVars, polVars, workVars, planVars, envVars
<1>5. CASE MoveHead(o)
  <2>1. orec' \in [Ops -> Record]
    BY <1>5 DEF MoveHead, Record, Statuses, Settled
  <2>2. QED BY <1>5, <2>1, <1>b, <1>c DEF MoveHead, outVars, polVars, workVars, planVars, envVars
<1>6. ASSUME NEW st \in Statuses, RemoveClone(o, st) PROVE TypeOK'
  <2>1. orec' \in [Ops -> Record]
    BY <1>6 DEF RemoveClone, Record
  <2>2. QED
    BY <1>6, <2>1, <1>b, <1>c, TreeAssumption
    DEF RemoveClone, Removed, outVars, polVars, workVars, planVars, envVars
<1>7. CASE CheckSource(o)
  BY <1>7, <1>b, <1>c DEF CheckSource, gitVars, outVars, polVars, workVars, planVars, envVars
<1>8. CASE Push(o)
  <2>1. orec' \in [Ops -> Record] /\ remote' \in Snapshot \cup {NoCommit}
    BY <1>8 DEF Push, Pushed, Record
  <2>2. QED BY <1>8, <2>1, <1>b, <1>c DEF Push, gitVars, polVars, workVars, planVars, envVars
<1>9. CASE PlanWrite(o)
  BY <1>9, <1>b, <1>c DEF PlanWrite, gitVars, outVars, polVars, workVars, planVars, envVars
<1>10. CASE ExecuteWrite(o)
  <2>1. orec' \in [Ops -> Record] /\ opened' \in BOOLEAN
    <3>1. PICK pr \in PrStates : orec' = [orec EXCEPT ![o].pr = pr]
      BY <1>10 DEF ExecuteWrite, PrStates
    <3>2. orec' \in [Ops -> Record]
      BY <3>1 DEF Record
    <3>3. QED BY <1>10, <3>2 DEF ExecuteWrite
  <2>2. QED BY <1>10, <2>1, <1>b, <1>c DEF ExecuteWrite, gitVars, polVars, workVars, planVars, envVars
<1>11. CASE Save(o)
  BY <1>11, <1>a, <1>d DEF Save, gitVars, outVars, polVars, workVars, planVars, envVars
<1>12. CASE Exit(o)
  BY <1>12, <1>a, <1>d DEF Exit, outVars, polVars, workVars, planVars, envVars
<1>13. ASSUME NEW f \in Files, HashFile(o, f) PROVE TypeOK'
  <2>1. blobs' \in Snapshot
    BY <1>13 DEF HashFile, Snapshot
  <2>2. QED BY <1>13, <2>1, <1>b, <1>c DEF HashFile, gitVars, outVars, polVars, workVars, planVars, envVars
<1>14. ASSUME NEW kind \in Kinds, Begin(o, kind) PROVE TypeOK'
  BY <1>14, <1>c, ScopeAssumption DEF Begin, gitVars, outVars, polVars, workVars, planVars, envVars
<1>15. "rejected" \in Statuses /\ "discarded" \in Statuses
  BY DEF Statuses, Settled
<1>16. QED
  BY <1>1, <1>2, <1>3, <1>4, <1>5, <1>6, <1>7, <1>8, <1>9, <1>10, <1>11, <1>12, <1>13, <1>14, <1>15
  DEF Command, Reject, Discard, Publish

(* Every variable keeps its type.                                           *)
THEOREM TypeCorrect == Spec => []TypeOK
<1>1. TypeOK /\ [Next]_vars => TypeOK'
  <2> SUFFICES ASSUME TypeOK, [Next]_vars PROVE TypeOK'
    OBVIOUS
  <2>1. CASE Next
    BY <2>1, TypeSurroundings, TypeWorker, TypeCommand DEF Next
  <2>2. CASE UNCHANGED vars
    BY <2>2 DEF vars, TypeOK, gitVars, outVars, polVars, workVars, planVars, opVars, envVars
  <2>3. QED BY <2>1, <2>2
<1>2. QED BY TypeInit, <1>1, PTL DEF Spec

-----------------------------------------------------------------------------
(* Who owns the run.                                                        *)

(* Under a worker that owns its lease no command does, and the other way    *)
(* round; two commands never both do.                                       *)
LEMMA OneHolder ==
  ASSUME TypeOK, OwnInv, NEW o \in Ops, HasLease(o)
  PROVE  /\ lease = o /\ lease # "free" /\ wpc \notin Holding
         /\ record.status \notin {"none", "running"}
         /\ \A p \in Ops : p # o => ~HasLease(p)
BY OwnerAssumption DEF OwnInv, HasLease

(* A step that leaves alone what ownership is about keeps it.               *)
LEMMA OwnQuiet ==
  ASSUME OwnInv, UNCHANGED <<record, lease, clone, wpc, opc>>
  PROVE  OwnInv'
BY DEF OwnInv, HasLease

(* What happens around the run, policy, repository and working-tree edits   *)
(* and a reconciliation, leaves the ownership of the lease as it was or     *)
(* takes it from a worker that is gone.                                     *)
LEMMA OwnSurroundings ==
  ASSUME TypeOK, OwnInv, EditPolicy \/ Rewrite \/ Reconcile \/ (\E f \in Files : Tamper(f))
  PROVE  OwnInv'
<1>1. CASE EditPolicy
  BY <1>1, OwnQuiet DEF EditPolicy, workVars, opVars
<1>2. CASE Rewrite
  BY <1>2, OwnQuiet DEF Rewrite, workVars, opVars
<1>3. CASE \E f \in Files : Tamper(f)
  BY <1>3, OwnQuiet DEF Tamper, workVars, opVars
<1>4. CASE Reconcile
  <2>1. /\ UNCHANGED <<lease, clone, wpc, opc>> /\ record.status = "running" /\ lease = "free"
        /\ record'.status = "interrupted"
    BY <1>4 DEF Reconcile, OwnerGone, workVars, opVars, TypeOK, Record
  <2>2. wpc \notin Holding /\ wpc \notin {"none", "context"}
    BY <2>1 DEF OwnInv
  <2>3. QED BY <2>1, <2>2 DEF OwnInv, HasLease, Holding, Looping
<1>5. QED BY <1>1, <1>2, <1>3, <1>4

(* The worker takes the lease before there is a record and gives it up when *)
(* it is over; between the two its record is its own.                       *)
LEMMA OwnWorker ==
  ASSUME TypeOK, OwnInv, Worker
  PROVE  OwnInv'
<1> USE DEF OwnInv, HasLease, Holding, Looping
<1>a. WorkerOnly => UNCHANGED <<record, lease, opc>>
  BY DEF WorkerOnly, opVars
<1>b. wpc \in {"none", "context"} => \A o \in Ops : opc[o] = "idle"
  OBVIOUS
<1>1. CASE FetchContext
  BY <1>1 DEF FetchContext, opVars
<1>2. CASE CloneTimesOut \/ RetryClone
  BY <1>2, <1>a DEF CloneTimesOut, RetryClone
<1>3. CASE CloneFails
  BY <1>3, <1>b DEF CloneFails, opVars
<1>4. CASE Clone
  BY <1>4, <1>b DEF Clone, opVars
<1>5. CASE Register
  <2>1. record.status = "none" /\ UNCHANGED opc /\ \A o \in Ops : opc[o] = "idle"
    BY <1>5 DEF Register, opVars
  <2>2. CASE record' = [record EXCEPT !.status = "running"] /\ wpc' = "collect" /\ UNCHANGED <<lease, clone>>
    <3>1. record'.status = "running"
      BY <2>2 DEF TypeOK, Record
    <3>2. QED BY <1>5, <2>1, <2>2, <3>1 DEF Register
  <2>3. CASE wpc' = "over" /\ UNCHANGED record
    BY <2>1, <2>3
  <2>4. QED BY <1>5, <2>2, <2>3 DEF Register
<1>6. CASE Collect \/ Plan \/ Stage \/ Applied \/ RolledBack
  BY <1>6, <1>a DEF Collect, Plan, Stage, Applied, RolledBack
<1>7. CASE Verify
  BY <1>7, <1>a DEF Verify, Judged
<1>8. CASE NextIteration \/ LoopError
  BY <1>8, <1>a DEF NextIteration, LoopError
<1>9. ASSUME NEW st \in Statuses \ {"none", "running"},
             NEW acc \in Snapshot, NEW place \in {"over", "dispose"},
             wpc \in {"exhausted", "failed", "quarantined", "accepted"},
             place = "dispose" => st = "failed",
             WorkerSaves([record EXCEPT !.status = st, !.accepted = acc], place)
      PROVE  OwnInv'
  <2>1. /\ record'.status = st /\ wpc' = place /\ UNCHANGED opc
        /\ lease' = (IF place = "over" THEN "free" ELSE lease)
    BY <1>9 DEF WorkerSaves, opVars, TypeOK, Record
  <2>2. lease = "worker" /\ \A o \in Ops : opc[o] = "idle"
    BY <1>9
  <2>3. QED BY <1>9, <2>1, <2>2
<1>10. /\ record.accepted \in Snapshot
       /\ \A st \in Statuses : [record EXCEPT !.status = st]
                                = [record EXCEPT !.status = st, !.accepted = record.accepted]
  BY DEF TypeOK, Record
<1>11. CASE SaveExhausted
  BY <1>11, <1>9, <1>10 DEF SaveExhausted, Statuses, Settled
<1>12. CASE SaveFailed
  BY <1>12, <1>9, <1>10 DEF SaveFailed, Statuses, Settled
<1>13. CASE Dispose
  <2>1. /\ UNCHANGED <<record, opc>> /\ lease' = "free" /\ wpc' = "over" /\ wpc = "dispose"
    BY <1>13 DEF Dispose, WorkerSaves, opVars
  <2>2. lease = "worker" /\ record.status = "failed" /\ \A o \in Ops : ~HasLease(o)
    BY <2>1, OwnerAssumption
  <2>3. QED BY <2>1, <2>2
<1>14. CASE SaveAccepted
  <2>1. [f \in Files |-> IF f \in ChangedFiles THEN tree[f] ELSE Keep] \in Snapshot
    BY DEF TypeOK, Snapshot
  <2>2. QED BY <1>14, <2>1, <1>9 DEF SaveAccepted, Statuses
<1>15. CASE WorkerExit
  <2>1. /\ UNCHANGED <<record, opc, clone>> /\ lease' = "free" /\ wpc' = "over" /\ wpc \notin {"none", "over"}
    BY <1>15 DEF WorkerExit, opVars
  <2>2. \A o \in Ops : ~HasLease(o)
    BY <2>1, OwnerAssumption DEF TypeOK, WorkerPlaces
  <2>3. QED BY <2>1, <2>2
<1>16. ASSUME NEW f \in Files, Install(f) \/ Rollback(f) PROVE OwnInv'
  BY <1>16, <1>a DEF Install, Rollback
<1>17. QED
  BY <1>1, <1>2, <1>3, <1>4, <1>5, <1>6, <1>7, <1>8, <1>11, <1>12, <1>13, <1>14, <1>15, <1>16 DEF Worker

(* What a command saves is a settled record.                                *)
LEMMA SavedIsSettled ==
  ASSUME TypeOK, NEW o \in Ops, SavedBy(o)
  PROVE  /\ record.status \notin {"none", "running"}
         /\ orec[o].status \notin {"none", "running"}
BY DEF TypeOK, SavedBy, Record, Kinds

(* A command takes the lease only when it is free, and only its holder      *)
(* removes the clone or writes the record.                                  *)
LEMMA OwnCommand ==
  ASSUME TypeOK, OwnInv, CopyInv, NEW o \in Ops, Command(o)
  PROVE  OwnInv'
<1> USE DEF OwnInv
<1>a. ASSUME NEW place, Goes(o, place)
      PROVE  opc' = [opc EXCEPT ![o] = place]
  BY <1>a DEF Goes
<1>b. Ends(o) => opc' = [opc EXCEPT ![o] = "idle"]
  BY DEF Ends
<1>c. opc \in [Ops -> OpPlaces]
  BY DEF TypeOK
<1>1. ASSUME NEW kind \in Kinds, Begin(o, kind) PROVE OwnInv'
  BY <1>1, <1>c DEF Begin, workVars, HasLease
<1>2. CASE Lease(o)
  <2>1. UNCHANGED <<record, clone, wpc>> /\ opc[o] = "begun"
    BY <1>2 DEF Lease, workVars
  <2>2. CASE lease = "free" /\ lease' = o /\ opc' = [opc EXCEPT ![o] = "leased"]
    <3>1. wpc \notin Holding /\ \A p \in Ops : ~HasLease(p)
      BY <2>2, OwnerAssumption
    <3>2. record.status \notin {"none", "running"}
      BY <2>1
    <3>3. QED BY <2>1, <2>2, <3>1, <3>2, <1>c DEF HasLease, Looping, Holding
  <2>3. CASE UNCHANGED lease /\ opc' = [opc EXCEPT ![o] = "idle"]
    BY <2>1, <2>3, <1>c DEF HasLease
  <2>4. QED BY <1>2, <2>2, <2>3, <1>a, <1>b DEF Lease
<1>3. ASSUME HasLease(o), NEW place \in OpPlaces, opc' = [opc EXCEPT ![o] = place],
             UNCHANGED <<record, lease, wpc>>
      PROVE  OwnInv'
  BY <1>3, <1>c, OneHolder DEF HasLease, Holding, Looping
<1>4. CASE Finalize(o) \/ LockIndex(o) \/ CreateBranch(o) \/ MoveHead(o)
  BY <1>4, <1>3, <1>a DEF Finalize, LockIndex, CreateBranch, MoveHead, At, HasLease, OpPlaces, workVars
<1>5. CASE Reject(o) \/ Discard(o)
  BY <1>5, <1>3, <1>a DEF Reject, Discard, RemoveClone, At, HasLease, OpPlaces, workVars
<1>6. CASE CheckSource(o) \/ Push(o) \/ Publish(o)
  BY <1>6, <1>3, <1>a DEF CheckSource, Push, Publish, PlanWrite, ExecuteWrite, At, HasLease, OpPlaces, workVars
<1>7. ASSUME NEW f \in Files, HashFile(o, f) PROVE OwnInv'
  BY <1>7, <1>3, <1>a DEF HashFile, At, HasLease, OpPlaces, workVars
<1>8. CASE Save(o)
  <2>1. /\ HasLease(o) /\ opc[o] = "save" /\ record' = orec[o] /\ lease' = "free"
        /\ opc' = [opc EXCEPT ![o] = "idle"] /\ UNCHANGED <<clone, wpc>>
    BY <1>8, <1>b DEF Save, HasLease, workVars
  <2>2. record'.status \notin {"none", "running"}
    BY <2>1, SavedIsSettled DEF CopyInv
  <2>3. /\ wpc \notin Holding /\ wpc \notin {"none", "context"}
        /\ \A p \in Ops : p # o => ~HasLease(p)
    BY <2>1, OneHolder
  <2>4. QED BY <2>1, <2>2, <2>3, <1>c DEF HasLease, Holding, Looping
<1>9. CASE Exit(o)
  <2>1. /\ HasLease(o) /\ lease' = "free"
        /\ opc' = [opc EXCEPT ![o] = "idle"] /\ UNCHANGED <<record, clone, wpc>>
    BY <1>9, <1>b DEF Exit, HasLease, workVars
  <2>2. /\ wpc \notin Holding
        /\ \A p \in Ops : p # o => ~HasLease(p)
    BY <2>1, OneHolder
  <2>3. QED BY <2>1, <2>2, <1>c DEF HasLease, Holding, Looping
<1>10. QED
  BY <1>1, <1>2, <1>4, <1>5, <1>6, <1>7, <1>8, <1>9 DEF Command

-----------------------------------------------------------------------------
(* What a command under the lease knows.                                    *)

(* What CopyInv says of one command.                                        *)
CopyOf(o) ==
  HasLease(o) =>
    /\ opc[o] # "save" => orec[o] = record /\ Proper(okind[o], record)
    /\ opc[o] = "save" => SavedBy(o)
    /\ okind[o] = "approve" /\ opc[o] \in {"lock", "hash", "head"} => InScope(o)
    /\ okind[o] = "approve" /\ opc[o] \in {"hash", "head"} => Hashed(o)
    /\ okind[o] = "approve" /\ opc[o] = "head" => oleft = {}
    /\ okind[o] = "publish" /\ opc[o] = "planned" => remote = record.commit

(* CopyInv, one command at a time.                                          *)
LEMMA CopyParts == CopyInv <=> \A o \in Ops : CopyOf(o)
BY DEF CopyInv, CopyOf

(* The same after a step.                                                   *)
LEMMA CopyPartsNext == CopyInv' <=> \A o \in Ops : CopyOf(o)'
BY DEF CopyInv, CopyOf

(* What a command knows is about its own copies, the record, the branch on  *)
(* origin and the private index.                                            *)
LEMMA CopyKept ==
  ASSUME NEW p \in Ops, CopyOf(p), UNCHANGED <<record, remote, oleft, blobs>>,
         opc'[p] = opc[p], okind'[p] = okind[p], orec'[p] = orec[p], oscope'[p] = oscope[p]
  PROVE  CopyOf(p)'
<1>1. SavedBy(p) => SavedBy(p)'
  BY DEF SavedBy
<1>2. InScope(p) => InScope(p)'
  BY DEF InScope, In
<1>3. Hashed(p) => Hashed(p)'
  BY DEF Hashed
<1>4. HasLease(p)' => HasLease(p)
  BY DEF HasLease
<1>5. QED BY <1>1, <1>2, <1>3, <1>4 DEF CopyOf

(* A step of somebody else that leaves the record, origin and the commands  *)
(* alone keeps what the commands know.                                      *)
LEMMA CopyQuiet ==
  ASSUME CopyInv, UNCHANGED <<record, remote, opVars>>
  PROVE  CopyInv'
BY CopyParts, CopyPartsNext, CopyKept DEF opVars

(* While no command has the lease there is nothing to know.                 *)
LEMMA CopyNobody ==
  ASSUME \A o \in Ops : ~HasLease(o), UNCHANGED opc
  PROVE  CopyInv'
BY DEF CopyInv, HasLease

(* What happens around the run keeps what the commands know: a              *)
(* reconciliation needs a free lease.                                       *)
LEMMA CopySurroundings ==
  ASSUME TypeOK, OwnInv, CopyInv,
         EditPolicy \/ Rewrite \/ Reconcile \/ (\E f \in Files : Tamper(f))
  PROVE  CopyInv'
<1>1. CASE EditPolicy
  BY <1>1, CopyQuiet DEF EditPolicy, outVars
<1>2. CASE Rewrite
  BY <1>2, CopyQuiet DEF Rewrite, outVars
<1>3. CASE \E f \in Files : Tamper(f)
  BY <1>3, CopyQuiet DEF Tamper, outVars
<1>4. CASE Reconcile
  BY <1>4, OneHolder, CopyNobody DEF Reconcile, OwnerGone, opVars
<1>5. QED BY <1>1, <1>2, <1>3, <1>4

(* The worker writes the record only while it has the lease, so no command  *)
(* holds a copy then.                                                       *)
LEMMA CopyWorker ==
  ASSUME TypeOK, OwnInv, CopyInv, Worker
  PROVE  CopyInv'
<1>1. WorkerOnly => UNCHANGED <<record, remote, opVars>>
  BY DEF WorkerOnly, outVars
<1>2. CASE FetchContext \/ CloneFails \/ Clone \/ WorkerExit
  BY <1>2, CopyQuiet DEF FetchContext, CloneFails, Clone, WorkerExit, outVars
<1>3. CASE CloneTimesOut \/ RetryClone \/ Collect \/ Plan \/ Stage \/ Applied \/ RolledBack
           \/ Verify \/ NextIteration \/ LoopError
  BY <1>3, <1>1, CopyQuiet
  DEF CloneTimesOut, RetryClone, Collect, Plan, Stage, Applied, RolledBack, Verify, NextIteration, LoopError
<1>4. ASSUME NEW f \in Files, Install(f) \/ Rollback(f) PROVE CopyInv'
  BY <1>4, <1>1, CopyQuiet DEF Install, Rollback
<1>5. CASE Register \/ SaveExhausted \/ SaveFailed \/ Dispose \/ SaveAccepted
  <2>1. wpc \in Holding /\ UNCHANGED opc
    BY <1>5 DEF Register, SaveExhausted, SaveFailed, Dispose, SaveAccepted, WorkerSaves, opVars, Holding, Looping
  <2>2. QED BY <2>1, OneHolder, CopyNobody
<1>6. QED BY <1>2, <1>3, <1>4, <1>5 DEF Worker

(* A command keeps what the other commands know: it leaves their copies     *)
(* alone, and no other has the lease while it acts under it.                *)
LEMMA CopyOthers ==
  ASSUME TypeOK, OwnInv, CopyInv, NEW o \in Ops, Command(o), NEW p \in Ops, p # o
  PROVE  CopyOf(p)'
<1> USE DEF TypeOK
<1>1. opc'[p] = opc[p] /\ okind'[p] = okind[p] /\ orec'[p] = orec[p] /\ oscope'[p] = oscope[p]
  <2>1. Ends(o) \/ (\E place : Goes(o, place)) \/ (\E kind \in Kinds : Begin(o, kind))
    BY DEF Command, Lease, Finalize, LockIndex, CreateBranch, MoveHead, Reject, Discard, RemoveClone,
      CheckSource, Push, Publish, PlanWrite, ExecuteWrite, Save, Exit, HashFile
  <2>2. opc'[p] = opc[p] /\ okind'[p] = okind[p] /\ oscope'[p] = oscope[p]
    BY <2>1 DEF Ends, Goes, Begin
  <2>3. orec'[p] = orec[p]
    BY DEF Command, Lease, Finalize, LockIndex, CreateBranch, MoveHead, Reject, Discard, RemoveClone,
      CheckSource, Push, Publish, PlanWrite, ExecuteWrite, Save, Exit, HashFile, Ends, Goes, Begin
  <2>4. QED BY <2>2, <2>3
<1>2. CASE ~HasLease(p)
  BY <1>1, <1>2 DEF CopyOf, HasLease
<1>3. CASE HasLease(p)
  <2>1. lease # "free" /\ ~HasLease(o)
    BY <1>3, OneHolder
  <2>2. opc[o] \in {"idle", "begun"}
    BY <2>1 DEF HasLease
  <2>3. CASE \E kind \in Kinds : Begin(o, kind)
    <3>1. UNCHANGED <<record, remote, oleft, blobs>>
      BY <2>3 DEF Begin, outVars
    <3>2. QED BY <3>1, <1>1, CopyParts, CopyKept
  <2>4. CASE Lease(o)
    <3>1. UNCHANGED <<record, remote, oleft, blobs>>
      BY <2>4 DEF Lease, outVars
    <3>2. QED BY <3>1, <1>1, CopyParts, CopyKept
  <2>5. QED
    BY <2>2, <2>3, <2>4
    DEF Command, Finalize, LockIndex, CreateBranch, MoveHead, Reject, Discard, At,
      CheckSource, Push, Publish, PlanWrite, ExecuteWrite, Save, Exit, HashFile
<1>4. QED BY <1>2, <1>3

(* A command that moves on under the lease knows what its new place claims. *)
LEMMA CopySelf ==
  ASSUME TypeOK, OwnInv, CopyInv, NEW o \in Ops, Command(o)
  PROVE  CopyOf(o)'
<1>a. /\ opc \in [Ops -> OpPlaces] /\ okind \in [Ops -> Kinds] /\ orec \in [Ops -> Record]
      /\ oscope \in [Ops -> SUBSET Files] /\ record \in Record
  BY DEF TypeOK
<1>b. ASSUME NEW place, Goes(o, place)
      PROVE  opc'[o] = place /\ okind'[o] = okind[o] /\ oscope'[o] = oscope[o]
  BY <1>a, <1>b DEF Goes
<1>c. CopyOf(o)
  BY CopyParts
<1>1. ASSUME Ends(o) \/ (\E kind \in Kinds : Begin(o, kind)) PROVE CopyOf(o)'
  BY <1>1, <1>a DEF Ends, Begin, CopyOf, HasLease
<1>2. CASE Lease(o)
  <2>1. CASE Ends(o)
    BY <2>1, <1>1
  <2>2. CASE Proper(okind[o], record) /\ orec' = [orec EXCEPT ![o] = record] /\ Goes(o, "leased")
    <3>1. opc'[o] = "leased" /\ okind'[o] = okind[o] /\ orec'[o] = record /\ record' = record
      BY <1>2, <2>2, <1>a, <1>b DEF Lease
    <3>2. QED BY <3>1, <2>2 DEF CopyOf
  <2>3. QED BY <1>2, <2>1, <2>2 DEF Lease, Reloaded
<1>3. CASE Finalize(o)
  <2>1. /\ okind[o] = "approve" /\ opc[o] = "leased" /\ HasLease(o) /\ InScope(o)
        /\ opc'[o] = "lock" /\ okind'[o] = okind[o] /\ oscope'[o] = oscope[o]
        /\ UNCHANGED <<orec, record>>
    BY <1>3, <1>b DEF Finalize, At, HasLease
  <2>2. InScope(o)'
    BY <2>1 DEF InScope, In
  <2>3. QED BY <2>1, <2>2, <1>c DEF CopyOf
<1>4. CASE LockIndex(o)
  <2>1. /\ okind[o] = "approve" /\ opc[o] = "lock" /\ HasLease(o)
        /\ opc'[o] = "hash" /\ okind'[o] = okind[o] /\ oscope'[o] = oscope[o]
        /\ UNCHANGED <<orec, record>> /\ oleft' = In(orec[o].accepted) /\ blobs' = Nothing
    BY <1>4, <1>b DEF LockIndex, At, HasLease
  <2>2. InScope(o)'
    BY <2>1, <1>c DEF CopyOf, InScope, In
  <2>3. Hashed(o)'
    BY <2>1 DEF Hashed, In, Nothing
  <2>4. QED BY <2>1, <2>2, <2>3, <1>c DEF CopyOf
<1>5. ASSUME NEW f \in Files, HashFile(o, f) PROVE CopyOf(o)'
  <2>1. /\ okind[o] = "approve" /\ opc[o] = "hash" /\ HasLease(o) /\ f \in oleft
        /\ opc'[o] = "hash" /\ okind'[o] = okind[o] /\ oscope'[o] = oscope[o]
        /\ UNCHANGED <<orec, record>> /\ oleft' = oleft \ {f}
        /\ blobs' = [blobs EXCEPT ![f] = orec[o].accepted[f]]
    BY <1>5, <1>b DEF HashFile, BlobMatches, At, HasLease
  <2>2. InScope(o)'
    BY <2>1, <1>c DEF CopyOf, InScope, In
  <2>3. Hashed(o)'
    BY <2>1, <1>c DEF CopyOf, Hashed
  <2>4. QED BY <2>1, <2>2, <2>3, <1>c DEF CopyOf
<1>6. CASE CreateBranch(o)
  <2>1. /\ okind[o] = "approve" /\ opc[o] = "hash" /\ HasLease(o) /\ oleft = {}
        /\ opc'[o] = "head" /\ okind'[o] = okind[o] /\ oscope'[o] = oscope[o]
        /\ UNCHANGED <<orec, record, oleft, blobs>>
    BY <1>6, <1>b DEF CreateBranch, At, HasLease
  <2>2. InScope(o)'
    BY <2>1, <1>c DEF CopyOf, InScope, In
  <2>3. Hashed(o)'
    BY <2>1, <1>c DEF CopyOf, Hashed
  <2>4. QED BY <2>1, <2>2, <2>3, <1>c DEF CopyOf
<1>7. CASE MoveHead(o)
  <2>1. /\ okind[o] = "approve" /\ opc[o] = "head" /\ HasLease(o)
        /\ opc'[o] = "save" /\ okind'[o] = okind[o] /\ record' = record
        /\ orec'[o] = [orec[o] EXCEPT !.status = "approved", !.commit = blobs]
    BY <1>7, <1>a, <1>b DEF MoveHead, At, HasLease
  <2>2. orec[o] = record /\ record.status = "pending" /\ oleft = {} /\ Hashed(o)
    BY <2>1, <1>c DEF CopyOf, Proper
  <2>3. blobs = record.accepted
    BY <2>2, <1>a DEF Hashed, Record, Snapshot
  <2>4. SavedBy(o)'
    BY <2>1, <2>2, <2>3 DEF SavedBy
  <2>5. QED BY <2>1, <2>4 DEF CopyOf
<1>8. CASE Reject(o) \/ Discard(o)
  <2>1. PICK st \in {"rejected", "discarded"} :
          /\ okind[o] = (IF st = "rejected" THEN "reject" ELSE "discard")
          /\ opc[o] = "leased" /\ RemoveClone(o, st)
    BY <1>8 DEF Reject, Discard, At
  <2>2. /\ opc'[o] = "save" /\ okind'[o] = okind[o] /\ record' = record
        /\ orec'[o] = [orec[o] EXCEPT !.status = st] /\ HasLease(o)
    BY <2>1, <1>a, <1>b DEF RemoveClone, HasLease
  <2>3. /\ orec[o] = record /\ (st = "rejected" => record.status = "pending")
        /\ (st = "discarded" => record.status # "pending")
    BY <2>1, <2>2, <1>c DEF CopyOf, Proper
  <2>4. record.status \notin {"none", "running"}
    BY <2>2, OneHolder
  <2>5. SavedBy(o)'
    BY <2>1, <2>2, <2>3, <2>4 DEF SavedBy
  <2>6. QED BY <2>2, <2>5, <2>1 DEF CopyOf
<1>9. CASE CheckSource(o)
  BY <1>9, <1>b, <1>c DEF CheckSource, At, HasLease, CopyOf
<1>10. CASE Push(o)
  <2>1. /\ okind[o] = "push" /\ opc[o] = "sending" /\ HasLease(o)
        /\ opc'[o] = "save" /\ okind'[o] = okind[o] /\ record' = record
        /\ orec'[o] = [orec[o] EXCEPT !.pushed = TRUE]
    BY <1>10, <1>a, <1>b DEF Push, At, HasLease
  <2>2. orec[o] = record /\ record.status = "approved"
    BY <2>1, <1>c DEF CopyOf, Proper
  <2>3. SavedBy(o)'
    BY <2>1, <2>2 DEF SavedBy
  <2>4. QED BY <2>1, <2>3 DEF CopyOf
<1>11. CASE PlanWrite(o)
  <2>1. /\ okind[o] = "publish" /\ opc[o] = "leased" /\ HasLease(o) /\ remote = orec[o].commit
        /\ opc'[o] = "planned" /\ okind'[o] = okind[o] /\ UNCHANGED <<record, orec, remote>>
    BY <1>11, <1>b DEF PlanWrite, Publishable, At, HasLease, outVars
  <2>2. QED BY <2>1, <1>c DEF CopyOf
<1>12. CASE ExecuteWrite(o)
  <2>1. PICK pr \in PrStates : orec' = [orec EXCEPT ![o].pr = pr]
    BY <1>12 DEF ExecuteWrite, PrStates
  <2>2. /\ okind[o] = "publish" /\ opc[o] = "planned" /\ HasLease(o)
        /\ opc'[o] = "save" /\ okind'[o] = okind[o] /\ record' = record
        /\ orec'[o] = [orec[o] EXCEPT !.pr = pr]
    BY <1>12, <2>1, <1>a, <1>b DEF ExecuteWrite, At, HasLease
  <2>3. orec[o] = record /\ record.status = "approved"
    BY <2>2, <1>c DEF CopyOf, Proper
  <2>4. SavedBy(o)'
    BY <2>2, <2>3 DEF SavedBy
  <2>5. QED BY <2>2, <2>4 DEF CopyOf
<1>13. CASE Save(o) \/ Exit(o)
  BY <1>13, <1>1 DEF Save, Exit
<1>14. QED
  BY <1>1, <1>2, <1>3, <1>4, <1>5, <1>6, <1>7, <1>8, <1>9, <1>10, <1>11, <1>12, <1>13 DEF Command, Publish

(* A command keeps what it and every other command know.                    *)
LEMMA CopyCommand ==
  ASSUME TypeOK, OwnInv, CopyInv, NEW o \in Ops, Command(o)
  PROVE  CopyInv'
BY CopySelf, CopyOthers, CopyPartsNext

-----------------------------------------------------------------------------
(* Only the accepted content of an approved run reaches origin.             *)

(* A step that leaves the record and origin alone keeps what is true of     *)
(* origin.                                                                  *)
LEMMA OriginQuiet ==
  ASSUME OriginInv, UNCHANGED <<record, remote, opened>>
  PROVE  OriginInv'
BY DEF OriginInv, RemoteIsApproved

(* Before a decision nothing is on origin, so the record may still change.  *)
LEMMA OriginOpen ==
  ASSUME TypeOK, OriginInv, record.status \notin {"approved", "discarded"},
         record'.status # "approved", record'.pushed = record.pushed, UNCHANGED <<remote, opened>>
  PROVE  OriginInv'
BY DEF OriginInv, RemoteIsApproved

(* What happens around the run reaches neither origin nor an approved       *)
(* record.                                                                  *)
LEMMA OriginSurroundings ==
  ASSUME TypeOK, OriginInv, EditPolicy \/ Rewrite \/ Reconcile \/ (\E f \in Files : Tamper(f))
  PROVE  OriginInv'
<1>1. CASE EditPolicy \/ Rewrite \/ (\E f \in Files : Tamper(f))
  BY <1>1, OriginQuiet DEF EditPolicy, Rewrite, Tamper, outVars
<1>2. CASE Reconcile
  BY <1>2, OriginOpen DEF Reconcile, outVars, TypeOK, Record
<1>3. QED BY <1>1, <1>2

(* The worker never approves a run and never pushes.                        *)
LEMMA OriginWorker ==
  ASSUME TypeOK, OwnInv, OriginInv, Worker
  PROVE  OriginInv'
<1>1. WorkerOnly => UNCHANGED <<record, remote, opened>>
  BY DEF WorkerOnly, outVars
<1>2. CASE FetchContext \/ CloneFails \/ Clone \/ WorkerExit \/ Dispose
  BY <1>2, OriginQuiet DEF FetchContext, CloneFails, Clone, WorkerExit, Dispose, WorkerSaves, outVars
<1>3. CASE CloneTimesOut \/ RetryClone \/ Collect \/ Plan \/ Stage \/ Applied \/ RolledBack
           \/ Verify \/ NextIteration \/ LoopError
  BY <1>3, <1>1, OriginQuiet
  DEF CloneTimesOut, RetryClone, Collect, Plan, Stage, Applied, RolledBack, Verify, NextIteration, LoopError
<1>4. ASSUME NEW f \in Files, Install(f) \/ Rollback(f) PROVE OriginInv'
  BY <1>4, <1>1, OriginQuiet DEF Install, Rollback
<1>5. CASE Register
  <2>1. record.status = "none" /\ UNCHANGED <<remote, opened>>
    BY <1>5 DEF Register, OwnInv, outVars
  <2>2. record' = record \/ record' = [record EXCEPT !.status = "running"]
    BY <1>5 DEF Register
  <2>3. QED BY <2>1, <2>2, OriginQuiet, OriginOpen DEF TypeOK, Record
<1>6. CASE SaveExhausted \/ SaveFailed \/ SaveAccepted
  <2>1. record.status = "running" /\ UNCHANGED <<remote, opened>>
    BY <1>6 DEF SaveExhausted, SaveFailed, SaveAccepted, WorkerSaves, OwnInv, Looping, outVars
  <2>2. record'.status # "approved" /\ record'.pushed = record.pushed
    BY <1>6 DEF SaveExhausted, SaveFailed, SaveAccepted, WorkerSaves, TypeOK, Record
  <2>3. QED BY <2>1, <2>2, OriginOpen
<1>7. QED BY <1>2, <1>3, <1>4, <1>5, <1>6 DEF Worker

(* A command pushes the record that it approved, and approves only what it  *)
(* committed.                                                               *)
LEMMA OriginCommand ==
  ASSUME TypeOK, OwnInv, CopyInv, OriginInv, NEW o \in Ops, Command(o)
  PROVE  OriginInv'
<1>a. CopyOf(o)
  BY CopyParts
<1>1. CASE Lease(o) \/ Finalize(o) \/ LockIndex(o) \/ CreateBranch(o) \/ MoveHead(o) \/ Reject(o)
           \/ Discard(o) \/ CheckSource(o) \/ PlanWrite(o) \/ Exit(o)
  BY <1>1, OriginQuiet
  DEF Lease, Finalize, LockIndex, CreateBranch, MoveHead, Reject, Discard, RemoveClone, CheckSource,
    PlanWrite, Exit, outVars
<1>2. CASE (\E f \in Files : HashFile(o, f)) \/ (\E kind \in Kinds : Begin(o, kind))
  BY <1>2, OriginQuiet DEF HashFile, Begin, outVars
<1>3. CASE Push(o)
  <2>1. orec[o] = record /\ record.status = "approved"
    BY <1>3, <1>a DEF Push, At, CopyOf, HasLease, Proper
  <2>2. remote' = record.commit /\ UNCHANGED <<record, opened>>
    BY <1>3, <2>1 DEF Push, Pushed
  <2>3. QED BY <2>1, <2>2 DEF OriginInv, RemoteIsApproved
<1>4. CASE ExecuteWrite(o)
  <2>1. record.pushed
    BY <1>4, <1>a DEF ExecuteWrite, At, CopyOf, HasLease, Proper
  <2>2. UNCHANGED <<record, remote>>
    BY <1>4 DEF ExecuteWrite
  <2>3. QED BY <2>1, <2>2 DEF OriginInv, RemoteIsApproved
<1>5. CASE Save(o)
  <2>1. SavedBy(o) /\ record' = orec[o] /\ UNCHANGED <<remote, opened>> /\ okind[o] \in Kinds
    BY <1>5, <1>a DEF Save, CopyOf, HasLease, outVars, TypeOK
  <2>2. CASE okind[o] = "approve"
    BY <2>1, <2>2 DEF SavedBy, OriginInv, RemoteIsApproved, TypeOK, Record
  <2>3. CASE okind[o] = "reject"
    BY <2>1, <2>3 DEF SavedBy, OriginInv, RemoteIsApproved, TypeOK, Record
  <2>4. CASE okind[o] = "push"
    BY <2>1, <2>4 DEF SavedBy, OriginInv, RemoteIsApproved, TypeOK, Record
  <2>5. CASE okind[o] = "publish"
    BY <2>1, <2>5 DEF SavedBy, OriginInv, RemoteIsApproved, TypeOK, Record
  <2>6. CASE okind[o] = "discard"
    BY <2>1, <2>6 DEF SavedBy, OriginInv, RemoteIsApproved, TypeOK, Record
  <2>7. QED BY <2>1, <2>2, <2>3, <2>4, <2>5, <2>6 DEF Kinds
<1>6. QED BY <1>1, <1>2, <1>3, <1>4, <1>5 DEF Command, Publish

-----------------------------------------------------------------------------
(* What is offered is what was verified.                                    *)

(* The places of a worker at which a file that no iteration wrote is still  *)
(* the base's.                                                              *)
Clean == (Looping \ {"install", "rollback"}) \cup {"none", "context", "cloned"}

(* A step that moves a worker between clean places and writes nothing.      *)
LEMMA TreeMoves ==
  ASSUME TreeInv, wpc \in Clean, UNCHANGED <<record, tree, dirty, written>>,
         wpc' \in (Clean \ {"accepted"}) \cup {"exhausted", "failed", "quarantined", "dispose"}
  PROVE  TreeInv'
BY DEF TreeInv, Clean, Looping

(* A worker that is over claims nothing about the working tree.             *)
LEMMA TreeOver ==
  ASSUME wpc' = "over"
  PROVE  TreeInv'
BY DEF TreeInv, Looping

(* A step that leaves the tree and the worker alone keeps what the worker   *)
(* knows of the tree.                                                       *)
LEMMA TreeQuiet ==
  ASSUME TreeInv, UNCHANGED <<tree, workVars, dirty>>,
         record'.status \in {"pending", "approved"} => wpc = "over"
  PROVE  TreeInv'
BY DEF TreeInv, workVars, planVars

(* An outside edit marks the file it touches, so what is known of the other *)
(* files stays true.                                                        *)
LEMMA TreeSurroundings ==
  ASSUME TypeOK, TreeInv, EditPolicy \/ Rewrite \/ Reconcile \/ (\E f \in Files : Tamper(f))
  PROVE  TreeInv'
<1>1. CASE EditPolicy \/ Rewrite
  BY <1>1, TreeQuiet DEF EditPolicy, Rewrite, envVars, TreeInv
<1>2. CASE Reconcile
  BY <1>2, TreeQuiet DEF Reconcile, envVars, TypeOK, Record
<1>3. ASSUME NEW f \in Files, Tamper(f) PROVE TreeInv'
  <2>1. /\ UNCHANGED <<record, wpc, expected, installed, written, verified>>
        /\ \A g \in Files : g # f => tree'[g] = tree[g]
        /\ dirty' = IF wpc = "over" THEN dirty ELSE dirty \cup {f}
    BY <1>3 DEF Tamper, workVars, planVars, TypeOK
  <2>2. CASE wpc = "over"
    BY <2>1, <2>2, TreeOver
  <2>3. CASE wpc # "over"
    <3>1. \A g \in Files \ dirty' : g \in Files \ dirty /\ tree'[g] = tree[g]
      BY <2>1, <2>3
    <3>2. QED BY <2>1, <2>3, <3>1 DEF TreeInv
  <2>4. QED BY <2>2, <2>3
<1>4. QED BY <1>1, <1>2, <1>3

(* A command touches the tree only under the lease, when no worker is at    *)
(* work.                                                                    *)
LEMMA TreeCommand ==
  ASSUME TypeOK, OwnInv, CopyInv, TreeInv, NEW o \in Ops, Command(o)
  PROVE  TreeInv'
<1>1. CASE Lease(o) \/ Finalize(o) \/ LockIndex(o) \/ CreateBranch(o) \/ MoveHead(o)
           \/ CheckSource(o) \/ Push(o) \/ PlanWrite(o) \/ ExecuteWrite(o) \/ Exit(o)
  BY <1>1, TreeQuiet
  DEF Lease, Finalize, LockIndex, CreateBranch, MoveHead, CheckSource, Push, PlanWrite, ExecuteWrite,
    Exit, envVars, TreeInv
<1>2. CASE (\E f \in Files : HashFile(o, f)) \/ (\E kind \in Kinds : Begin(o, kind))
  BY <1>2, TreeQuiet DEF HashFile, Begin, envVars, TreeInv
<1>3. CASE Reject(o) \/ Discard(o)
  <2>1. HasLease(o) /\ UNCHANGED <<record, workVars, dirty>> /\ tree' = BaseTree
    BY <1>3 DEF Reject, Discard, RemoveClone, Removed, At, HasLease, envVars
  <2>2. wpc \notin Holding
    BY <2>1, OneHolder
  <2>3. QED BY <2>1, <2>2 DEF TreeInv, Holding, Looping, workVars, planVars
<1>4. CASE Save(o)
  <2>1. HasLease(o) /\ opc[o] = "save" /\ record' = orec[o] /\ UNCHANGED <<tree, workVars, dirty>>
    BY <1>4 DEF Save, HasLease, envVars
  <2>2. SavedBy(o) /\ okind[o] \in Kinds
    BY <2>1 DEF CopyInv, TypeOK
  <2>3. orec[o].status \in {"pending", "approved"} => record.status \in {"pending", "approved"}
    BY <2>2 DEF SavedBy, TypeOK, Record, Kinds
  <2>4. QED BY <2>1, <2>3, TreeQuiet DEF TreeInv
<1>5. QED BY <1>1, <1>2, <1>3, <1>4 DEF Command, Publish

(* The worker knows which files it installed, rolled back and verified.     *)
LEMMA TreeWorker ==
  ASSUME TypeOK, OwnInv, TreeInv, Worker
  PROVE  TreeInv'
<1>a. WorkerOnly => UNCHANGED <<record, dirty>>
  BY DEF WorkerOnly, envVars
<1>1. CASE FetchContext
  <2>1. wpc = "none" /\ wpc' \in {"over", "context"} /\ UNCHANGED <<record, tree, dirty, written>>
    BY <1>1 DEF FetchContext, envVars
  <2>2. QED BY <2>1, TreeOver, TreeMoves DEF Clean, Looping
<1>2. CASE CloneTimesOut \/ RetryClone
  BY <1>2, <1>a, TreeMoves DEF CloneTimesOut, RetryClone, Clean, Looping
<1>3. CASE CloneFails \/ WorkerExit \/ Dispose \/ SaveExhausted \/ SaveAccepted
  BY <1>3, TreeOver DEF CloneFails, WorkerExit, Dispose, SaveExhausted, SaveAccepted, WorkerSaves
<1>4. CASE Clone
  BY <1>4, TreeMoves DEF Clone, envVars, Clean, Looping
<1>5. CASE Register
  <2>1. CASE wpc' = "over"
    BY <2>1, TreeOver
  <2>2. CASE wpc' = "collect" /\ record' = [record EXCEPT !.status = "running"]
             /\ UNCHANGED <<tree, written>>
    <3>1. wpc = "cloned" /\ UNCHANGED dirty /\ record'.status = "running"
      BY <1>5, <2>2 DEF Register, envVars, TypeOK, Record
    <3>2. QED BY <2>2, <3>1 DEF TreeInv, Looping
  <2>3. QED BY <1>5, <2>1, <2>2 DEF Register
<1>6. CASE Collect \/ Plan
  BY <1>6, <1>a, TreeMoves DEF Collect, Plan, Clean, Looping
<1>7. CASE Stage
  <2>1. wpc = "check" /\ wpc' \in {"install", "rejected"} /\ installed' = {}
        /\ UNCHANGED <<record, dirty, tree, written>>
    BY <1>7, <1>a DEF Stage
  <2>2. QED BY <2>1 DEF TreeInv, Looping
<1>8. CASE Applied
  <2>1. wpc = "install" /\ wpc' = "verify" /\ written' = written \cup installed
        /\ UNCHANGED <<record, dirty, tree>>
    BY <1>8, <1>a DEF Applied
  <2>2. QED BY <2>1 DEF TreeInv, Looping
<1>9. CASE RolledBack
  <2>1. wpc = "rollback" /\ wpc' = "rejected" /\ installed = {} /\ UNCHANGED <<record, dirty, tree, written>>
    BY <1>9, <1>a DEF RolledBack
  <2>2. QED BY <2>1 DEF TreeInv, Looping
<1>10. CASE Verify
  <2>1. wpc = "verify" /\ wpc' \in {"failed", "accepted", "rejected"} /\ verified' = tree
        /\ UNCHANGED <<record, dirty, tree, written>>
    BY <1>10, <1>a DEF Verify, Judged
  <2>2. QED BY <2>1 DEF TreeInv, Looping
<1>11. CASE NextIteration
  <2>1. wpc = "rejected" /\ UNCHANGED <<record, dirty, written>>
        /\ ((wpc' = "collect" /\ tree' = tree) \/ wpc' = "exhausted")
    BY <1>11, <1>a DEF NextIteration
  <2>2. QED BY <2>1 DEF TreeInv, Looping
<1>12. CASE LoopError
  <2>1. wpc' = "failed" /\ wpc \in {"collect", "plan", "verify"} /\ UNCHANGED record
    BY <1>12, <1>a DEF LoopError
  <2>2. QED BY <2>1 DEF TreeInv, Looping
<1>13. CASE SaveFailed
  <2>1. wpc' \in {"over", "dispose"} /\ record'.status = "failed"
    BY <1>13 DEF SaveFailed, WorkerSaves, TypeOK, Record
  <2>2. QED BY <2>1 DEF TreeInv, Looping
<1>14. ASSUME NEW f \in Files, Install(f) PROVE TreeInv'
  <2>1. wpc = "install" /\ UNCHANGED <<record, dirty, expected, written>>
    BY <1>14, <1>a DEF Install
  <2>2. CASE /\ tree[f] = expected[f] /\ tree' = [tree EXCEPT ![f] = prop[f]]
             /\ installed' = installed \cup {f} /\ wpc' = wpc /\ f \notin installed
    <3>1. \A g \in Files : g # f => tree'[g] = tree[g]
      BY <2>2 DEF TypeOK
    <3>2. QED BY <2>1, <2>2, <3>1 DEF TreeInv, Looping
  <2>3. CASE wpc' = "rollback" /\ UNCHANGED <<tree, installed>>
    BY <2>1, <2>3 DEF TreeInv, Looping
  <2>4. QED BY <1>14, <2>2, <2>3 DEF Install
<1>15. ASSUME NEW f \in Files, Rollback(f) PROVE TreeInv'
  <2>1. wpc = "rollback" /\ UNCHANGED <<record, dirty, expected, written>> /\ f \in installed
    BY <1>15, <1>a DEF Rollback
  <2>2. CASE tree' = [tree EXCEPT ![f] = expected[f]] /\ installed' = installed \ {f} /\ wpc' = wpc
    <3>1. /\ \A g \in Files : g # f => tree'[g] = tree[g]
          /\ tree'[f] = expected[f]
      BY <2>2 DEF TypeOK
    <3>2. QED BY <2>1, <2>2, <3>1 DEF TreeInv, Looping
  <2>3. CASE wpc' = "quarantined"
    BY <2>1, <2>3 DEF TreeInv, Looping
  <2>4. QED BY <1>15, <2>2, <2>3 DEF Rollback
<1>16. QED
  BY <1>1, <1>2, <1>3, <1>4, <1>5, <1>6, <1>7, <1>8, <1>9, <1>10, <1>11, <1>12, <1>13, <1>14, <1>15 DEF Worker

(* What is offered stays what was verified: files enter dirty, none leaves. *)
LEMMA VerifiedQuiet ==
  ASSUME AcceptedIsVerified, UNCHANGED verified, dirty \subseteq dirty',
         record'.status \in {"pending", "approved"} =>
           record.status \in {"pending", "approved"} /\ record'.accepted = record.accepted
  PROVE  AcceptedIsVerified'
BY DEF AcceptedIsVerified

(* What happens around the run changes neither the verification nor the     *)
(* accepted content of an offered run.                                      *)
LEMMA VerifiedSurroundings ==
  ASSUME TypeOK, AcceptedIsVerified, EditPolicy \/ Rewrite \/ Reconcile \/ (\E f \in Files : Tamper(f))
  PROVE  AcceptedIsVerified'
<1>1. CASE EditPolicy \/ Rewrite
  BY <1>1, VerifiedQuiet DEF EditPolicy, Rewrite, envVars, workVars
<1>2. CASE Reconcile
  BY <1>2, VerifiedQuiet DEF Reconcile, envVars, workVars, TypeOK, Record
<1>3. CASE \E f \in Files : Tamper(f)
  BY <1>3, VerifiedQuiet DEF Tamper, workVars
<1>4. QED BY <1>1, <1>2, <1>3

(* A command decides about the accepted content and never changes it.       *)
LEMMA VerifiedCommand ==
  ASSUME TypeOK, CopyInv, AcceptedIsVerified, NEW o \in Ops, Command(o)
  PROVE  AcceptedIsVerified'
<1>1. CASE Lease(o) \/ Finalize(o) \/ LockIndex(o) \/ CreateBranch(o) \/ MoveHead(o) \/ Reject(o)
           \/ Discard(o) \/ CheckSource(o) \/ Push(o) \/ PlanWrite(o) \/ ExecuteWrite(o) \/ Exit(o)
  BY <1>1, VerifiedQuiet
  DEF Lease, Finalize, LockIndex, CreateBranch, MoveHead, Reject, Discard, RemoveClone, CheckSource, Push,
    PlanWrite, ExecuteWrite, Exit, envVars, workVars
<1>2. CASE (\E f \in Files : HashFile(o, f)) \/ (\E kind \in Kinds : Begin(o, kind))
  BY <1>2, VerifiedQuiet DEF HashFile, Begin, envVars, workVars
<1>3. CASE Save(o)
  <2>1. record' = orec[o] /\ UNCHANGED <<verified, dirty>>
    BY <1>3 DEF Save, envVars, workVars
  <2>2. SavedBy(o) /\ okind[o] \in Kinds
    BY <1>3 DEF Save, CopyInv, HasLease, TypeOK
  <2>3. orec[o].status \in {"pending", "approved"} =>
          record.status \in {"pending", "approved"} /\ orec[o].accepted = record.accepted
    BY <2>2 DEF SavedBy, TypeOK, Record, Kinds
  <2>4. QED BY <2>1, <2>3, VerifiedQuiet
<1>4. QED BY <1>1, <1>2, <1>3 DEF Command, Publish

(* A live worker has offered nothing yet; when it offers, TreeInv says that *)
(* the files it wrote and the base are what the last verification saw.      *)
LEMMA VerifiedWorker ==
  ASSUME TypeOK, OwnInv, TreeInv, AcceptedIsVerified, Worker
  PROVE  AcceptedIsVerified'
<1>1. wpc # "over"
  BY DEF Worker, FetchContext, CloneTimesOut, RetryClone, CloneFails, Clone, Register, Collect, Plan,
    Stage, Applied, RolledBack, Verify, NextIteration, LoopError, SaveExhausted, SaveFailed, Dispose,
    SaveAccepted, WorkerExit, Install, Rollback
<1>2. record.status \notin {"pending", "approved"}
  BY <1>1 DEF TreeInv
<1>3. CASE SaveAccepted
  <2>1. /\ wpc = "accepted" /\ UNCHANGED <<verified, dirty>>
        /\ record' = [record EXCEPT !.status = "pending",
                        !.accepted = [f \in Files |-> IF f \in written THEN tree[f] ELSE Keep]]
    BY <1>3 DEF SaveAccepted, WorkerSaves, ChangedFiles, envVars, TypeOK, Record
  <2>2. record'.accepted = [f \in Files |-> IF f \in written THEN tree[f] ELSE Keep]
    BY <2>1 DEF TypeOK, Record
  <2>3. \A f \in Files : tree[f] # Keep
    BY ContentAssumption DEF TypeOK
  <2>4. /\ \A f \in Files \ dirty : verified[f] = tree[f]
        /\ \A f \in Files \ (dirty \cup written) : tree[f] = BaseTree[f]
    BY <2>1 DEF TreeInv, Looping
  <2>5. QED BY <2>1, <2>2, <2>3, <2>4 DEF AcceptedIsVerified
<1>4. CASE ~SaveAccepted
  <2>1. record'.status \notin {"pending", "approved"}
    <3>1. WorkerOnly => UNCHANGED record
      BY DEF WorkerOnly
    <3>2. record' \in {record, [record EXCEPT !.status = "running"], [record EXCEPT !.status = "exhausted"],
                        [record EXCEPT !.status = "failed"]}
      BY <1>4, <3>1
      DEF Worker, FetchContext, CloneTimesOut, RetryClone, CloneFails, Clone, Register, Collect, Plan,
        Stage, Applied, RolledBack, Verify, NextIteration, LoopError, SaveExhausted, SaveFailed, Dispose,
        WorkerExit, Install, Rollback, WorkerSaves
    <3>3. QED BY <1>2, <3>2 DEF TypeOK, Record
  <2>2. QED BY <2>1 DEF AcceptedIsVerified
<1>5. QED BY <1>3, <1>4

-----------------------------------------------------------------------------
(* The inductive invariant.                                                 *)

LEMMA CodingInit == Init => CodingInv
<1> SUFFICES ASSUME Init PROVE CodingInv
  OBVIOUS
<1>1. record.status = "none" /\ wpc = "none" /\ \A o \in Ops : opc[o] = "idle"
  BY DEF Init, NoRecord
<1>2. OwnInv
  BY <1>1 DEF OwnInv, HasLease, Holding, Looping
<1>3. CopyInv
  BY <1>1 DEF CopyInv, HasLease
<1>4. OriginInv
  BY <1>1 DEF OriginInv, RemoteIsApproved, Init
<1>5. TreeInv /\ AcceptedIsVerified
  BY <1>1 DEF TreeInv, AcceptedIsVerified, Init, Looping
<1>6. QED BY <1>2, <1>3, <1>4, <1>5 DEF CodingInv

(* Every step keeps the invariant.                                          *)
LEMMA CodingStep == TypeOK /\ CodingInv /\ [Next]_vars => CodingInv'
<1> SUFFICES ASSUME TypeOK, CodingInv, [Next]_vars PROVE CodingInv'
  OBVIOUS
<1> USE DEF CodingInv
<1>1. CASE EditPolicy \/ Rewrite \/ Reconcile \/ (\E f \in Files : Tamper(f))
  BY <1>1, OwnSurroundings, CopySurroundings, OriginSurroundings, TreeSurroundings, VerifiedSurroundings
<1>2. CASE Worker
  BY <1>2, OwnWorker, CopyWorker, OriginWorker, TreeWorker, VerifiedWorker
<1>3. ASSUME NEW o \in Ops, Command(o) PROVE CodingInv'
  BY <1>3, OwnCommand, CopyCommand, OriginCommand, TreeCommand, VerifiedCommand
<1>4. CASE UNCHANGED vars
  <2> USE <1>4 DEF vars, gitVars, outVars, opVars, envVars
  <2>1. OwnInv'
    BY OwnQuiet DEF workVars
  <2>2. CopyInv'
    BY CopyQuiet
  <2>3. OriginInv'
    BY OriginQuiet
  <2>4. TreeInv'
    BY TreeQuiet DEF TreeInv
  <2>5. AcceptedIsVerified'
    BY VerifiedQuiet DEF workVars
  <2>6. QED BY <2>1, <2>2, <2>3, <2>4, <2>5
<1>5. QED BY <1>1, <1>2, <1>3, <1>4 DEF Next

(* The inductive invariant of a coding run holds throughout: one owner of   *)
(* the lease, commands whose copies are current while they hold it, an      *)
(* origin that only an approved run reaches, a worker that knows its tree,  *)
(* and an accepted content that was verified.                               *)
THEOREM CodingInvariant == Spec => []CodingInv
BY TypeCorrect, CodingInit, CodingStep, PTL DEF Spec

(* A live worker keeps its run, and origin never has anything but the       *)
(* accepted content of an approved run, for any number of commands, files,  *)
(* iterations and outside changes.                                          *)
THEOREM RunRecordsAreSound == Spec => []RunRecordsHold
<1>1. CodingInv => RunRecordsHold
  BY DEF CodingInv, OwnInv, OriginInv, RunRecordsHold, LiveRunIsOwned, Holding
<1>2. QED BY CodingInvariant, <1>1, PTL

(* What is offered for a decision was verified.                             *)
THEOREM OfferedIsVerified == Spec => []AcceptedIsVerified
BY CodingInvariant, PTL DEF CodingInv

-----------------------------------------------------------------------------
(* The branch is made by one step, from an index that holds what was        *)
(* accepted.                                                                *)
THEOREM CommitsAreAccepted == Spec => CommitIsAccepted
<1> DEFINE Made == /\ record.status = "pending" /\ branch' = record.accepted
                   /\ lease \in Ops /\ In(record.accepted) \cap oscope[lease] = {}
<1>1. ASSUME TypeOK, CodingInv, [Next]_vars, branch = NoCommit, branch' # NoCommit
      PROVE  Made
  <2>1. ASSUME NEW o \in Ops, CreateBranch(o) PROVE Made
    <3>1. okind[o] = "approve" /\ opc[o] = "hash" /\ HasLease(o) /\ oleft = {} /\ branch' = blobs
      BY <2>1 DEF CreateBranch, At, HasLease
    <3>2. orec[o] = record /\ Proper(okind[o], record) /\ InScope(o) /\ Hashed(o)
      BY <1>1, <3>1 DEF CodingInv, CopyInv
    <3>3. lease = o
      BY <1>1, <3>1 DEF CodingInv, OwnInv
    <3>4. blobs = record.accepted
      BY <1>1, <3>1, <3>2 DEF Hashed, TypeOK, Record, Snapshot
    <3>5. QED BY <3>1, <3>2, <3>3, <3>4 DEF Proper, InScope
  <2>2. UNCHANGED gitVars => FALSE
    BY <1>1 DEF gitVars
  <2>3. WorkerOnly => FALSE
    BY <2>2 DEF WorkerOnly
  <2>4. ~Worker
    BY <2>2, <2>3
    DEF Worker, FetchContext, CloneTimesOut, RetryClone, CloneFails, Clone, Register, Collect, Plan,
      Stage, Applied, RolledBack, Verify, NextIteration, LoopError, SaveExhausted, SaveFailed, Dispose,
      SaveAccepted, WorkerExit, Install, Rollback, WorkerSaves
  <2>5. ~(EditPolicy \/ Rewrite \/ Reconcile \/ (\E f \in Files : Tamper(f)))
    BY <1>1, <2>2 DEF EditPolicy, Rewrite, Reconcile, Tamper
  <2>6. PICK o \in Ops : Command(o)
    BY <1>1, <2>2, <2>4, <2>5 DEF Next, vars
  <2>7. CreateBranch(o)
    BY <1>1, <2>2, <2>6
    DEF Command, Lease, Finalize, LockIndex, MoveHead, Reject, Discard, RemoveClone, CheckSource,
      Push, Publish, PlanWrite, ExecuteWrite, Save, Exit, HashFile, Begin
  <2>8. QED BY <2>1, <2>7
<1>2. TypeOK /\ CodingInv /\ [Next]_vars => [branch = NoCommit /\ branch' # NoCommit => Made]_vars
  BY <1>1
<1>3. QED BY TypeCorrect, CodingInvariant, <1>2, PTL DEF Spec, CommitIsAccepted

-----------------------------------------------------------------------------
(* The detailed run implements RunPromise.                                  *)

(* A step that leaves the record, origin and the pull request alone is a    *)
(* stutter of the promise.                                                  *)
LEMMA PromiseQuiet ==
  ASSUME UNCHANGED <<record, remote, opened>>
  PROVE  UNCHANGED Promise!promiseVars
BY DEF Promise!promiseVars, Phase

(* The worker offers or closes the run, or nothing of it is seen.           *)
LEMMA PromiseWorker ==
  ASSUME TypeOK, OwnInv, Worker
  PROVE  Promise!Offer \/ Promise!Close \/ UNCHANGED Promise!promiseVars
<1>1. WorkerOnly => UNCHANGED <<record, remote, opened>>
  BY DEF WorkerOnly, outVars
<1>2. CASE FetchContext \/ CloneFails \/ Clone \/ WorkerExit \/ Dispose
  BY <1>2, PromiseQuiet DEF FetchContext, CloneFails, Clone, WorkerExit, Dispose, WorkerSaves, outVars
<1>3. CASE CloneTimesOut \/ RetryClone \/ Collect \/ Plan \/ Stage \/ Applied \/ RolledBack
           \/ Verify \/ NextIteration \/ LoopError
  BY <1>3, <1>1, PromiseQuiet
  DEF CloneTimesOut, RetryClone, Collect, Plan, Stage, Applied, RolledBack, Verify, NextIteration, LoopError
<1>4. CASE \E f \in Files : Install(f) \/ Rollback(f)
  BY <1>4, <1>1, PromiseQuiet DEF Install, Rollback
<1>5. CASE Register
  <2>1. record.status = "none" /\ UNCHANGED <<remote, opened>>
    BY <1>5 DEF Register, OwnInv, outVars
  <2>2. CASE UNCHANGED record
    BY <2>1, <2>2, PromiseQuiet
  <2>3. CASE record' = [record EXCEPT !.status = "running"]
    <3>1. record'.status = "running" /\ record'.accepted = record.accepted
      BY <2>3 DEF TypeOK, Record
    <3>2. QED BY <2>1, <3>1 DEF Phase, Promise!promiseVars
  <2>4. QED BY <1>5, <2>2, <2>3 DEF Register
<1>6. CASE SaveExhausted \/ SaveFailed
  <2>1. record.status = "running" /\ UNCHANGED <<remote, opened>>
    BY <1>6 DEF SaveExhausted, SaveFailed, WorkerSaves, OwnInv, outVars
  <2>2. record'.status \in {"exhausted", "failed"} /\ record'.accepted = record.accepted
    BY <1>6 DEF SaveExhausted, SaveFailed, WorkerSaves, TypeOK, Record
  <2>3. QED BY <2>1, <2>2 DEF Phase, Promise!Close
<1>7. CASE SaveAccepted
  <2>1. record.status = "running" /\ UNCHANGED <<remote, opened>>
    BY <1>7 DEF SaveAccepted, WorkerSaves, OwnInv, Looping, outVars
  <2>2. record'.status = "pending" /\ record'.accepted \in Snapshot
    BY <1>7 DEF SaveAccepted, WorkerSaves, TypeOK, Record, Snapshot
  <2>3. QED BY <2>1, <2>2 DEF Phase, Promise!Offer
<1>8. QED BY <1>2, <1>3, <1>4, <1>5, <1>6, <1>7 DEF Worker

(* A command decides or throws the run away when it saves, sends when it    *)
(* pushes, and announces when it opens the pull request.                    *)
LEMMA PromiseCommand ==
  ASSUME TypeOK, CodingInv, NEW o \in Ops, Command(o)
  PROVE  [Promise!PromiseNext]_Promise!promiseVars
<1> USE DEF Promise!PromiseNext
<1>a. /\ HasLease(o) /\ opc[o] # "save" => orec[o] = record /\ Proper(okind[o], record)
      /\ okind[o] = "publish" /\ opc[o] = "planned" => remote = record.commit
  BY DEF CodingInv, CopyInv, HasLease
<1>b. /\ record.status = "approved" => record.commit = record.accepted
      /\ record.accepted # NoCommit
  BY CommitAssumption DEF CodingInv, OriginInv, TypeOK, Record, Snapshot
<1>1. CASE Lease(o) \/ Finalize(o) \/ LockIndex(o) \/ CreateBranch(o) \/ MoveHead(o) \/ Reject(o)
           \/ Discard(o) \/ CheckSource(o) \/ PlanWrite(o) \/ Exit(o)
  BY <1>1, PromiseQuiet
  DEF Lease, Finalize, LockIndex, CreateBranch, MoveHead, Reject, Discard, RemoveClone, CheckSource,
    PlanWrite, Exit, outVars
<1>2. CASE (\E f \in Files : HashFile(o, f)) \/ (\E kind \in Kinds : Begin(o, kind))
  BY <1>2, PromiseQuiet DEF HashFile, Begin, outVars
<1>3. CASE Push(o)
  <2>1. orec[o] = record /\ record.status = "approved"
    BY <1>3, <1>a DEF Push, At, HasLease, Proper
  <2>2. remote' = record.accepted /\ UNCHANGED <<record, opened>>
    BY <1>3, <2>1, <1>b DEF Push, Pushed
  <2>3. Promise!Send
    BY <2>1, <2>2, <1>b DEF Promise!Send, Phase
  <2>4. QED BY <2>3
<1>4. CASE ExecuteWrite(o)
  <2>1. record.status = "approved" /\ remote = record.accepted /\ UNCHANGED <<record, remote>>
    BY <1>4, <1>a, <1>b DEF ExecuteWrite, At, HasLease, Proper
  <2>2. CASE UNCHANGED opened
    BY <2>1, <2>2, PromiseQuiet
  <2>3. CASE ~opened /\ opened' = TRUE
    <3>1. Promise!Announce
      BY <2>1, <2>3, <1>b DEF Promise!Announce, Phase
    <3>2. QED BY <3>1
  <2>4. QED BY <1>4, <2>2, <2>3 DEF ExecuteWrite
<1>5. CASE Save(o)
  <2>1. record' = orec[o] /\ UNCHANGED <<remote, opened>> /\ SavedBy(o) /\ okind[o] \in Kinds
    BY <1>5 DEF Save, CodingInv, CopyInv, HasLease, outVars, TypeOK
  <2>2. CASE okind[o] \in {"approve", "reject"}
    <3>1. record.status = "pending" /\ record'.status \in {"approved", "rejected"}
          /\ record'.accepted = record.accepted
      BY <2>1, <2>2 DEF SavedBy, TypeOK, Record
    <3>2. Promise!Decide
      BY <2>1, <3>1 DEF Promise!Decide, Phase
    <3>3. QED BY <3>2
  <2>3. CASE okind[o] \in {"push", "publish"}
    <3>1. record'.status = record.status /\ record'.accepted = record.accepted
      BY <2>1, <2>3 DEF SavedBy, TypeOK, Record
    <3>2. QED BY <2>1, <3>1 DEF Promise!promiseVars, Phase
  <2>4. CASE okind[o] = "discard"
    <3>1. /\ record.status \in Statuses \ {"none", "running", "pending"}
          /\ record'.status = "discarded" /\ record'.accepted = record.accepted
      BY <2>1, <2>4 DEF SavedBy, TypeOK, Record
    <3>2. CASE record.status = "discarded"
      BY <2>1, <3>1, <3>2 DEF Promise!promiseVars, Phase
    <3>3. CASE record.status # "discarded"
      <4>1. Promise!Throw
        BY <2>1, <3>1, <3>3 DEF Promise!Throw, Phase, Statuses, Settled
      <4>2. QED BY <4>1
    <3>4. QED BY <3>2, <3>3
  <2>5. QED BY <2>1, <2>2, <2>3, <2>4 DEF Kinds
<1>6. QED BY <1>1, <1>2, <1>3, <1>4, <1>5 DEF Command, Publish

(* However commands, deaths, outside changes and policy edits interleave,   *)
(* the run offers one candidate, decides it once, and shows nothing else.   *)
THEOREM RunKeepsPromise == Spec => KeepsPromise
<1>1. Init => Promise!PromiseInit
  BY DEF Init, NoRecord, Promise!PromiseInit, Phase
<1>2. TypeOK /\ CodingInv /\ [Next]_vars => [Promise!PromiseNext]_Promise!promiseVars
  <2> SUFFICES ASSUME TypeOK, CodingInv, [Next]_vars
               PROVE  [Promise!PromiseNext]_Promise!promiseVars
    OBVIOUS
  <2>1. CASE Worker
    BY <2>1, PromiseWorker DEF CodingInv, Promise!PromiseNext
  <2>2. CASE EditPolicy \/ Rewrite \/ (\E f \in Files : Tamper(f))
    BY <2>2, PromiseQuiet DEF EditPolicy, Rewrite, Tamper, outVars
  <2>3. CASE Reconcile
    <3>1. /\ record.status = "running" /\ record'.status = "interrupted"
          /\ record'.accepted = record.accepted /\ UNCHANGED <<remote, opened>>
      BY <2>3 DEF Reconcile, outVars, TypeOK, Record
    <3>2. Promise!Close
      BY <3>1 DEF Phase, Promise!Close
    <3>3. QED BY <3>2 DEF Promise!PromiseNext
  <2>4. CASE \E o \in Ops : Command(o)
    BY <2>4, PromiseCommand
  <2>5. CASE UNCHANGED vars
    BY <2>5, PromiseQuiet DEF vars, outVars
  <2>6. QED BY <2>1, <2>2, <2>3, <2>4, <2>5 DEF Next
<1>3. QED
  BY TypeCorrect, CodingInvariant, <1>1, <1>2, PTL DEF Spec, KeepsPromise, Promise!PromiseSpec
===============================================================================
