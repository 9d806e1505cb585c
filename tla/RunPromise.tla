----------------------------- MODULE RunPromise -----------------------------
(***************************************************************************)
(* What a governed coding run promises, whatever its processes do: one     *)
(* candidate is offered at most once, decided at most once, and origin and *)
(* its pull request never show anything but the candidate that was         *)
(* approved.  There are no files, leases, processes or failures here.      *)
(***************************************************************************)
CONSTANTS Candidates, \* what may be offered
          NoCandidate

VARIABLES phase,     \* of the run
          candidate, \* what was offered
          origin,    \* what the branch on origin holds
          announced  \* there is a pull request

promiseVars == <<phase, candidate, origin, announced>>

PromiseInit ==
  phase = "open" /\ candidate = NoCandidate /\ origin = NoCandidate /\ announced = FALSE

(* A worker that gave a verified candidate up for a decision, or did not.   *)
Offer ==
  /\ phase = "open" /\ phase' = "pending" /\ candidate' \in Candidates
  /\ UNCHANGED <<origin, announced>>
Close == phase = "open" /\ phase' = "closed" /\ UNCHANGED <<candidate, origin, announced>>

Decide ==
  /\ phase = "pending" /\ phase' \in {"approved", "rejected"}
  /\ UNCHANGED <<candidate, origin, announced>>

(* Only what was approved leaves the machine, and may be sent again.        *)
Send ==
  /\ phase = "approved" /\ origin' = candidate
  /\ UNCHANGED <<phase, candidate, announced>>
Announce ==
  /\ phase = "approved" /\ origin = candidate /\ ~announced /\ announced' = TRUE
  /\ UNCHANGED <<phase, candidate, origin>>

Throw ==
  /\ phase \in {"approved", "rejected", "closed"} /\ phase' = "discarded"
  /\ UNCHANGED <<candidate, origin, announced>>

PromiseNext == Offer \/ Close \/ Decide \/ Send \/ Announce \/ Throw
PromiseSpec == PromiseInit /\ [][PromiseNext]_promiseVars
=============================================================================
