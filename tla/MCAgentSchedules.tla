-------------------------- MODULE MCAgentSchedules --------------------------
(* Small instances of AgentSchedules for TLC.                               *)
EXTENDS AgentSchedules

CONSTANT alice

MCOwnerOf == [i \in Ids |-> alice]

(* A calendar exhausted after its last instant.                             *)
Calendar == {1, 3}
MCCalendarNext == [t \in 0..Horizon |->
  IF \E c \in Calendar : c > t
  THEN CHOOSE c \in Calendar : c > t /\ \A d \in Calendar : d > t => c <= d
  ELSE 0]
=============================================================================
