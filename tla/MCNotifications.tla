-------------------------- MODULE MCNotifications --------------------------
(* Small instances of Notifications for TLC.                                *)
EXTENDS Notifications

CONSTANTS alice, bob, hookA, hookB

(* One owner, one destination: every event goes to it.                      *)
OneOwner == [d \in Dests |-> alice]
OneTarget == [e \in OutboxEvents |-> Dests]

(* Two owners with a destination each; the first event is alice's.          *)
TwoOwners == [d \in Dests |-> IF d = hookA THEN alice ELSE bob]
TwoTargets == [e \in OutboxEvents |-> IF e = 1 THEN {hookA} ELSE {hookB}]
=============================================================================
