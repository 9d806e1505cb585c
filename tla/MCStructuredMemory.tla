------------------------- MODULE MCStructuredMemory -------------------------
(* A small instance of StructuredMemory for TLC: two owners, one fact each.  *)
EXTENDS StructuredMemory

CONSTANTS alice, bob, f1, f3

MCFactOwner == [f \in FactIds |-> IF f = f3 THEN bob ELSE alice]
MCProposalOwner == [p \in ProposalIds |-> alice]
MCEpisodeOwner == [e \in EpisodeIds |-> alice]
=============================================================================
