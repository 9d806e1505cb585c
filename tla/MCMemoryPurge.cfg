CONSTANTS
  alice = alice
  bob = bob
  f1 = f1
  f3 = f3
  Owners = {alice, bob}
  FactIds = {f1, f3}
  ProposalIds = {"p1", "p2"}
  EpisodeIds = {"e1", "e2"}
  FactOwner <- MCFactOwner
  ProposalOwner <- MCProposalOwner
  EpisodeOwner <- MCEpisodeOwner
  MaxFacts = 1
  MaxProposals = 2
  MaxEpisodes = 1
  MaxBytes = 3
  MaxRevision = 3
SPECIFICATION MemorySpec
CHECK_DEADLOCK FALSE
INVARIANT Purgeable
