CONSTANTS
  alice = alice
  bob = bob
  hookA = hookA
  hookB = hookB
  Owners = {alice}
  Dests = {hookA}
  OwnerOf <- OneOwner
  OutboxEvents = {1, 2}
  Targets <- OneTarget
  MaxGrant = 1
  Capacity = 1
  BatchSize = 2
  MaxAttempts = 2
  MaxReplays = 1
  AdminSlots = 1
  MaxOutboxBoots = 2
SPECIFICATION OutboxSpec
INVARIANT OutboxHonest
PROPERTY RowsKept
