CONSTANTS
  alice = alice
  bob = bob
  hookA = hookA
  hookB = hookB
  Owners = {alice, bob}
  Dests = {hookA, hookB}
  OwnerOf <- TwoOwners
  OutboxEvents = {1}
  Targets <- TwoTargets
  MaxGrant = 2
  Capacity = 2
  BatchSize = 1
  MaxAttempts = 1
  MaxReplays = 0
  AdminSlots = 1
  MaxOutboxBoots = 2
SPECIFICATION OutboxSpec
PROPERTY EditedGrantWorks
