CONSTANTS
  KeyOwners = {"alice"}
  KeyIds = {"k1", "k2"}
  Calls = {"c1", "c2"}
  MaxKeys = 1
  Concurrency = 1
  PerKeyRate = 1
  GlobalRate = 2
  MaxSwitches = 2
SPECIFICATION KeysSpec
CHECK_DEADLOCK FALSE
INVARIANT RetiredOwnerHoldsNoKey
