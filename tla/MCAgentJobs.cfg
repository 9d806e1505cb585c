CONSTANTS
  j1 = j1
  j2 = j2
  j3 = j3
  Jobs = {j1, j2, j3}
  MaxRetained = 2
  SharesBackend = TRUE
  MaxBoots = 3
  NoJob = NoJob
  Chat = Chat
SYMMETRY Symmetry
SPECIFICATION Spec
INVARIANTS
  RecordsHold
  OneLiveWorker
  CompletionsKept
PROPERTY OutcomeStands
