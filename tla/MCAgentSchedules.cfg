CONSTANTS
  s1 = s1
  s2 = s2
  alice = alice
  Ids = {s1, s2}
  Owners = {alice}
  OwnerOf <- MCOwnerOf
  MaxSchedules = 1
  MaxPreviews = 1
  PreviewTtl = 2
  Grace = 1
  PreviewRuns = 2
  Step = 2
  Horizon = 6
  CalendarNext <- MCCalendarNext
  MaxNow = 3
  MaxBoots = 2
SPECIFICATION Spec
INVARIANTS
  AtMostOnce
  CancelledNeverFires
  ScheduleRecordsHold
PROPERTY PreviewHonoured
