\* Three calls of the admission, with a reading before its window, two UTC dates in it and
\* one reading at its end; three requests to one pilot process, recycled once.
SPECIFICATION MCSpec
CONSTANTS
  Ids = {i1, i2, i3}
  Runs = {r1, r2, r3}
  Times = {1, 2, 3, 4, 5, 6}
  Days = {0, 1, 2, 3}
  DayOf <- TwoPerDay
  StartsAt = 2
  ExpiresAt = 6
  TotalLimit = 2
  DailyLimit = 1
  Requests = {"q1", "q2", "q3"}
  Processes = {"p1"}
  Kinds = {"read", "unauthorized", "read_only"}
  None = "none"
  MaxReads = 1
  Expiry = 1
  MaxTime = 1
  MaxChanges = 1
  MaxRestarts = 1
SYMMETRY Interchangeable
INVARIANTS OpenHoldsSlot PilotServes
PROPERTIES NoAdmissionAfterFailure KeepsBudget
CHECK_DEADLOCK FALSE
