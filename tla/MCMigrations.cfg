SPECIFICATION FairSpec
CONSTANTS
  r1 = r1
  r2 = r2
  Run = {r1, r2}
  DB = "audit"
  HandSessions = {"audit", "default"}
  MaxDeaths = 1
INVARIANTS RecordedIsApplied NeverRefused InsertsFit
PROPERTY Completes
CHECK_DEADLOCK FALSE
