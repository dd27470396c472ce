\* Two cells, each with its own association and e2sim thread; one sends no reports.
SPECIFICATION Spec
CONSTANTS
  Gnbs = {1, 2}  Horizon = 3  Period = 1  Quiet = {2}  MaxMessages = 2  MaxLosses = 1
INVARIANTS TypeOK OneReportCycle HandedIsFlagged OwnAssociation
PROPERTY IsReportCycle
CHECK_DEADLOCK FALSE
