\* Four writes within four seconds, two chains of readers as UpdateConfig and
\* SetE2Termination schedule them.
SPECIFICATION FairSpec
CONSTANTS
  Chains = 2  MaxWrites = 4  MaxClock = 4
INVARIANTS AppliedOnce LostOnlyInWindow
PROPERTY SpacedCommandApplied
CHECK_DEADLOCK FALSE
