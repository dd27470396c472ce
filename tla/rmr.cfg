\* Two threads send, at once or one after the other; RMR refuses any attempt.
SPECIFICATION FairSpec
CONSTANTS
  t1 = t1  t2 = t2
  Senders = {t1, t2}  Attempts = 3  MaxBufs = 6  MaxSends = 2
INVARIANT SerialSendIsExact
PROPERTY SendEnds
CHECK_DEADLOCK FALSE
