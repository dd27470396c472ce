\* Relay absent or closing, calls before the listener is installed, both calls.
SPECIFICATION ClientSpec
CONSTANTS
  c1 = c1  c2 = c2  w1 = w1  w2 = w2
  Conns = {c1, c2}
  Workers = {w1}
  Starter = Starter  Listener = Listener
  NoConn = NoConn  NoThread = NoThread
  UpCap = 2  DownCap = 2
  Ops = {"kpi", "reco"}
  MaxCalls = 2  MaxFrames = 2
  ReconnectEvery = 2
  Faults = {"refuse", "close", "pollerr", "early"}
SYMMETRY ConnSymmetry
INVARIANTS ClientTypeOK MutexDiscipline SockIsOpen ControlInOrder
CHECK_DEADLOCK FALSE
