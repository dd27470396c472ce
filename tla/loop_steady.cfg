\* Relay and AI stay up; the sockets to the xApp hold every control message and the
\* frame of one command.  One thread receives, as in the program.
SPECIFICATION LoopFairSpec
CONSTANTS
  c1 = c1  c2 = c2  w1 = w1  w2 = w2  a1 = a1  k1 = k1
  Starter = Starter  Listener = Listener  NoConn = NoConn  NoOne = NoOne  NoThread = NoThread  NoAi = NoAi
  Conns = {c1, c2}  Workers = {w1}  AiConns = {a1}  Cmds = {k1}
  Ops = {"kpi"}  MaxCalls = 1  MaxControls = 2
  MaxFrames = 0  MaxSends = 0  XKinds = {}
  UpCap = 1  DownCap = 3  AiCap = 2  ReconnectEvery = 2
  Faults = {}  RelayFaults = {}
INVARIANTS LoopInOrder FrameOnOneSocket NoLeakedConnection RecvFindsData
PROPERTIES IsControlChannel KpiReturns ControlReachesHandler KpiReachesAi CommandAnswered
CHECK_DEADLOCK FALSE
