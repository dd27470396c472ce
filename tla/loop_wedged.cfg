\* One frame fills the socket to the xApp.
SPECIFICATION LoopFairSpec
CONSTANTS
  c1 = c1  c2 = c2  w1 = w1  w2 = w2  a1 = a1  k1 = k1
  Starter = Starter  Listener = Listener  NoConn = NoConn  NoOne = NoOne  NoThread = NoThread  NoAi = NoAi
  Conns = {c1}  Workers = {w1}  AiConns = {a1}  Cmds = {}
  Ops = {"kpi"}  MaxCalls = 2  MaxControls = 2
  MaxFrames = 0  MaxSends = 0  XKinds = {}
  UpCap = 1  DownCap = 1  AiCap = 2  ReconnectEvery = 2
  Faults = {}  RelayFaults = {}
PROPERTY KpiReturns
CHECK_DEADLOCK FALSE
