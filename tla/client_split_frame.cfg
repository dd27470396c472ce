\* The relay is not up when the xApp starts.
SPECIFICATION ClientSpec
CONSTANTS
  c1 = c1  c2 = c2  w1 = w1  w2 = w2
  Conns = {c1, c2}
  Workers = {w1}
  Starter = Starter  Listener = Listener
  NoConn = NoConn  NoThread = NoThread
  UpCap = 2  DownCap = 2
  Ops = {"kpi"}
  MaxCalls = 2  MaxFrames = 1
  ReconnectEvery = 2
  Faults = {"refuse"}
INVARIANT FrameOnOneSocket
CHECK_DEADLOCK FALSE
