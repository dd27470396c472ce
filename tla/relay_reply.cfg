\* One recommendation request, nothing fails.
SPECIFICATION FairSpec
CONSTANTS
  c1 = c1  c2 = c2  a1 = a1  a2 = a2  k1 = k1  k2 = k2
  NoAi = NoAi  NoOne = NoOne
  Conns = {c1}  AiConns = {a1}  Cmds = {}
  UpCap = 2  DownCap = 1  AiCap = 2
  MaxControls = 0  MaxSends = 1
  XKinds = {"reco"}
  RelayFaults = {}
PROPERTY RequestAnswered
CHECK_DEADLOCK FALSE
