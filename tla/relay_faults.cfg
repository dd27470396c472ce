\* An xApp and the AI that come and go, frames broken off, both requests.
SPECIFICATION Spec
CONSTANTS
  c1 = c1  c2 = c2  a1 = a1  a2 = a2  k1 = k1  k2 = k2
  NoAi = NoAi  NoOne = NoOne
  Conns = {c1, c2}  AiConns = {a1, a2}  Cmds = {}
  UpCap = 2  DownCap = 1  AiCap = 2
  MaxControls = 1  MaxSends = 2
  XKinds = {"kpi", "reco"}
  RelayFaults = {"xclose", "aiclose", "cut"}
SYMMETRY RelaySymmetry
INVARIANTS TypeOK LockDiscipline NoWriteAfterClose OneAiConnection InOrder
CHECK_DEADLOCK FALSE
