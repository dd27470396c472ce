\* Start-up with no gNB or two while messages of every kind arrive.
SPECIFICATION FairSpec
CONSTANTS
  h1 = h1  h2 = h2  g1 = g1  g2 = g2
  Main = Main  Rcv = Rcv  NoOne = NoOne
  Ids = {g1, g2}  HeapKeys = {h1, h2}  Inventories <- Lists
  MaxRequests = 2  MaxResponses = 2  MaxMsgs = 2  MaxControls = 1
INVARIANTS EveryGnbIsAsked ReturnedExactly ReactionFindsList
PROPERTIES StartupEnds UsesSubscriptionHandler
CHECK_DEADLOCK FALSE
