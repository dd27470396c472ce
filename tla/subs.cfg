\* Two threads that subscribe, to the same gNB or not, and again; transmissions
\* fail, responses come late, twice or never.
SPECIFICATION FairSpec
CONSTANTS
  r1 = r1  r2 = r2  s1 = s1  s2 = s2  h1 = h1  h2 = h2  g1 = g1  g2 = g2
  NoOne = NoOne
  Requesters = {r1, r2}  Responders = {s1}  HeapKeys = {h1, h2}  Ids = {g1, g2}
  MaxRequests = 3  MaxResponses = 2
INVARIANTS TypeOK OneRequestPerId OwnEntryStays EarlySuccessIsAnswered ReturnCleansUp FirstNotRefused
PROPERTY RequestReturns
CHECK_DEADLOCK FALSE
