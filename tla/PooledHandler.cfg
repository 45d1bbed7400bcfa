\* Three clients on two workers; the function at h2 does not compile.
SPECIFICATION FairSpec
CONSTANTS
  c1 = c1  c2 = c2  c3 = c3  w1 = w1  w2 = w2  h1 = h1  h2 = h2
  Clients <- MCClients
  Workers <- MCWorkers
  Hosts <- MCHosts
  FailingHosts <- MCFailing
  Requests <- MCRequests
  None = None
  Null = Null
  MaxRequests = 4
  MaxGen = 1
INVARIANTS TypeOK PlaceholderOwned SingleFlight StaleOnlyIfLate
PROPERTIES Answered ImplementsCompileCache
CHECK_DEADLOCK FALSE
