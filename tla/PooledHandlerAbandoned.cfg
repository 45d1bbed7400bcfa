\* The comment at runtime_agent.cpp:184, with one function that does not compile.
SPECIFICATION Spec
CONSTANTS
  c1 = c1  c2 = c2  c3 = c3  w1 = w1  w2 = w2  h1 = h1  h2 = h2
  Clients <- MCClients
  Workers <- MCWorkers
  Hosts <- MCHosts
  FailingHosts <- MCFailing
  Requests <- MCRequests
  None = None
  Null = Null
  MaxRequests = 2
  MaxGen = 1
INVARIANT PlaceholderMeansCompiling
CHECK_DEADLOCK FALSE
