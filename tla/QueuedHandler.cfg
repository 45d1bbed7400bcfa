\* Two clients, four tasks; the function at h2 does not compile.
SPECIFICATION FairSpec
CONSTANTS
  c1 = c1  c2 = c2  h1 = h1  h2 = h2
  Clients <- MCClients
  Hosts <- MCHosts
  FailingHosts <- MCFailing
  Jobs <- MCJobs
  Values <- Value
  None = None
  Null = Null
  Raised = Raised
  Yes = Yes  No = No
  MaxTasks = 4
INVARIANTS TypeOK WakeupPending InOrder EntriesLive
PROPERTIES SyncReturns ImplementsCompileCache
CHECK_DEADLOCK FALSE
