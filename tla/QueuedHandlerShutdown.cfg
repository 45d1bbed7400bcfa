\* README.md:51, for the destructor of the command queue.
SPECIFICATION FairSpec
CONSTANTS
  c1 = c1  c2 = c2  h1 = h1  h2 = h2
  Clients <- MCClients
  Hosts <- MCHosts
  FailingHosts <- MCFailing
  Jobs <- MCJobs
  Values <- Value
  None = None
  Null = Null
  Raised = Raised
  Yes = Yes  No = No
  MaxTasks = 2
PROPERTY DestructorReturns
CHECK_DEADLOCK FALSE
