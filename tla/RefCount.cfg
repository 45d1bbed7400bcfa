\* Two threads, three Refs, two atomic objects and a plain one, each with one member.
SPECIFICATION Spec
CONSTANTS
  client = client  worker = worker  s1 = s1  s2 = s2  s3 = s3
  atomic1 = atomic1  atomic2 = atomic2  plain = plain  None = None
  Threads <- MCThreads
  Slots <- MCSlots
  FirstOwner <- MCFirstOwner
  Objects <- MCObjects
  Plain <- MCPlain
  Wrap = 8
SYMMETRY MCSymmetry
INVARIANTS TypeOK CountExact NoDangling CleanedUp
CHECK_DEADLOCK FALSE
