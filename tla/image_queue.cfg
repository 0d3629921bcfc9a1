SPECIFICATION FairSpec
CONSTANTS
  Entries = {e1, e2}
  Pairs = {p1, p2}
  NoPair = NoPair
  Moderators = {m1, m2, m3}
INVARIANTS PublishedHandled ApprovedPublished QueueInv
PROPERTIES RejectedFinal RequestsEnd
CHECK_DEADLOCK FALSE
