SPECIFICATION Spec
CONSTANTS
  Entries = {e1}
  Pairs = {p1}
  NoPair = NoPair
  Moderators = {m1, m2}
PROPERTIES HandledPending
CHECK_DEADLOCK FALSE
