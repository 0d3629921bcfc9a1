SPECIFICATION FairSpec
CONSTANTS
  Calls = {c1, c2}
  RESEND_COOLDOWN = 2
  KEY_EXPIRES = 2
  MaxTime = 4
  MaxStrays = 1
INVARIANTS ViewHonest NoOverlap NotTrapped PageInv
PROPERTIES ResetViewEnds
CHECK_DEADLOCK FALSE
