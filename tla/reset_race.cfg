SPECIFICATION Spec
CONSTANTS
  Users = {u1}
  Requests = {r1, r2}
  Codes = {c1, c2}
  Keys = {k1, k2}
  NoUser = NoUser
  NoCode = NoCode
  NoKey = NoKey
  Outcomes = {"ok", "error", "lost"}
  Abandons = {r1, r2}
  MAX_FAILED_ATTEMPTS = 2
  CODE_EXPIRES = 2
  RESEND_COOLDOWN = 1
  KEY_EXPIRES = 1
  MaxTime = 3
SYMMETRY Symmetry
INVARIANTS IndexConsistent GuessesBounded KeyRedeemedOnce IInv
PROPERTIES KeyConsumedInTime CooldownRespected ImplementsSlot
CHECK_DEADLOCK FALSE
