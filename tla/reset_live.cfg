SPECIFICATION FairMailSpec
CONSTANTS
  Users = {u1}
  Requests = {r1, r2}
  Codes = {c1}
  Keys = {k1}
  NoUser = NoUser
  NoCode = NoCode
  NoKey = NoKey
  Outcomes = {"ok", "error"}
  Abandons = {}
  MAX_FAILED_ATTEMPTS = 2
  CODE_EXPIRES = 2
  RESEND_COOLDOWN = 1
  KEY_EXPIRES = 1
  MaxTime = 3
INVARIANTS EachGuessCounted
PROPERTIES VerifyReturns JobsSettle
CHECK_DEADLOCK FALSE
