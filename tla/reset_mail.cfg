SPECIFICATION MailSpec
CONSTANTS
  Users = {u1}
  Requests = {r1, r2}
  Codes = {c1, c2}
  Keys = {k1}
  NoUser = NoUser
  NoCode = NoCode
  NoKey = NoKey
  Outcomes = {"ok", "error"}
  Abandons = {}
  MAX_FAILED_ATTEMPTS = 1
  CODE_EXPIRES = 2
  RESEND_COOLDOWN = 1
  KEY_EXPIRES = 1
  MaxTime = 2
SYMMETRY Symmetry
INVARIANTS MailInv CodeHasMail MailSpacing
CHECK_DEADLOCK FALSE
