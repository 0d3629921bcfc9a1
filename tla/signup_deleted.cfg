SPECIFICATION Spec
CONSTANTS
  Emails = {e1}
  Names = {n1}
  Requests = {r1}
  Codes = {c1}
  NoEmail = NoEmail
  NoName = NoName
  NoCode = NoCode
  MaxUsers = 1
  Outcomes = {"ok"}
  Abandons = {}
  MAX_FAILED_ATTEMPTS = 1
  CODE_EXPIRES = 1
  RESEND_COOLDOWN = 1
  SIGNUP_EXPIRES = 1
  MaxTime = 2
SYMMETRY Symmetry
PROPERTIES VerifiedKept
CHECK_DEADLOCK FALSE
