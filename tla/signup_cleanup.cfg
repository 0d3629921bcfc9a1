SPECIFICATION FairSpec
CONSTANTS
  Emails = {e1}
  Names = {n1}
  Requests = {r1, r2}
  Codes = {c1, c2}
  NoEmail = NoEmail
  NoName = NoName
  NoCode = NoCode
  MaxUsers = 2
  Outcomes = {"ok"}
  Abandons = {r1, r2}
  MAX_FAILED_ATTEMPTS = 1
  CODE_EXPIRES = 1
  RESEND_COOLDOWN = 1
  SIGNUP_EXPIRES = 1
  MaxTime = 2
PROPERTIES ExpiredRemoved
CHECK_DEADLOCK FALSE
