SPECIFICATION Spec
CONSTANTS
  Emails = {e1, e2}
  Names = {n1, n2}
  Requests = {r1, r2}
  Codes = {c1, c2}
  NoEmail = NoEmail
  NoName = NoName
  NoCode = NoCode
  MaxUsers = 2
  Outcomes = {"ok"}
  Abandons = {}
  MAX_FAILED_ATTEMPTS = 2
  CODE_EXPIRES = 1
  RESEND_COOLDOWN = 1
  SIGNUP_EXPIRES = 1
  MaxTime = 2
SYMMETRY Symmetry
INVARIANTS GuessesWithinRace SignUpInv StoredCodeMailed
PROPERTIES DeletedOnlyExpired MailedCodeKept ImplementsLife
CHECK_DEADLOCK FALSE
