SPECIFICATION Spec
CONSTANTS
  Emails = {a, b}
  NoEmail = NoEmail
  Calls = {c1, c2, c3}
  RESEND_COOLDOWN = 2
SYMMETRY Symmetry
INVARIANTS AuthInv EmailAgrees ResendSettles CooldownKept
CHECK_DEADLOCK FALSE
