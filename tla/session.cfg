SPECIFICATION Spec
CONSTANTS
  Users = {u1, u2}
  NoUser = NoUser
  Calls = {c1, c2}
  Sockets = {s1, s2}
  NoSocket = NoSocket
SYMMETRY Symmetry
INVARIANTS SocketOwned NeverStranded Agreement BadgeOwn SessionInv
CHECK_DEADLOCK FALSE
