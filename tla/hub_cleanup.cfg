SPECIFICATION FairSpec
CONSTANTS
  Users = {u1, u2}
  NoUser = NoUser
  Sockets = {s1, s2}
  Shards = {{u1}, {u2}}
PROPERTIES EmptyChannelsRemoved
CHECK_DEADLOCK FALSE
