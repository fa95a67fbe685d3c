SPECIFICATION FairSpec
CONSTANTS
  Users = {admin, u}
  Conns = {k1, k2}
  Sids = {s1, s2}
  FirstAdmin = admin
  Admins = {admin}
  DbMayFail = FALSE
  NoUser = nouser
  NoName = noname
  NoSid = nosid
  NoConn = null
PROPERTY ConnectionEnds
