SPECIFICATION Spec
CONSTANTS
  Users = {admin, u}
  Conns = {k1, k2, k3}
  Sids = {s1, s2}
  FirstAdmin = admin
  Admins = {admin}
  DbMayFail = TRUE
  NoUser = nouser
  NoName = noname
  NoSid = nosid
  NoConn = null
INVARIANTS TypeOK CachedConnection UndisturbedRead OnlineIsConnected
PROPERTY SessionKeepsUser
SYMMETRY Symmetry
