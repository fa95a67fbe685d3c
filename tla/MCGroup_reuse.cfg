SPECIFICATION Spec
CONSTANTS
  u1 = u1  u2 = u2
  t1 = t1  t2 = t2
  Users = {u1, u2}
  Chats = {c1, c2}
  Blocks = {c1, c2}
  Threads = {t1, t2}
  UserOf <- OneUser
  Contacts <- EveryoneElse
  Ops <- DeletingOps
  Faulty <- Storing
  Reuse = TRUE
  MaxCopies = 2
  BadId = bad
  NoUser = nouser
  NoReply = noreply
  NoThread = nothread
  NoBlock = null
INVARIANTS CacheMatchesDb DeliveryReachesMembers NobodyInsideFreedChat
SYMMETRY Symmetry
