SPECIFICATION Spec
CONSTANTS
  u1 = u1  u2 = u2
  t1 = t1  t2 = t2
  Users = {u1, u2}
  Chats = {c1}
  Blocks = {c1}
  Threads = {t1, t2}
  UserOf <- TwoUsers
  Contacts <- EveryoneElse
  Ops <- AllOps
  Faulty = {}
  Reuse = FALSE
  MaxCopies = 2
  BadId = bad
  NoUser = nouser
  NoReply = noreply
  NoThread = nothread
  NoBlock = null
INVARIANT NoReadOfFreedChat
