SPECIFICATION FairSpec
CONSTANTS
  u1 = u1  u2 = u2
  t1 = t1  t2 = t2
  Users = {u1, u2, u3}
  Chats = {c1}
  Blocks = {c1}
  Threads = {t1, t2}
  UserOf <- TwoUsers
  Contacts <- EveryoneElse
  Ops <- AddingOps
  Faulty = {"add_many_users_to_group", "send_to_chat"}
  Reuse = FALSE
  MaxCopies = 2
  BadId = bad
  NoUser = nouser
  NoReply = noreply
  NoThread = nothread
  NoBlock = null
INVARIANT GroupListsMatch
PROPERTY RequestsEnd
