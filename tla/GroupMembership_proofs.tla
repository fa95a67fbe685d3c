-------------------------- MODULE GroupMembership_proofs --------------------------
(***************************************************************************)
(* Theorems about GroupMembership for any number of users, chats, blocks   *)
(* and threads: its type invariant, the agreement of the cached chats with *)
(* the database, and, in the second half, that it implements               *)
(* GroupDirectory, and what the users' lists of groups have to do with it. *)
(***************************************************************************)
EXTENDS GroupMembership, FiniteSetTheorems, TLAPS

(* The inductive invariant *)

Waiting(t)  == pc[t] = "lock"
Working(t)  == pc[t] \in {"locked", "append", "append_many", "remove", "deliver"}
Deleting(t) == pc[t] \in {"lock_deleted", "locked_deleted", "forget"}
Creating(t) == pc[t] \in {"created", "publish"}

Adding(t)   == IF pc[t] \in {"append", "append_many"} THEN who[t] ELSE {}
Removing(t) == IF pc[t] = "remove" THEN who[t] ELSE {}

PointerOK ==
  \A t \in Threads : Waiting(t) \/ Working(t) \/ Deleting(t) \/ pc[t] = "publish" => ptr[t] \in Blocks

RequestOK ==
  \A t \in Threads :
    /\ op[t] \in Ops \cup {"none"}
    /\ pc[t] = "append" => op[t] \in {"join_chat", "add_contact_to_chat"}
    /\ pc[t] = "append_many" => op[t] = "add_many_users_to_group"
    /\ pc[t] = "remove" => op[t] = "delete_user_from_group"
    /\ /\ pc[t] \in {"lock", "locked", "append", "remove"}
       /\ op[t] \in {"join_chat", "add_contact_to_chat", "delete_user_from_group"}
       => \E u \in Users : who[t] = {u}

TableOK ==
  \A c \in Ids : chats[c] # NoBlock => mem[chats[c]] = "live" /\ chat_id[chats[c]] = c

IdsUsed ==
  /\ groups \subseteq usedIds
  /\ \A c \in Chats : chats[c] # NoBlock => c \in usedIds
  /\ \A t \in Threads : pc[t] # "idle" /\ cid[t] \in Chats => cid[t] \in usedIds

(* whoever is inside a critical section holds the mutex of a live block    *)
Held == \A t \in Threads : Working(t) \/ pc[t] \in {"locked_deleted", "forget"} =>
                             mem[ptr[t]] = "live" /\ chat_mutex[ptr[t]] = t

(* and the mutex of a live block is held by a thread that is inside        *)
Holder == \A a \in Blocks : mem[a] = "live" /\ chat_mutex[a] # NoThread =>
            \E t \in Threads : /\ chat_mutex[a] = t /\ ptr[t] = a
                               /\ Working(t) \/ pc[t] \in {"locked_deleted", "forget"}

(* the mutex of a freed block stays locked, and nobody waits at an address *)
(* malloc never returned                                                   *)
FreedLocked ==
  /\ \A a \in Blocks : mem[a] = "freed" => chat_mutex[a] # NoThread
  /\ \A t \in Threads : Waiting(t) => mem[ptr[t]] # "unused"

DeleterOK ==
  \A t \in Threads : Deleting(t) =>
    /\ chats_mutex = t
    /\ chats[cid[t]] = ptr[t]
    /\ pc[t] = "forget" => cid[t] \notin groups

(* as long as the group exists, a fetched pointer is the one of the table  *)
Current == \A t \in Threads : (Waiting(t) \/ Working(t)) /\ cid[t] \in groups => chats[cid[t]] = ptr[t]

(* after a checked SQL statement the group does exist, and so does the     *)
(* message that is delivered                                               *)
Committed ==
  \A t \in Threads :
    /\ pc[t] \in {"append", "remove", "deliver"} => cid[t] \in groups
    /\ pc[t] = "deliver" => cid[t] \in messages

NotReused ==
  ~Reuse => \A t \in Threads : Waiting(t) \/ Working(t) =>
              /\ chat_id[ptr[t]] = cid[t]
              /\ \A s \in Threads : pc[s] = "publish" => ptr[s] # ptr[t]

TableInDb ==
  \A c \in Chats : chats[c] # NoBlock /\ c \notin groups =>
    \E t \in Threads : pc[t] = "forget" /\ cid[t] = c

(* a live block whose id is that of a group is in the table, or its        *)
(* creator is about to put it there                                        *)
LiveKnown ==
  \A a \in Blocks : mem[a] = "live" /\ chat_id[a] \in Chats =>
    chats[chat_id[a]] = a \/ \E t \in Threads : pc[t] = "publish" /\ ptr[t] = a

(* a group that does not exist has no members                              *)
RowsOfGroups == \A c \in Chats : c \notin groups => group_users[c] = {} /\ unsaved[c] = {}

Fresh(t) ==
  /\ cid[t] \in groups
  /\ chats[cid[t]] = NoBlock
  /\ ownerId[cid[t]] = Me(t)
  /\ pc[t] = "created" => group_users[cid[t]] = {Me(t)} /\ unsaved[cid[t]] = {}
  /\ \A s \in Threads : Creating(s) /\ cid[s] = cid[t] => s = t

Unpublished(t) ==
  /\ mem[ptr[t]] = "live" /\ chat_id[ptr[t]] = cid[t]
  /\ \A c \in Ids : chats[c] # ptr[t]
  /\ \A s \in Threads : pc[s] = "publish" /\ ptr[s] = ptr[t] => s = t

CreatorOK ==
  \A t \in Threads : /\ Creating(t) /\ cid[t] \in Chats => Fresh(t)
                     /\ pc[t] = "publish" => Unpublished(t)

(* whoever the chat in a block should have: its rows, and the users whose  *)
(* INSERT failed                                                           *)
Everyone(a) == group_users[chat_id[a]] \cup unsaved[chat_id[a]]

(* the chat in a block, with the update of its lock holder still to come   *)
BlockOK(a) ==
  /\ owner_id[a] = ownerId[chat_id[a]]
  /\ group_users[chat_id[a]] \cap unsaved[chat_id[a]] = {}
  /\ \A u \in Users : users_id[a][u] \in {0, 1}
  /\ chat_mutex[a] = NoThread => Members(a) = Everyone(a)
  /\ \A t \in Threads : chat_mutex[a] = t =>
       /\ Adding(t) \subseteq Everyone(a)
       /\ Removing(t) \cap Everyone(a) = {}
       /\ Members(a) = (Everyone(a) \ Adding(t)) \cup Removing(t)

(* Every block that holds the chat of a group, and not only those in the   *)
(* table: add_many may go on in a chat that has taken the memory of the    *)
(* deleted one it was asked for, before its creator has published it.      *)
Content == \A a \in Blocks : mem[a] = "live" /\ chat_id[a] \in groups => BlockOK(a)

Inv ==
  /\ TypeOK /\ PointerOK /\ RequestOK /\ TableOK /\ IdsUsed /\ Held /\ Holder /\ FreedLocked
  /\ DeleterOK /\ Current /\ Committed /\ NotReused /\ TableInDb /\ LiveKnown /\ RowsOfGroups
  /\ CreatorOK /\ Content

-----------------------------------------------------------------------------
(* remove_from_intarr turns an array into an array: copies stay counted by *)
(* natural numbers, whatever the uninitialised slots hold.                 *)
LEMMA RemoveType ==
  ASSUME NEW D, NEW arr \in [D -> Nat], NEW x \in D, NEW r \in RemoveFromIntarr(arr, x)
  PROVE  r \in [D -> Nat]
<1>1. CASE arr[x] = 1
  BY <1>1 DEF RemoveFromIntarr
<1>2. CASE arr[x] = 0
  BY <1>2 DEF RemoveFromIntarr
<1>3. CASE arr[x] # 0 /\ arr[x] # 1
  <2>1. PICK slots \in [1 .. arr[x] - 1 -> D] :
          r = [y \in D |-> (IF y = x THEN 0 ELSE arr[y])
                           + Cardinality({i \in DOMAIN slots : slots[i] = y})]
    BY <1>3 DEF RemoveFromIntarr
  <2>2. ASSUME NEW y \in D
        PROVE  Cardinality({i \in DOMAIN slots : slots[i] = y}) \in Nat
    <3>1. IsFiniteSet(1 .. arr[x] - 1)
      BY FS_Interval
    <3>2. IsFiniteSet({i \in DOMAIN slots : slots[i] = y})
      BY <3>1, FS_Subset
    <3>3. QED
      BY <3>2, FS_CardinalityType
  <2>3. QED
    BY <2>1, <2>2
<1>4. QED
  BY <1>1, <1>2, <1>3

(* One copy of a member is removed without a trace. *)
LEMMA RemoveOne ==
  ASSUME NEW arr, NEW x, arr[x] = 1, NEW r \in RemoveFromIntarr(arr, x)
  PROVE  r = [arr EXCEPT ![x] = 0]
BY DEF RemoveFromIntarr

(* Every step keeps the types. *)
LEMMA TypeStep ==
  ASSUME TypeOK, PointerOK, [Next]_vars
  PROVE  TypeOK' /\ PointerOK'
<1> USE GroupAssumption DEF TypeOK, PointerOK, Waiting, Working, Deleting, PCs, AllOps, Ids, Me, Plus,
        Goto, Return, Unlock, db, heap, local
<1>1. CASE Restart
  BY <1>1 DEF Restart, LoadedChats, LoadedMem, LoadedIds, LoadedOwners, LoadedUsers, LoadedGroups
<1>2. ASSUME NEW t \in Threads, NEW o \in Ops, NEW c \in Ids, NEW S \in SUBSET Users, FindChat(t, o, c, S)
      PROVE  TypeOK' /\ PointerOK'
  BY <1>2 DEF FindChat
<1>3. ASSUME NEW t \in Threads, NEW c \in Ids, FindChatToDelete(t, c)
      PROVE  TypeOK' /\ PointerOK'
  BY <1>3 DEF FindChatToDelete
<1>4. ASSUME NEW t \in Threads, NEW c \in Ids, DeleteUnknown(t, c)
      PROVE  TypeOK' /\ PointerOK'
  BY <1>4, <1>1 DEF DeleteUnknown
<1>5. ASSUME NEW t \in Threads, CreateRows(t)
      PROVE  TypeOK' /\ PointerOK'
  BY <1>5 DEF CreateRows, StartCreate, InsertGroupRow
<1>6. ASSUME NEW t \in Threads, CreateRowsFail(t)
      PROVE  TypeOK' /\ PointerOK'
  <2>1. CASE UNCHANGED db
    BY <1>6, <2>1 DEF CreateRowsFail, StartCreate
  <2>2. ASSUME NEW c \in Chats, InsertGroupRow(t, c, {})
        PROVE  TypeOK' /\ PointerOK'
    <3>1. /\ groups' \in SUBSET Chats /\ usedIds' \in SUBSET Chats
          /\ ownerId' \in [Chats -> Users \cup {NoUser}]
          /\ group_users' \in [Chats -> SUBSET Users] /\ messages' \in SUBSET Chats
      BY <2>2 DEF InsertGroupRow
    <3>2. QED
      BY <1>6, <3>1 DEF CreateRowsFail, StartCreate
  <2>3. QED
    BY <1>6, <2>1, <2>2 DEF CreateRowsFail
<1>7. ASSUME NEW t \in Threads, LockChat(t)
      PROVE  TypeOK' /\ PointerOK'
  BY <1>7 DEF LockChat
<1>8. ASSUME NEW t \in Threads, LockFails(t)
      PROVE  TypeOK' /\ PointerOK'
  BY <1>8 DEF LockFails
<1>9. ASSUME NEW t \in Threads, Refuse(t)
      PROVE  TypeOK' /\ PointerOK'
  BY <1>9 DEF Refuse, GiveUp
<1>10. ASSUME NEW t \in Threads, InsertMember(t)
      PROVE  TypeOK' /\ PointerOK'
  BY <1>10 DEF InsertMember
<1>11. ASSUME NEW t \in Threads, InsertFails(t)
      PROVE  TypeOK' /\ PointerOK'
  BY <1>11 DEF InsertFails, GiveUp
<1>12. ASSUME NEW t \in Threads, AppendMember(t)
      PROVE  TypeOK' /\ PointerOK'
  BY <1>12 DEF AppendMember
<1>13. ASSUME NEW t \in Threads, AppendGroup(t)
      PROVE  TypeOK' /\ PointerOK'
  <2>1. groups_id' \in [Users -> [Ids -> Nat]]
    BY <1>13 DEF AppendGroup
  <2>0. /\ pc[t] = "append_group"
        /\ UNCHANGED <<db, chats, heap, users_id, chat_mutex, chats_mutex, seen>>
        /\ \/ op[t] = "join_chat" /\ Goto(t, "reply") /\ UNCHANGED local
           \/ op[t] # "join_chat" /\ Return(t)
    BY <1>13 DEF AppendGroup
  <2>2. CASE Goto(t, "reply") /\ UNCHANGED local
    BY <2>0, <2>1, <2>2
  <2>3. CASE Return(t)
    BY <2>0, <2>1, <2>3
  <2>4. QED
    BY <2>0, <2>2, <2>3
<1>14. ASSUME NEW t \in Threads, JoinReply(t)
      PROVE  TypeOK' /\ PointerOK'
  BY <1>14 DEF JoinReply
<1>15. ASSUME NEW t \in Threads, InsertMany(t)
      PROVE  TypeOK' /\ PointerOK'
  <2>1. group_users' \in [Chats -> SUBSET Users]
    <3>1. CASE UNCHANGED group_users
      BY <3>1
    <3>2. CASE Insertable(cid[t], who[t]) /\ group_users' = [group_users EXCEPT ![cid[t]] = @ \cup who[t]]
      <4>1. cid[t] \in Chats /\ who[t] \in SUBSET Users
        BY <3>2 DEF Insertable
      <4>2. QED
        BY <3>2, <4>1
    <3>3. QED
      BY <1>15, <3>1, <3>2 DEF InsertMany
  <2>2. unsaved' \in [Chats -> SUBSET Users]
    <3>1. CASE UNCHANGED unsaved
      BY <3>1
    <3>2. CASE unsaved' = [unsaved EXCEPT ![chat_id[ptr[t]]] = @ \cup who[t]] /\ chat_id[ptr[t]] \in groups
      <4>1. chat_id[ptr[t]] \in Chats /\ who[t] \in SUBSET Users
        BY <3>2
      <4>2. QED
        BY <3>2, <4>1
    <3>3. QED
      BY <1>15, <3>1, <3>2 DEF InsertMany
  <2>3. QED
    BY <1>15, <2>1, <2>2 DEF InsertMany
<1>16. ASSUME NEW t \in Threads, NEW u \in Users, AppendOneOfMany(t, u)
      PROVE  TypeOK' /\ PointerOK'
  BY <1>16 DEF AppendOneOfMany
<1>17. ASSUME NEW t \in Threads, AddedMany(t)
      PROVE  TypeOK' /\ PointerOK'
  BY <1>17 DEF AddedMany, GiveUp
<1>18. ASSUME NEW t \in Threads, DeleteRow(t)
      PROVE  TypeOK' /\ PointerOK'
  BY <1>18 DEF DeleteRow
<1>19. ASSUME NEW t \in Threads, DeleteRowFails(t)
      PROVE  TypeOK' /\ PointerOK'
  BY <1>19 DEF DeleteRowFails, GiveUp
<1>20. ASSUME NEW t \in Threads, RemoveMember(t)
      PROVE  TypeOK' /\ PointerOK'
  <2>0. PICK u \in who[t] : \E arr \in RemoveFromIntarr(users_id[ptr[t]], u) :
          users_id' = [users_id EXCEPT ![ptr[t]] = arr]
    BY <1>20 DEF RemoveMember
  <2>1. PICK arr \in RemoveFromIntarr(users_id[ptr[t]], u) :
          users_id' = [users_id EXCEPT ![ptr[t]] = arr]
    BY <2>0
  <2>2. ptr[t] \in Blocks /\ u \in Users
    BY <1>20, <2>0 DEF RemoveMember
  <2>3. arr \in [Users -> Nat]
    BY <2>1, <2>2, RemoveType
  <2>4. QED
    BY <1>20, <2>1, <2>3 DEF RemoveMember
<1>21. ASSUME NEW t \in Threads, RemoveGroup(t)
      PROVE  TypeOK' /\ PointerOK'
  <2>0. PICK u \in who[t] : \E arr \in RemoveFromIntarr(groups_id[u], cid[t]) :
          groups_id' = [groups_id EXCEPT ![u] = arr]
    BY <1>21 DEF RemoveGroup
  <2>1. PICK arr \in RemoveFromIntarr(groups_id[u], cid[t]) :
          groups_id' = [groups_id EXCEPT ![u] = arr]
    BY <2>0
  <2>2. arr \in [Ids -> Nat]
    BY <2>0, <2>1, RemoveType
  <2>3. QED
    BY <1>21, <2>1, <2>2 DEF RemoveGroup
<1>22. ASSUME NEW t \in Threads, StoreMessage(t)
      PROVE  TypeOK' /\ PointerOK'
  BY <1>22 DEF StoreMessage
<1>23. ASSUME NEW t \in Threads, StoreUncounted(t) \/ StoreFails(t)
      PROVE  TypeOK' /\ PointerOK'
  <2>1. CASE StoreUncounted(t)
    BY <2>1 DEF StoreUncounted
  <2>2. CASE StoreFails(t)
    BY <2>2 DEF StoreFails, GiveUp
  <2>3. QED
    BY <1>23, <2>1, <2>2
<1>24. ASSUME NEW t \in Threads, ReadMembers(t)
      PROVE  TypeOK' /\ PointerOK'
  BY <1>24 DEF ReadMembers
<1>25. ASSUME NEW t \in Threads, LockDeleted(t)
      PROVE  TypeOK' /\ PointerOK'
  BY <1>25 DEF LockDeleted
<1>26. ASSUME NEW t \in Threads, DeleteRefused(t)
      PROVE  TypeOK' /\ PointerOK'
  BY <1>26 DEF DeleteRefused
<1>27. ASSUME NEW t \in Threads, DeleteRows(t)
      PROVE  TypeOK' /\ PointerOK'
  BY <1>27 DEF DeleteRows, Members
<1>28. ASSUME NEW t \in Threads, NEW u \in Users, ForgetGroup(t, u)
      PROVE  TypeOK' /\ PointerOK'
  <2>1. PICK arr \in RemoveFromIntarr(groups_id[u], chat_id[ptr[t]]) :
          groups_id' = [groups_id EXCEPT ![u] = arr]
    BY <1>28 DEF ForgetGroup
  <2>2. arr \in [Ids -> Nat]
    BY <1>28, <2>1, RemoveType DEF ForgetGroup
  <2>3. QED
    BY <1>28, <2>1, <2>2 DEF ForgetGroup
<1>29. ASSUME NEW t \in Threads, FreeGroup(t)
      PROVE  TypeOK' /\ PointerOK'
  BY <1>29 DEF FreeGroup
<1>30. ASSUME NEW t \in Threads, NEW a \in Blocks, InitServerGroup(t, a)
      PROVE  TypeOK' /\ PointerOK'
  BY <1>30 DEF InitServerGroup
<1>31. ASSUME NEW t \in Threads, PublishChat(t)
      PROVE  TypeOK' /\ PointerOK'
  BY <1>31 DEF PublishChat
<1>32. CASE UNCHANGED vars
  BY <1>32 DEF vars
<1>33. QED
  BY <1>1, <1>2, <1>3, <1>4, <1>5, <1>6, <1>7, <1>8, <1>9, <1>10, <1>11, <1>12, <1>13, <1>14, <1>15, <1>16, <1>17, <1>18, <1>19, <1>20, <1>21, <1>22, <1>23, <1>24, <1>25, <1>26, <1>27, <1>28, <1>29, <1>30, <1>31, <1>32 DEF Next, Request, Handler

LEMMA TypeInit == Init => TypeOK /\ PointerOK
BY GroupAssumption DEF Init, TypeOK, PointerOK, Waiting, Working, Deleting, PCs, AllOps, Ids,
   LoadedChats, LoadedMem, LoadedIds, LoadedOwners, LoadedUsers, LoadedGroups, Loaded

(* In every behaviour every variable has its type: no array of ids ever    *)
(* holds a negative number of copies, and every table holds what it is     *)
(* declared to hold, whatever the handlers, the failures and the restarts. *)
THEOREM TypeCorrect == Spec => []TypeOK
<1>1. Init => TypeOK /\ PointerOK
  BY TypeInit
<1>2. (TypeOK /\ PointerOK) /\ [Next]_vars => (TypeOK /\ PointerOK)'
  BY TypeStep
<1>3. QED
  BY <1>1, <1>2, PTL DEF Spec

(* The steps that do not touch a chat, grouped by their effect.            *)

(* an error reply, or the end of add_many, from inside a critical section; *)
(* a message may have been stored                                          *)
GivesUp(t) ==
  /\ Working(t) /\ Adding(t) = {} /\ Removing(t) = {}
  /\ Unlock(t)
  /\ Return(t)
  /\ messages \subseteq messages'
  /\ UNCHANGED <<groups, ownerId, group_users, usedIds, chats, heap, users_id, chats_mutex, groups_id, seen>>

(* the handler returns, with no mutex held                                 *)
Leaves(t) ==
  /\ pc[t] \in {"lock", "append_group", "reply", "remove_group"}
  /\ Return(t)
  /\ UNCHANGED <<db, chats, heap, users_id, chat_mutex, chats_mutex, seen>>

(* a join goes on to its reply                                             *)
Answers(t) ==
  /\ pc[t] = "append_group"
  /\ Goto(t, "reply")
  /\ UNCHANGED <<db, chats, heap, users_id, chat_mutex, chats_mutex, local, seen>>

LEMMA Steps ==
  ASSUME [Next]_vars
  PROVE  \/ Restart
         \/ UNCHANGED vars
         \/ \E t \in Threads :
              \/ \E o \in Ops, c \in Ids, S \in SUBSET Users : FindChat(t, o, c, S)
              \/ \E c \in Ids : FindChatToDelete(t, c)
              \/ CreateRows(t) \/ CreateRowsFail(t) \/ LockChat(t) \/ LockDeleted(t)
              \/ GivesUp(t) \/ Leaves(t) \/ Answers(t)
              \/ InsertMember(t) \/ InsertMany(t) \/ DeleteRow(t) \/ StoreMessage(t)
              \/ AppendMember(t) \/ RemoveMember(t) \/ ReadMembers(t)
              \/ \E u \in Users : AppendOneOfMany(t, u) \/ ForgetGroup(t, u)
              \/ DeleteRefused(t) \/ DeleteRows(t) \/ FreeGroup(t)
              \/ (\E a \in Blocks : InitServerGroup(t, a)) \/ PublishChat(t)
<1>1. ASSUME NEW t \in Threads, Refuse(t) \/ InsertFails(t) \/ DeleteRowFails(t) \/ StoreFails(t)
      PROVE  GivesUp(t)
  BY <1>1 DEF Refuse, InsertFails, DeleteRowFails, StoreFails, GivesUp, GiveUp, Working, Adding, Removing, db
<1>2. ASSUME NEW t \in Threads, AddedMany(t) \/ StoreUncounted(t)
      PROVE  GivesUp(t)
  BY <1>2 DEF AddedMany, StoreUncounted, GivesUp, GiveUp, Working, Adding, Removing, db
<1>3. ASSUME NEW t \in Threads, LockFails(t) \/ JoinReply(t) \/ RemoveGroup(t)
      PROVE  Leaves(t)
  BY <1>3 DEF LockFails, JoinReply, RemoveGroup, Leaves
<1>4. ASSUME NEW t \in Threads, AppendGroup(t)
      PROVE  Leaves(t) \/ Answers(t)
  BY <1>4 DEF AppendGroup, Leaves, Answers
<1>5. QED
  BY <1>1, <1>2, <1>3, <1>4 DEF Next, Request, Handler, DeleteUnknown

LEMMA RequestsStep ==
  ASSUME Inv, TypeOK', PointerOK', [Next]_vars
  PROVE  RequestOK' /\ IdsUsed'
<1> USE GroupAssumption DEF Inv, TypeOK, PointerOK, RequestOK, IdsUsed,
        Waiting, Working, Deleting, Creating, Ids, Me, Goto, Return, Unlock, db, heap, local
<1>1. CASE Restart
  BY <1>1 DEF Restart, LoadedChats, LoadedMem, LoadedIds, LoadedOwners, LoadedUsers, LoadedGroups, Loaded
<1>2. CASE UNCHANGED vars
  BY <1>2 DEF vars
<1>3. ASSUME NEW t \in Threads, NEW o \in Ops, NEW c \in Ids, NEW S \in SUBSET Users, FindChat(t, o, c, S)
      PROVE  RequestOK' /\ IdsUsed'
  <2>1. /\ o \in {"join_chat", "add_contact_to_chat", "delete_user_from_group"} => \E u \in Users : S = {u}
        /\ o \in Ops
    BY <1>3 DEF FindChat, Names
  <2>2. /\ op' = [op EXCEPT ![t] = o] /\ who' = [who EXCEPT ![t] = S]
        /\ pc' = [pc EXCEPT ![t] = "lock"] /\ cid' = [cid EXCEPT ![t] = c]
        /\ chats[c] # NoBlock /\ UNCHANGED <<groups, usedIds, chats>>
    BY <1>3 DEF FindChat
  <2>3. RequestOK'
    <3> SUFFICES ASSUME NEW s \in Threads
                 PROVE  /\ op'[s] \in Ops \cup {"none"}
                        /\ pc'[s] = "append" => op'[s] \in {"join_chat", "add_contact_to_chat"}
                        /\ pc'[s] = "append_many" => op'[s] = "add_many_users_to_group"
                        /\ pc'[s] = "remove" => op'[s] = "delete_user_from_group"
                        /\ /\ pc'[s] \in {"lock", "locked", "append", "remove"}
                           /\ op'[s] \in {"join_chat", "add_contact_to_chat", "delete_user_from_group"}
                           => \E u \in Users : who'[s] = {u}
      OBVIOUS
    <3>1. CASE s = t
      BY <2>1, <2>2, <3>1
    <3>2. CASE s # t
      BY <2>2, <3>2
    <3>3. QED
      BY <3>1, <3>2
  <2>4. IdsUsed'
    BY <2>2, SMTT(20)
  <2>5. QED
    BY <2>3, <2>4
<1>4. ASSUME NEW t \in Threads, NEW c \in Ids, FindChatToDelete(t, c)
      PROVE  RequestOK' /\ IdsUsed'
  BY <1>4 DEF FindChatToDelete
<1>5. ASSUME NEW t \in Threads, CreateRows(t)
      PROVE  RequestOK' /\ IdsUsed'
  BY <1>5 DEF CreateRows, StartCreate, InsertGroupRow
<1>6. ASSUME NEW t \in Threads, CreateRowsFail(t)
      PROVE  RequestOK' /\ IdsUsed'
  BY <1>6 DEF CreateRowsFail, StartCreate, InsertGroupRow
<1>7. ASSUME NEW t \in Threads, LockChat(t)
      PROVE  RequestOK' /\ IdsUsed'
  BY <1>7 DEF LockChat
<1>8. ASSUME NEW t \in Threads, LockDeleted(t)
      PROVE  RequestOK' /\ IdsUsed'
  BY <1>8 DEF LockDeleted
<1>9. ASSUME NEW t \in Threads, GivesUp(t)
      PROVE  RequestOK' /\ IdsUsed'
  BY <1>9 DEF GivesUp, GiveUp
<1>10. ASSUME NEW t \in Threads, Leaves(t)
      PROVE  RequestOK' /\ IdsUsed'
  BY <1>10 DEF Leaves
<1>11. ASSUME NEW t \in Threads, Answers(t)
      PROVE  RequestOK' /\ IdsUsed'
  BY <1>11 DEF Answers
<1>12. ASSUME NEW t \in Threads, InsertMember(t)
      PROVE  RequestOK' /\ IdsUsed'
  <2>1. RequestOK'
    BY <1>12 DEF InsertMember, AddsOne
  <2>2. IdsUsed'
    BY <1>12 DEF InsertMember, AddsOne
  <2>3. QED
    BY <2>1, <2>2
<1>13. ASSUME NEW t \in Threads, InsertMany(t)
      PROVE  RequestOK' /\ IdsUsed'
  BY <1>13 DEF InsertMany
<1>14. ASSUME NEW t \in Threads, DeleteRow(t)
      PROVE  RequestOK' /\ IdsUsed'
  BY <1>14 DEF DeleteRow
<1>15. ASSUME NEW t \in Threads, StoreMessage(t)
      PROVE  RequestOK' /\ IdsUsed'
  BY <1>15 DEF StoreMessage
<1>16. ASSUME NEW t \in Threads, AppendMember(t)
      PROVE  RequestOK' /\ IdsUsed'
  BY <1>16 DEF AppendMember
<1>17. ASSUME NEW t \in Threads, RemoveMember(t)
      PROVE  RequestOK' /\ IdsUsed'
  BY <1>17 DEF RemoveMember
<1>18. ASSUME NEW t \in Threads, ReadMembers(t)
      PROVE  RequestOK' /\ IdsUsed'
  BY <1>18 DEF ReadMembers
<1>19. ASSUME NEW t \in Threads, NEW u \in Users, AppendOneOfMany(t, u)
      PROVE  RequestOK' /\ IdsUsed'
  <2>1. RequestOK'
    <3>1. /\ RequestOK /\ pc' = pc /\ op' = op /\ pc[t] = "append_many"
          /\ \A s \in Threads \ {t} : who'[s] = who[s]
      BY <1>19 DEF AppendOneOfMany
    <3> HIDE DEF Inv, TypeOK, PointerOK
    <3>2. QED
      BY <3>1
  <2>2. IdsUsed'
    BY <1>19 DEF AppendOneOfMany
  <2>3. QED
    BY <2>1, <2>2
<1>20. ASSUME NEW t \in Threads, NEW u \in Users, ForgetGroup(t, u)
      PROVE  RequestOK' /\ IdsUsed'
  BY <1>20 DEF ForgetGroup
<1>21. ASSUME NEW t \in Threads, DeleteRefused(t)
      PROVE  RequestOK' /\ IdsUsed'
  BY <1>21 DEF DeleteRefused
<1>22. ASSUME NEW t \in Threads, DeleteRows(t)
      PROVE  RequestOK' /\ IdsUsed'
  BY <1>22 DEF DeleteRows
<1>23. ASSUME NEW t \in Threads, FreeGroup(t)
      PROVE  RequestOK' /\ IdsUsed'
  BY <1>23 DEF FreeGroup
<1>24. ASSUME NEW t \in Threads, NEW a \in Blocks, InitServerGroup(t, a)
      PROVE  RequestOK' /\ IdsUsed'
  BY <1>24 DEF InitServerGroup
<1>25. ASSUME NEW t \in Threads, PublishChat(t)
      PROVE  RequestOK' /\ IdsUsed'
  BY <1>25 DEF PublishChat
<1>26. QED
  BY <1>1, <1>2, <1>3, <1>4, <1>5, <1>6, <1>7, <1>8, <1>9, <1>10, <1>11, <1>12, <1>13, <1>14, <1>15, <1>16, <1>17, <1>18, <1>19, <1>20, <1>21, <1>22, <1>23, <1>24, <1>25, Steps

LEMMA MutexStep ==
  ASSUME Inv, TypeOK', PointerOK', [Next]_vars
  PROVE  Held' /\ Holder' /\ FreedLocked'
<1> USE GroupAssumption DEF Inv, TypeOK, PointerOK, Held, Holder, FreedLocked, TableOK, DeleterOK,
        Waiting, Working, Deleting, Creating, Ids, Me, Goto, Return, Unlock, db, heap, local
<1>1. CASE Restart
  BY <1>1 DEF Restart, LoadedChats, LoadedMem, LoadedIds, LoadedOwners, LoadedUsers, LoadedGroups, Loaded
<1>2. CASE UNCHANGED vars
  BY <1>2 DEF vars
<1>3. ASSUME NEW t \in Threads, NEW o \in Ops, NEW c \in Ids, NEW S \in SUBSET Users, FindChat(t, o, c, S)
      PROVE  Held' /\ Holder' /\ FreedLocked'
  BY <1>3 DEF FindChat
<1>4. ASSUME NEW t \in Threads, NEW c \in Ids, FindChatToDelete(t, c)
      PROVE  Held' /\ Holder' /\ FreedLocked'
  BY <1>4 DEF FindChatToDelete
<1>5. ASSUME NEW t \in Threads, CreateRows(t)
      PROVE  Held' /\ Holder' /\ FreedLocked'
  BY <1>5 DEF CreateRows, StartCreate, InsertGroupRow
<1>6. ASSUME NEW t \in Threads, CreateRowsFail(t)
      PROVE  Held' /\ Holder' /\ FreedLocked'
  BY <1>6 DEF CreateRowsFail, StartCreate, InsertGroupRow
<1>7. ASSUME NEW t \in Threads, LockChat(t)
      PROVE  Held' /\ Holder' /\ FreedLocked'
  BY <1>7 DEF LockChat
<1>8. ASSUME NEW t \in Threads, LockDeleted(t)
      PROVE  Held' /\ Holder' /\ FreedLocked'
  <2>1. Held'
    <3>1. /\ Held /\ ptr' = ptr /\ mem' = mem
          /\ \A s \in Threads \ {t} : pc'[s] = pc[s]
          /\ chat_mutex[ptr[t]] = NoThread
          /\ chat_mutex' = [chat_mutex EXCEPT ![ptr[t]] = t]
          /\ chat_mutex \in [Blocks -> Threads \cup {NoThread}]
          /\ \A s \in Threads : Working(s) \/ pc[s] \in {"locked_deleted", "forget"} => ptr[s] \in Blocks
      BY <1>8 DEF LockDeleted
    <3>2. mem[ptr[t]] = "live" /\ ptr[t] \in Blocks
      <4>1. Deleting(t) /\ chats[cid[t]] = ptr[t]
        BY <1>8 DEF LockDeleted
      <4>2. ptr[t] \in Blocks /\ ptr[t] # NoBlock /\ cid[t] \in Ids
        BY <4>1
      <4>3. QED
        BY <4>1, <4>2
    <3> HIDE DEF Inv, TypeOK, PointerOK, Holder, TableOK, FreedLocked, DeleterOK
    <3>3. QED
      BY <3>1, <3>2
  <2>2. Holder'
    BY <1>8 DEF LockDeleted
  <2>3. FreedLocked'
    BY <1>8 DEF LockDeleted
  <2>4. QED
    BY <2>1, <2>2, <2>3
<1>9. ASSUME NEW t \in Threads, GivesUp(t)
      PROVE  Held' /\ Holder' /\ FreedLocked'
  BY <1>9 DEF GivesUp, GiveUp
<1>10. ASSUME NEW t \in Threads, Leaves(t)
      PROVE  Held' /\ Holder' /\ FreedLocked'
  BY <1>10 DEF Leaves
<1>11. ASSUME NEW t \in Threads, Answers(t)
      PROVE  Held' /\ Holder' /\ FreedLocked'
  BY <1>11 DEF Answers
<1>12. ASSUME NEW t \in Threads, InsertMember(t)
      PROVE  Held' /\ Holder' /\ FreedLocked'
  BY <1>12 DEF InsertMember
<1>13. ASSUME NEW t \in Threads, InsertMany(t)
      PROVE  Held' /\ Holder' /\ FreedLocked'
  BY <1>13 DEF InsertMany
<1>14. ASSUME NEW t \in Threads, DeleteRow(t)
      PROVE  Held' /\ Holder' /\ FreedLocked'
  BY <1>14 DEF DeleteRow
<1>15. ASSUME NEW t \in Threads, StoreMessage(t)
      PROVE  Held' /\ Holder' /\ FreedLocked'
  BY <1>15 DEF StoreMessage
<1>16. ASSUME NEW t \in Threads, AppendMember(t)
      PROVE  Held' /\ Holder' /\ FreedLocked'
  BY <1>16 DEF AppendMember
<1>17. ASSUME NEW t \in Threads, RemoveMember(t)
      PROVE  Held' /\ Holder' /\ FreedLocked'
  BY <1>17 DEF RemoveMember
<1>18. ASSUME NEW t \in Threads, ReadMembers(t)
      PROVE  Held' /\ Holder' /\ FreedLocked'
  BY <1>18 DEF ReadMembers
<1>19. ASSUME NEW t \in Threads, NEW u \in Users, AppendOneOfMany(t, u)
      PROVE  Held' /\ Holder' /\ FreedLocked'
  BY <1>19 DEF AppendOneOfMany
<1>20. ASSUME NEW t \in Threads, NEW u \in Users, ForgetGroup(t, u)
      PROVE  Held' /\ Holder' /\ FreedLocked'
  BY <1>20 DEF ForgetGroup
<1>21. ASSUME NEW t \in Threads, DeleteRefused(t)
      PROVE  Held' /\ Holder' /\ FreedLocked'
  BY <1>21 DEF DeleteRefused
<1>22. ASSUME NEW t \in Threads, DeleteRows(t)
      PROVE  Held' /\ Holder' /\ FreedLocked'
  BY <1>22 DEF DeleteRows
<1>23. ASSUME NEW t \in Threads, FreeGroup(t)
      PROVE  Held' /\ Holder' /\ FreedLocked'
  BY <1>23 DEF FreeGroup
<1>24. ASSUME NEW t \in Threads, NEW a \in Blocks, InitServerGroup(t, a)
      PROVE  Held' /\ Holder' /\ FreedLocked'
  BY <1>24 DEF InitServerGroup
<1>25. ASSUME NEW t \in Threads, PublishChat(t)
      PROVE  Held' /\ Holder' /\ FreedLocked'
  BY <1>25 DEF PublishChat
<1>26. QED
  BY <1>1, <1>2, <1>3, <1>4, <1>5, <1>6, <1>7, <1>8, <1>9, <1>10, <1>11, <1>12, <1>13, <1>14, <1>15, <1>16, <1>17, <1>18, <1>19, <1>20, <1>21, <1>22, <1>23, <1>24, <1>25, Steps

LEMMA TableStep ==
  ASSUME Inv, TypeOK', PointerOK', [Next]_vars
  PROVE  TableOK' /\ TableInDb' /\ DeleterOK'
<1> USE GroupAssumption DEF Inv, TypeOK, PointerOK, TableOK, TableInDb, DeleterOK, IdsUsed, CreatorOK, Fresh, Unpublished,
        Waiting, Working, Deleting, Creating, Ids, Me, Goto, Return, Unlock, db, heap, local
<1>1. CASE Restart
  BY <1>1 DEF Restart, LoadedChats, LoadedMem, LoadedIds, LoadedOwners, LoadedUsers, LoadedGroups, Loaded
<1>2. CASE UNCHANGED vars
  BY <1>2 DEF vars
<1>3. ASSUME NEW t \in Threads, NEW o \in Ops, NEW c \in Ids, NEW S \in SUBSET Users, FindChat(t, o, c, S)
      PROVE  TableOK' /\ TableInDb' /\ DeleterOK'
  BY <1>3 DEF FindChat
<1>4. ASSUME NEW t \in Threads, NEW c \in Ids, FindChatToDelete(t, c)
      PROVE  TableOK' /\ TableInDb' /\ DeleterOK'
  BY <1>4 DEF FindChatToDelete
<1>5. ASSUME NEW t \in Threads, CreateRows(t)
      PROVE  TableOK' /\ TableInDb' /\ DeleterOK'
  BY <1>5 DEF CreateRows, StartCreate, InsertGroupRow
<1>6. ASSUME NEW t \in Threads, CreateRowsFail(t)
      PROVE  TableOK' /\ TableInDb' /\ DeleterOK'
  BY <1>6 DEF CreateRowsFail, StartCreate, InsertGroupRow
<1>7. ASSUME NEW t \in Threads, LockChat(t)
      PROVE  TableOK' /\ TableInDb' /\ DeleterOK'
  BY <1>7 DEF LockChat
<1>8. ASSUME NEW t \in Threads, LockDeleted(t)
      PROVE  TableOK' /\ TableInDb' /\ DeleterOK'
  BY <1>8 DEF LockDeleted
<1>9. ASSUME NEW t \in Threads, GivesUp(t)
      PROVE  TableOK' /\ TableInDb' /\ DeleterOK'
  BY <1>9 DEF GivesUp, GiveUp
<1>10. ASSUME NEW t \in Threads, Leaves(t)
      PROVE  TableOK' /\ TableInDb' /\ DeleterOK'
  BY <1>10 DEF Leaves
<1>11. ASSUME NEW t \in Threads, Answers(t)
      PROVE  TableOK' /\ TableInDb' /\ DeleterOK'
  BY <1>11 DEF Answers
<1>12. ASSUME NEW t \in Threads, InsertMember(t)
      PROVE  TableOK' /\ TableInDb' /\ DeleterOK'
  BY <1>12 DEF InsertMember
<1>13. ASSUME NEW t \in Threads, InsertMany(t)
      PROVE  TableOK' /\ TableInDb' /\ DeleterOK'
  BY <1>13 DEF InsertMany
<1>14. ASSUME NEW t \in Threads, DeleteRow(t)
      PROVE  TableOK' /\ TableInDb' /\ DeleterOK'
  BY <1>14 DEF DeleteRow
<1>15. ASSUME NEW t \in Threads, StoreMessage(t)
      PROVE  TableOK' /\ TableInDb' /\ DeleterOK'
  BY <1>15 DEF StoreMessage
<1>16. ASSUME NEW t \in Threads, AppendMember(t)
      PROVE  TableOK' /\ TableInDb' /\ DeleterOK'
  BY <1>16 DEF AppendMember
<1>17. ASSUME NEW t \in Threads, RemoveMember(t)
      PROVE  TableOK' /\ TableInDb' /\ DeleterOK'
  BY <1>17 DEF RemoveMember
<1>18. ASSUME NEW t \in Threads, ReadMembers(t)
      PROVE  TableOK' /\ TableInDb' /\ DeleterOK'
  BY <1>18 DEF ReadMembers
<1>19. ASSUME NEW t \in Threads, NEW u \in Users, AppendOneOfMany(t, u)
      PROVE  TableOK' /\ TableInDb' /\ DeleterOK'
  BY <1>19 DEF AppendOneOfMany
<1>20. ASSUME NEW t \in Threads, NEW u \in Users, ForgetGroup(t, u)
      PROVE  TableOK' /\ TableInDb' /\ DeleterOK'
  BY <1>20 DEF ForgetGroup
<1>21. ASSUME NEW t \in Threads, DeleteRefused(t)
      PROVE  TableOK' /\ TableInDb' /\ DeleterOK'
  BY <1>21 DEF DeleteRefused
<1>22. ASSUME NEW t \in Threads, DeleteRows(t)
      PROVE  TableOK' /\ TableInDb' /\ DeleterOK'
  BY <1>22 DEF DeleteRows
<1>23. ASSUME NEW t \in Threads, FreeGroup(t)
      PROVE  TableOK' /\ TableInDb' /\ DeleterOK'
  BY <1>23 DEF FreeGroup
<1>24. ASSUME NEW t \in Threads, NEW a \in Blocks, InitServerGroup(t, a)
      PROVE  TableOK' /\ TableInDb' /\ DeleterOK'
  BY <1>24 DEF InitServerGroup
<1>25. ASSUME NEW t \in Threads, PublishChat(t)
      PROVE  TableOK' /\ TableInDb' /\ DeleterOK'
  <2>1. TableOK'
    BY <1>25 DEF PublishChat
  <2>2. TableInDb'
    <3>1. /\ TableInDb /\ groups' = groups /\ pc[t] = "publish"
          /\ \A s \in Threads \ {t} : pc'[s] = pc[s] /\ cid'[s] = cid[s]
          /\ \A c \in Ids \ {cid[t]} : chats'[c] = chats[c]
      BY <1>25 DEF PublishChat
    <3>0. cid[t] \in Chats => cid[t] \in groups
      BY <1>25 DEF PublishChat
    <3> HIDE DEF Inv, TypeOK, PointerOK, TableOK, DeleterOK, IdsUsed, CreatorOK, Fresh, Unpublished
    <3>2. QED
      BY <3>0, <3>1
  <2>3. DeleterOK'
    BY <1>25 DEF PublishChat
  <2>4. QED
    BY <2>1, <2>2, <2>3
<1>26. QED
  BY <1>1, <1>2, <1>3, <1>4, <1>5, <1>6, <1>7, <1>8, <1>9, <1>10, <1>11, <1>12, <1>13, <1>14, <1>15, <1>16, <1>17, <1>18, <1>19, <1>20, <1>21, <1>22, <1>23, <1>24, <1>25, Steps

LEMMA PointerStep ==
  ASSUME Inv, TypeOK', PointerOK', [Next]_vars
  PROVE  Current' /\ Committed' /\ NotReused'
<1> USE GroupAssumption DEF Inv, TypeOK, PointerOK, Current, Committed, NotReused, IdsUsed, DeleterOK, CreatorOK, Fresh, Unpublished, Held, TableOK, FreedLocked,
        Waiting, Working, Deleting, Creating, Ids, Me, Goto, Return, Unlock, db, heap, local
<1>1. CASE Restart
  BY <1>1 DEF Restart, LoadedChats, LoadedMem, LoadedIds, LoadedOwners, LoadedUsers, LoadedGroups, Loaded
<1>2. CASE UNCHANGED vars
  BY <1>2 DEF vars
<1>3. ASSUME NEW t \in Threads, NEW o \in Ops, NEW c \in Ids, NEW S \in SUBSET Users, FindChat(t, o, c, S)
      PROVE  Current' /\ Committed' /\ NotReused'
  <2>1. Current'
    BY <1>3 DEF FindChat
  <2>2. Committed'
    BY <1>3 DEF FindChat
  <2>3. NotReused'
    <3>1. /\ chat_id[chats[c]] = c /\ chats[c] \in Blocks
          /\ \A s \in Threads : pc[s] = "publish" => ptr[s] # chats[c]
      <4>1. chat_id[chats[c]] = c /\ chats[c] \in Blocks
        BY <1>3 DEF FindChat
      <4>2. \A s \in Threads : pc[s] = "publish" => ptr[s] # chats[c]
        <5>1. \A s \in Threads : pc[s] = "publish" => \A d \in Ids : chats[d] # ptr[s]
          OBVIOUS
        <5>2. QED
          BY <5>1
      <4>3. QED
        BY <4>1, <4>2
    <3>2. /\ pc' = [pc EXCEPT ![t] = "lock"] /\ cid' = [cid EXCEPT ![t] = c]
          /\ ptr' = [ptr EXCEPT ![t] = chats[c]] /\ chat_id' = chat_id
      BY <1>3 DEF FindChat
    <3>3. NotReused
      BY DEF Inv
    <3>4. QED
      BY <3>1, <3>2, <3>3 DEF NotReused
  <2>4. QED
    BY <2>1, <2>2, <2>3
<1>4. ASSUME NEW t \in Threads, NEW c \in Ids, FindChatToDelete(t, c)
      PROVE  Current' /\ Committed' /\ NotReused'
  BY <1>4 DEF FindChatToDelete
<1>5. ASSUME NEW t \in Threads, CreateRows(t)
      PROVE  Current' /\ Committed' /\ NotReused'
  BY <1>5 DEF CreateRows, StartCreate, InsertGroupRow
<1>6. ASSUME NEW t \in Threads, CreateRowsFail(t)
      PROVE  Current' /\ Committed' /\ NotReused'
  BY <1>6 DEF CreateRowsFail, StartCreate, InsertGroupRow
<1>7. ASSUME NEW t \in Threads, LockChat(t)
      PROVE  Current' /\ Committed' /\ NotReused'
  BY <1>7 DEF LockChat
<1>8. ASSUME NEW t \in Threads, LockDeleted(t)
      PROVE  Current' /\ Committed' /\ NotReused'
  BY <1>8 DEF LockDeleted
<1>9. ASSUME NEW t \in Threads, GivesUp(t)
      PROVE  Current' /\ Committed' /\ NotReused'
  BY <1>9 DEF GivesUp, GiveUp
<1>10. ASSUME NEW t \in Threads, Leaves(t)
      PROVE  Current' /\ Committed' /\ NotReused'
  BY <1>10 DEF Leaves
<1>11. ASSUME NEW t \in Threads, Answers(t)
      PROVE  Current' /\ Committed' /\ NotReused'
  BY <1>11 DEF Answers
<1>12. ASSUME NEW t \in Threads, InsertMember(t)
      PROVE  Current' /\ Committed' /\ NotReused'
  BY <1>12 DEF InsertMember, AddsOne, Insertable, Allowed
<1>13. ASSUME NEW t \in Threads, InsertMany(t)
      PROVE  Current' /\ Committed' /\ NotReused'
  BY <1>13 DEF InsertMany, Insertable, Allowed
<1>14. ASSUME NEW t \in Threads, DeleteRow(t)
      PROVE  Current' /\ Committed' /\ NotReused'
  BY <1>14 DEF DeleteRow
<1>15. ASSUME NEW t \in Threads, StoreMessage(t)
      PROVE  Current' /\ Committed' /\ NotReused'
  BY <1>15 DEF StoreMessage
<1>16. ASSUME NEW t \in Threads, AppendMember(t)
      PROVE  Current' /\ Committed' /\ NotReused'
  BY <1>16 DEF AppendMember
<1>17. ASSUME NEW t \in Threads, RemoveMember(t)
      PROVE  Current' /\ Committed' /\ NotReused'
  BY <1>17 DEF RemoveMember
<1>18. ASSUME NEW t \in Threads, ReadMembers(t)
      PROVE  Current' /\ Committed' /\ NotReused'
  BY <1>18 DEF ReadMembers
<1>19. ASSUME NEW t \in Threads, NEW u \in Users, AppendOneOfMany(t, u)
      PROVE  Current' /\ Committed' /\ NotReused'
  BY <1>19 DEF AppendOneOfMany
<1>20. ASSUME NEW t \in Threads, NEW u \in Users, ForgetGroup(t, u)
      PROVE  Current' /\ Committed' /\ NotReused'
  BY <1>20 DEF ForgetGroup
<1>21. ASSUME NEW t \in Threads, DeleteRefused(t)
      PROVE  Current' /\ Committed' /\ NotReused'
  BY <1>21 DEF DeleteRefused
<1>22. ASSUME NEW t \in Threads, DeleteRows(t)
      PROVE  Current' /\ Committed' /\ NotReused'
  BY <1>22 DEF DeleteRows
<1>23. ASSUME NEW t \in Threads, FreeGroup(t)
      PROVE  Current' /\ Committed' /\ NotReused'
  BY <1>23 DEF FreeGroup
<1>24. ASSUME NEW t \in Threads, NEW a \in Blocks, InitServerGroup(t, a)
      PROVE  Current' /\ Committed' /\ NotReused'
  BY <1>24 DEF InitServerGroup
<1>25. ASSUME NEW t \in Threads, PublishChat(t)
      PROVE  Current' /\ Committed' /\ NotReused'
  <2>1. Current'
    <3>1. /\ Current /\ groups' = groups /\ pc[t] = "publish" /\ pc'[t] = "idle"
          /\ \A s \in Threads \ {t} : pc'[s] = pc[s] /\ cid'[s] = cid[s] /\ ptr'[s] = ptr[s]
          /\ \A c \in Ids \ {cid[t]} : chats'[c] = chats[c]
      BY <1>25 DEF PublishChat
    <3>0. cid[t] \in Chats => chats[cid[t]] = NoBlock
      BY <1>25 DEF PublishChat
    <3>2. /\ cid \in [Threads -> Ids] /\ groups \subseteq Chats
          /\ \A s \in Threads : Waiting(s) \/ Working(s) => ptr[s] # NoBlock
      OBVIOUS
    <3> HIDE DEF Inv, TypeOK, PointerOK, TableOK, DeleterOK, IdsUsed, CreatorOK, Fresh, Unpublished,
             NotReused, Committed, Held, FreedLocked
    <3>3. QED
      BY <3>0, <3>1, <3>2
  <2>2. Committed'
    BY <1>25 DEF PublishChat
  <2>3. NotReused'
    BY <1>25 DEF PublishChat
  <2>4. QED
    BY <2>1, <2>2, <2>3
<1>26. QED
  BY <1>1, <1>2, <1>3, <1>4, <1>5, <1>6, <1>7, <1>8, <1>9, <1>10, <1>11, <1>12, <1>13, <1>14, <1>15, <1>16, <1>17, <1>18, <1>19, <1>20, <1>21, <1>22, <1>23, <1>24, <1>25, Steps

(* Whoever can lock a block waits at a live one.                           *)
LEMMA LockedLive ==
  ASSUME Inv, NEW t \in Threads, LockChat(t) \/ LockDeleted(t)
  PROVE  ptr[t] \in Blocks /\ mem[ptr[t]] = "live" /\ chat_mutex[ptr[t]] = NoThread
<1>0. TypeOK /\ PointerOK
  BY DEF Inv
<1>1. ptr[t] \in Blocks /\ chat_mutex[ptr[t]] = NoThread
  BY <1>0 DEF LockChat, LockDeleted, PointerOK, Waiting, Deleting
<1>2. CASE LockChat(t)
  <2>1. mem[ptr[t]] \notin {"freed", "unused"}
    BY <1>1, <1>2 DEF Inv, FreedLocked, LockChat, Waiting
  <2>2. QED
    BY <1>0, <1>1, <2>1 DEF TypeOK
<1>3. CASE LockDeleted(t)
  <2>1. chats[cid[t]] = ptr[t] /\ cid[t] \in Ids
    BY <1>0, <1>3 DEF LockDeleted, Inv, DeleterOK, Deleting, TypeOK
  <2>2. QED
    BY <1>1, <2>1, GroupAssumption DEF Inv, TableOK
<1>4. QED
  BY <1>2, <1>3, <1>1

(* The creator of a chat is alone with it: no live block but his own has   *)
(* the id of the chat.                                                     *)
LEMMA Apart ==
  ASSUME Inv, NEW a \in Blocks, mem[a] = "live", NEW s \in Threads, Creating(s), cid[s] \in Chats,
         chat_id[a] = cid[s]
  PROVE  pc[s] = "publish" /\ ptr[s] = a
<1>1. Fresh(s)
  BY DEF Inv, CreatorOK
<1>2. chats[chat_id[a]] # a
  BY <1>1, GroupAssumption DEF Fresh
<1>3. PICK r \in Threads : pc[r] = "publish" /\ ptr[r] = a
  BY <1>2 DEF Inv, LiveKnown
<1>4. Creating(r) /\ cid[r] = cid[s]
  BY <1>3 DEF Inv, CreatorOK, Unpublished, Creating
<1>5. r = s
  BY <1>1, <1>4 DEF Fresh
<1>6. QED
  BY <1>3, <1>5

(* So the chat of a group is in one live block.                            *)
LEMMA OneBlock ==
  ASSUME Inv, NEW a \in Blocks, NEW b \in Blocks, mem[a] = "live", mem[b] = "live",
         chat_id[a] = chat_id[b], chat_id[a] \in Chats
  PROVE  a = b
<1>1. ASSUME NEW s \in Threads, pc[s] = "publish", ptr[s] \in {a, b}
      PROVE  a = b
  <2>1. Creating(s) /\ cid[s] = chat_id[a]
    BY <1>1 DEF Inv, CreatorOK, Unpublished, Creating
  <2>2. ptr[s] = a /\ ptr[s] = b
    BY <2>1, Apart
  <2>3. QED
    BY <2>2
<1>2. \/ chats[chat_id[a]] = a /\ chats[chat_id[b]] = b
      \/ \E s \in Threads : pc[s] = "publish" /\ ptr[s] \in {a, b}
  BY DEF Inv, LiveKnown
<1>3. QED
  BY <1>1, <1>2

(* The chat a thread has locked has the id of its request, if that group   *)
(* exists.                                                                 *)
LEMMA OwnId ==
  ASSUME Inv, NEW t \in Threads, Working(t), cid[t] \in groups
  PROVE  chats[cid[t]] = ptr[t] /\ chat_id[ptr[t]] = cid[t]
<1>1. chats[cid[t]] = ptr[t] /\ ptr[t] # NoBlock /\ cid[t] \in Ids
  BY GroupAssumption DEF Inv, Current, PointerOK, TypeOK
<1>2. QED
  BY <1>1 DEF Inv, TableOK

(* What is known of the chat in a block that nobody else has locked.       *)
LEMMA HeldBlock ==
  ASSUME Inv, NEW t \in Threads, NEW p \in Blocks, mem[p] = "live", chat_id[p] \in groups,
         \/ chat_mutex[p] = t
         \/ chat_mutex[p] = NoThread /\ Adding(t) = {} /\ Removing(t) = {}
  PROVE  /\ owner_id[p] = ownerId[chat_id[p]]
         /\ group_users[chat_id[p]] \cap unsaved[chat_id[p]] = {}
         /\ \A u \in Users : users_id[p][u] \in {0, 1}
         /\ Adding(t) \subseteq Everyone(p)
         /\ Removing(t) \cap Everyone(p) = {}
         /\ Members(p) = (Everyone(p) \ Adding(t)) \cup Removing(t)
<1>1. BlockOK(p)
  BY DEF Inv, Content
<1>2. QED
  BY <1>1 DEF BlockOK

(* What has to be shown of it when the thread keeps it or takes it.        *)
LEMMA HeldNext ==
  ASSUME NEW t \in Threads, NEW p \in Blocks, chat_mutex'[p] = t,
         owner_id'[p] = ownerId'[chat_id'[p]],
         group_users'[chat_id'[p]] \cap unsaved'[chat_id'[p]] = {},
         \A u \in Users : users_id'[p][u] \in {0, 1},
         Adding(t)' \subseteq Everyone(p)',
         Removing(t)' \cap Everyone(p)' = {},
         Members(p)' = (Everyone(p)' \ Adding(t)') \cup Removing(t)'
  PROVE  BlockOK(p)'
BY GroupAssumption DEF BlockOK

(* What a thread changes in the chat it has locked changes no other one.   *)
LEMMA OneChat ==
  ASSUME Inv, TypeOK', NEW t \in Threads, NEW p \in Blocks, p = ptr[t], mem[p] = "live",
         \A s \in Threads \ {t} : pc'[s] = pc[s] /\ who'[s] = who[s],
         \A a \in Blocks \ {p} : users_id'[a] = users_id[a] /\ chat_mutex'[a] = chat_mutex[a],
         \A c \in groups : c # chat_id[p] => group_users'[c] = group_users[c] /\ unsaved'[c] = unsaved[c],
         UNCHANGED <<groups, ownerId, mem, chat_id, owner_id>>,
         chat_id[p] \in groups => BlockOK(p)'
  PROVE  Content'
<1> SUFFICES ASSUME NEW a \in Blocks \ {p}, mem[a] = "live", chat_id[a] \in groups
             PROVE  BlockOK(a)'
  BY DEF Content
<1>0. chat_id[a] \in Chats
  BY DEF Inv, TypeOK
<1>1. BlockOK(a)
  BY DEF Inv, Content
<1>2. chat_mutex[a] # t
  BY GroupAssumption DEF Inv, Holder
<1>3. \A s \in Threads \ {t} : Adding(s)' = Adding(s) /\ Removing(s)' = Removing(s)
  BY DEF Adding, Removing
<1>4. chat_id[a] # chat_id[p]
  BY <1>0, OneBlock
<1>5. Everyone(a)' = Everyone(a)
  BY <1>4 DEF Everyone
<1>6. QED
  BY <1>1, <1>2, <1>3, <1>4, <1>5 DEF BlockOK, Members

(* A chat that is about to be created is nobody else's business.           *)
LEMMA CreatorApart ==
  ASSUME Inv, NEW t \in Threads, InsertMember(t) \/ InsertMany(t) \/ DeleteRow(t)
  PROVE  CreatorOK'
<1>0. TypeOK /\ PointerOK /\ CreatorOK
  BY DEF Inv
<1>1. /\ UNCHANGED <<groups, ownerId, chats, mem, chat_id, cid, ptr>>
      /\ Working(t) /\ pc[t] = "locked" /\ ptr[t] \in Blocks /\ mem[ptr[t]] = "live"
      /\ \A s \in Threads : Creating(s)' => pc'[s] = pc[s]
  <2>1. UNCHANGED <<groups, ownerId, chats, mem, chat_id, cid, ptr>> /\ Working(t) /\ pc[t] = "locked"
    BY DEF InsertMember, InsertMany, DeleteRow, Working, db, heap, local
  <2>2. \E l \in {"append", "append_many", "remove"} : pc' = [pc EXCEPT ![t] = l]
    BY DEF InsertMember, InsertMany, DeleteRow, Goto
  <2>3. \A s \in Threads : Creating(s)' => pc'[s] = pc[s]
    BY <1>0, <2>2 DEF TypeOK, Creating
  <2>4. QED
    BY <1>0, <2>1, <2>3 DEF PointerOK, Inv, Held, Working
<1>2. \A c \in Chats : c # chat_id[ptr[t]] => group_users'[c] = group_users[c] /\ unsaved'[c] = unsaved[c]
  <2>1. unsaved' = unsaved \/ \E S : unsaved' = [unsaved EXCEPT ![chat_id[ptr[t]]] = S]
    BY DEF InsertMember, InsertMany, DeleteRow, heap
  <2>2. \/ group_users' = group_users
        \/ cid[t] \in groups /\ \E S : group_users' = [group_users EXCEPT ![cid[t]] = S]
    BY DEF InsertMember, InsertMany, DeleteRow, Insertable
  <2>3. QED
    BY <1>0, <1>1, <2>1, <2>2, OwnId DEF TypeOK
<1>3. ASSUME NEW s \in Threads, Creating(s), cid[s] \in Chats, pc'[s] = pc[s]
      PROVE  Fresh(s)'
  <2>1. Fresh(s)
    BY <1>0, <1>3 DEF CreatorOK
  <2>2. pc[s] = "created" => cid[s] # chat_id[ptr[t]]
    BY <1>1, <1>3, Apart
  <2>3. \A r \in Threads : Creating(r)' => Creating(r)
    BY <1>1 DEF Creating
  <2>4. QED
    BY <1>1, <1>2, <1>3, <2>1, <2>2, <2>3 DEF Fresh, Me
<1>4. ASSUME NEW s \in Threads, pc[s] = "publish", pc'[s] = pc[s]
      PROVE  Unpublished(s)'
  <2>1. Unpublished(s)
    BY <1>0, <1>4 DEF CreatorOK
  <2>2. \A r \in Threads : pc'[r] = "publish" => pc[r] = "publish"
    BY <1>1 DEF Creating
  <2>3. QED
    BY <1>1, <2>1, <2>2 DEF Unpublished
<1>5. QED
  BY <1>1, <1>3, <1>4 DEF CreatorOK, Creating

LEMMA CreatorInit ==
  ASSUME Inv, TypeOK', NEW t \in Threads, NEW a \in Blocks, InitServerGroup(t, a)
  PROVE  CreatorOK'
<1>0. TypeOK /\ PointerOK /\ CreatorOK /\ TableOK
  BY DEF Inv
<1>1. /\ UNCHANGED <<groups, ownerId, group_users, unsaved, chats, cid>>
      /\ pc[t] = "created" /\ pc' = [pc EXCEPT ![t] = "publish"] /\ ptr' = [ptr EXCEPT ![t] = a]
      /\ mem[a] # "live"
      /\ \A b \in Blocks \ {a} : mem'[b] = mem[b] /\ chat_id'[b] = chat_id[b]
  BY <1>0 DEF InitServerGroup, Goto, TypeOK, db
<1>2. \A s \in Threads : pc[s] = "publish" => ptr[s] # a
  BY <1>0, <1>1 DEF CreatorOK, Unpublished
<1>3. \A c \in Ids : chats[c] # a
  BY <1>0, <1>1, GroupAssumption DEF TableOK
<1>4. \A s \in Threads : (Creating(s)' <=> Creating(s)) /\ (pc'[s] = "created" => pc[s] = "created")
  BY <1>0, <1>1 DEF Creating, TypeOK
<1>5. \A s \in Threads : Creating(s) /\ cid[s] \in Chats => Fresh(s)'
  BY <1>0, <1>1, <1>4 DEF CreatorOK, Fresh, Me
<1>6. Unpublished(t)'
  <2>1. mem'[a] = "live" /\ chat_id'[a] = cid[t] /\ ptr'[t] = a
    BY <1>0 DEF InitServerGroup, TypeOK
  <2>2. \A s \in Threads : pc'[s] = "publish" /\ ptr'[s] = a => s = t
    BY <1>0, <1>1, <1>2 DEF TypeOK
  <2>3. QED
    BY <1>1, <1>3, <2>1, <2>2 DEF Unpublished
<1>7. ASSUME NEW s \in Threads \ {t}, pc[s] = "publish"
      PROVE  Unpublished(s)'
  <2>1. Unpublished(s) /\ ptr[s] \in Blocks \ {a} /\ ptr'[s] = ptr[s]
    BY <1>0, <1>1, <1>2, <1>7 DEF CreatorOK, PointerOK, TypeOK
  <2>2. \A r \in Threads : pc'[r] = "publish" /\ ptr'[r] = ptr[s] => r = s
    BY <1>0, <1>1, <2>1 DEF Unpublished, TypeOK
  <2>3. QED
    BY <1>1, <2>1, <2>2 DEF Unpublished
<1>8. QED
  BY <1>0, <1>1, <1>4, <1>5, <1>6, <1>7 DEF CreatorOK, TypeOK

LEMMA CreatorStep ==
  ASSUME Inv, TypeOK', PointerOK', [Next]_vars
  PROVE  CreatorOK'
<1>1. ASSUME NEW t \in Threads, InsertMember(t) \/ InsertMany(t) \/ DeleteRow(t)
      PROVE  CreatorOK'
  BY <1>1, CreatorApart
<1>3. ASSUME NEW t \in Threads, NEW a \in Blocks, InitServerGroup(t, a)
      PROVE  CreatorOK'
  BY <1>3, CreatorInit
<1> USE GroupAssumption DEF Inv, TypeOK, PointerOK, CreatorOK, Fresh, Unpublished, TableOK, IdsUsed, Current, Committed, DeleterOK, Held, NotReused,
        Waiting, Working, Deleting, Creating, Ids, Me, Goto, Return, Unlock, db, heap, local
<1>4. CASE Restart
  BY <1>4 DEF Restart, LoadedChats, LoadedMem, LoadedIds, LoadedOwners, LoadedUsers, LoadedGroups, Loaded
<1>5. CASE UNCHANGED vars
  BY <1>5 DEF vars
<1>6. ASSUME NEW t \in Threads, NEW o \in Ops, NEW c \in Ids, NEW S \in SUBSET Users, FindChat(t, o, c, S)
      PROVE  CreatorOK'
  BY <1>6 DEF FindChat
<1>7. ASSUME NEW t \in Threads, NEW c \in Ids, FindChatToDelete(t, c)
      PROVE  CreatorOK'
  BY <1>7 DEF FindChatToDelete
<1>8. ASSUME NEW t \in Threads, CreateRows(t)
      PROVE  CreatorOK'
  <2>1. PICK c \in Chats : StartCreate(t, c) /\ InsertGroupRow(t, c, {Me(t)})
    BY <1>8 DEF CreateRows
  <2>2. c \notin groups /\ unsaved[c] = {} /\ chats[c] = NoBlock
    BY <2>1 DEF InsertGroupRow, RowsOfGroups
  <2>3. QED
    BY <2>1, <2>2 DEF StartCreate, InsertGroupRow
<1>9. ASSUME NEW t \in Threads, CreateRowsFail(t)
      PROVE  CreatorOK'
  <2>1. /\ StartCreate(t, BadId) /\ groups \subseteq groups'
        /\ \A c \in groups : ownerId'[c] = ownerId[c] /\ group_users'[c] = group_users[c]
    BY <1>9 DEF CreateRowsFail, StartCreate, InsertGroupRow
  <2>2. QED
    BY <2>1 DEF StartCreate
<1>10. ASSUME NEW t \in Threads, LockChat(t)
      PROVE  CreatorOK'
  BY <1>10 DEF LockChat
<1>11. ASSUME NEW t \in Threads, LockDeleted(t)
      PROVE  CreatorOK'
  BY <1>11 DEF LockDeleted
<1>12. ASSUME NEW t \in Threads, GivesUp(t)
      PROVE  CreatorOK'
  BY <1>12 DEF GivesUp, GiveUp
<1>13. ASSUME NEW t \in Threads, Leaves(t)
      PROVE  CreatorOK'
  BY <1>13 DEF Leaves
<1>14. ASSUME NEW t \in Threads, Answers(t)
      PROVE  CreatorOK'
  BY <1>14 DEF Answers
<1>2. ASSUME NEW t \in Threads, NEW u \in Users, AppendOneOfMany(t, u)
      PROVE  CreatorOK'
  BY <1>2 DEF AppendOneOfMany
<1>15. ASSUME NEW t \in Threads, AppendMember(t)
      PROVE  CreatorOK'
  BY <1>15 DEF AppendMember
<1>16. ASSUME NEW t \in Threads, RemoveMember(t)
      PROVE  CreatorOK'
  BY <1>16 DEF RemoveMember
<1>17. ASSUME NEW t \in Threads, StoreMessage(t)
      PROVE  CreatorOK'
  BY <1>17 DEF StoreMessage
<1>18. ASSUME NEW t \in Threads, ReadMembers(t)
      PROVE  CreatorOK'
  BY <1>18 DEF ReadMembers
<1>19. ASSUME NEW t \in Threads, NEW u \in Users, ForgetGroup(t, u)
      PROVE  CreatorOK'
  BY <1>19 DEF ForgetGroup
<1>20. ASSUME NEW t \in Threads, DeleteRefused(t)
      PROVE  CreatorOK'
  BY <1>20 DEF DeleteRefused
<1>21. ASSUME NEW t \in Threads, DeleteRows(t)
      PROVE  CreatorOK'
  BY <1>21 DEF DeleteRows
<1>22. ASSUME NEW t \in Threads, FreeGroup(t)
      PROVE  CreatorOK'
  BY <1>22 DEF FreeGroup
<1>23. ASSUME NEW t \in Threads, PublishChat(t)
      PROVE  CreatorOK'
  BY <1>23 DEF PublishChat
<1>24. QED
  BY <1>1, <1>2, <1>3, <1>4, <1>5, <1>6, <1>7, <1>8, <1>9, <1>10, <1>11, <1>12, <1>13, <1>14, <1>15, <1>16, <1>17, <1>18, <1>19, <1>20, <1>21, <1>22, <1>23, Steps

(* A thread that leaves its critical section leaves a chat that agrees.    *)
LEMMA ContentUnlock ==
  ASSUME Inv, TypeOK', NEW t \in Threads,
         GivesUp(t) \/ AppendMember(t) \/ RemoveMember(t) \/ ReadMembers(t) \/ DeleteRefused(t)
  PROVE  Content'
<1>0. TypeOK /\ PointerOK /\ Held /\ Content
  BY DEF Inv
<1>1. /\ UNCHANGED <<groups, ownerId, group_users, unsaved, mem, chat_id, owner_id>>
      /\ \A s \in Threads \ {t} : pc'[s] = pc[s] /\ who'[s] = who[s]
      /\ pc'[t] \in {"idle", "append_group", "remove_group"}
      /\ chat_mutex' = [chat_mutex EXCEPT ![ptr[t]] = NoThread]
  BY <1>0 DEF GivesUp, AppendMember, RemoveMember, ReadMembers, DeleteRefused,
              Goto, Return, Unlock, db, heap, local, TypeOK
<1>2. Working(t) \/ pc[t] = "locked_deleted"
  BY DEF GivesUp, AppendMember, RemoveMember, ReadMembers, DeleteRefused, Working
<1>3. PICK p \in Blocks : p = ptr[t] /\ chat_mutex[p] = t /\ mem[p] = "live"
  BY <1>0, <1>2 DEF PointerOK, Held, Deleting
<1>4. \A a \in Blocks \ {p} : users_id'[a] = users_id[a] /\ chat_mutex'[a] = chat_mutex[a]
  BY <1>0, <1>1, <1>3 DEF GivesUp, AppendMember, RemoveMember, ReadMembers, DeleteRefused, TypeOK
<1>5. ASSUME chat_id[p] \in groups
      PROVE  BlockOK(p)'
  <2>1. /\ owner_id[p] = ownerId[chat_id[p]]
        /\ group_users[chat_id[p]] \cap unsaved[chat_id[p]] = {}
        /\ \A u \in Users : users_id[p][u] \in {0, 1}
        /\ Adding(t) \subseteq Everyone(p)
        /\ Removing(t) \cap Everyone(p) = {}
        /\ Members(p) = (Everyone(p) \ Adding(t)) \cup Removing(t)
    BY <1>3, <1>5, HeldBlock
  <2>2. /\ \A u \in Users : users_id'[p][u] \in {0, 1}
        /\ \A u \in Users : users_id'[p][u] > 0 <=> u \in Everyone(p)
    <3>1. CASE AppendMember(t)
      <4>1. PICK u \in who[t] : users_id' = [users_id EXCEPT ![p] = Plus(@, u)]
        BY <1>3, <3>1 DEF AppendMember
      <4>2. who[t] = {u} /\ Adding(t) = {u} /\ Removing(t) = {} /\ u \in Users
        <5>1. pc[t] = "append" /\ \E v \in Users : who[t] = {v}
          BY <3>1 DEF AppendMember, Inv, RequestOK
        <5>2. QED
          BY <4>1, <5>1 DEF Adding, Removing
      <4>3. users_id[p][u] = 0
        BY <2>1, <4>2 DEF Members
      <4>4. \A v \in Users : users_id'[p][v] = IF v = u THEN 1 ELSE users_id[p][v]
        BY <1>0, <4>1, <4>2, <4>3 DEF TypeOK, Plus
      <4>5. QED
        BY <2>1, <4>2, <4>4 DEF Members
    <3>2. CASE RemoveMember(t)
      <4>1. PICK u \in who[t] : \E arr \in RemoveFromIntarr(users_id[p], u) :
                                  users_id' = [users_id EXCEPT ![p] = arr]
        BY <1>3, <3>2 DEF RemoveMember
      <4>2. who[t] = {u} /\ Adding(t) = {} /\ Removing(t) = {u} /\ u \in Users
        <5>1. pc[t] = "remove" /\ \E v \in Users : who[t] = {v}
          BY <3>2 DEF RemoveMember, Inv, RequestOK
        <5>2. QED
          BY <4>1, <5>1 DEF Adding, Removing
      <4>3. users_id[p][u] = 1
        BY <2>1, <4>2 DEF Members
      <4>4. users_id' = [users_id EXCEPT ![p] = [users_id[p] EXCEPT ![u] = 0]]
        BY <4>1, <4>3, RemoveOne
      <4>5. \A v \in Users : users_id'[p][v] = IF v = u THEN 0 ELSE users_id[p][v]
        BY <1>0, <4>2, <4>4 DEF TypeOK
      <4>6. QED
        BY <2>1, <4>2, <4>5 DEF Members
    <3>3. CASE UNCHANGED users_id /\ Adding(t) = {} /\ Removing(t) = {}
      BY <2>1, <3>3 DEF Members
    <3>4. QED
      BY <3>1, <3>2, <3>3 DEF GivesUp, ReadMembers, DeleteRefused, Adding, Removing
  <2>3. Everyone(p) \in SUBSET Users
    BY <1>0, <1>5 DEF TypeOK, Everyone
  <2>4. {u \in Users : users_id'[p][u] > 0} = Everyone(p)
    BY <2>2, <2>3
  <2>5. chat_mutex'[p] = NoThread /\ Everyone(p)' = Everyone(p)
    BY <1>0, <1>1, <1>3 DEF TypeOK, Everyone
  <2>6. QED
    BY <1>1, <2>1, <2>2, <2>4, <2>5, GroupAssumption DEF BlockOK, Members
<1>6. QED
  BY <1>1, <1>3, <1>4, <1>5, OneChat

(* A thread that locks a chat, or changes its rows, owes the array what it *)
(* has still to do there, and touches no other chat.                       *)
LEMMA ContentInside ==
  ASSUME Inv, TypeOK', NEW t \in Threads,
         LockChat(t) \/ LockDeleted(t) \/ InsertMember(t) \/ InsertMany(t) \/ DeleteRow(t)
  PROVE  Content'
<1>0. TypeOK /\ PointerOK /\ Held /\ Content
  BY DEF Inv
<1>1. /\ UNCHANGED <<groups, ownerId, users_id, mem, chat_id, owner_id, who, ptr, cid>>
      /\ \A s \in Threads \ {t} : pc'[s] = pc[s]
      /\ pc[t] \in {"lock", "lock_deleted", "locked"}
  <2>1. /\ UNCHANGED <<groups, ownerId, users_id, mem, chat_id, owner_id, who, ptr, cid>>
        /\ pc[t] \in {"lock", "lock_deleted", "locked"}
    BY DEF LockChat, LockDeleted, InsertMember, InsertMany, DeleteRow, db, heap, local
  <2>2. \E l \in PCs : pc' = [pc EXCEPT ![t] = l]
    BY DEF LockChat, LockDeleted, InsertMember, InsertMany, DeleteRow, Goto, PCs
  <2>3. QED
    BY <1>0, <2>1, <2>2 DEF TypeOK
<1>2. PICK p \in Blocks : /\ p = ptr[t] /\ mem[p] = "live" /\ chat_mutex[p] \in {t, NoThread}
                          /\ chat_mutex' = [chat_mutex EXCEPT ![p] = t]
  <2>1. CASE LockChat(t) \/ LockDeleted(t)
    BY <2>1, LockedLive DEF LockChat, LockDeleted
  <2>2. CASE InsertMember(t) \/ InsertMany(t) \/ DeleteRow(t)
    <3>1. Working(t) /\ chat_mutex' = chat_mutex
      BY <2>2 DEF InsertMember, InsertMany, DeleteRow, Working
    <3>2. ptr[t] \in Blocks /\ mem[ptr[t]] = "live" /\ chat_mutex[ptr[t]] = t
      BY <1>0, <3>1 DEF PointerOK, Held
    <3>3. QED
      BY <1>0, <3>1, <3>2 DEF TypeOK
  <2>3. QED
    BY <2>1, <2>2
<1>3. pc[t] = "locked" /\ cid[t] \in groups => chat_id[p] = cid[t]
  BY <1>2, OwnId DEF Working
<1>4. \/ (LockChat(t) \/ LockDeleted(t)) /\ UNCHANGED <<group_users, unsaved>>
      \/ /\ (InsertMember(t) \/ InsertMany(t)) /\ who[t] \cap Members(p) = {}
         /\ chat_id[p] = cid[t] /\ cid[t] \in groups
         /\ group_users' = [group_users EXCEPT ![chat_id[p]] = @ \cup who[t]] /\ UNCHANGED unsaved
      \/ /\ InsertMany(t) /\ who[t] \cap Members(p) = {} /\ UNCHANGED group_users
         /\ unsaved' = IF chat_id[p] \in groups THEN [unsaved EXCEPT ![chat_id[p]] = @ \cup who[t]]
                                                ELSE unsaved
      \/ /\ DeleteRow(t) /\ chat_id[p] = cid[t] /\ cid[t] \in groups
         /\ who[t] \subseteq group_users[chat_id[p]]
         /\ group_users' = [group_users EXCEPT ![chat_id[p]] = @ \ who[t]] /\ UNCHANGED unsaved
  <2>1. CASE LockChat(t) \/ LockDeleted(t)
    BY <2>1 DEF LockChat, LockDeleted, db, heap
  <2>2. CASE InsertMember(t)
    BY <1>2, <1>3, <2>2 DEF InsertMember, AddsOne, Allowed, Insertable, heap
  <2>3. CASE InsertMany(t)
    BY <1>2, <1>3, <2>3 DEF InsertMany, Allowed, Insertable
  <2>4. CASE DeleteRow(t)
    BY <1>2, <1>3, <2>4 DEF DeleteRow, heap
  <2>5. QED
    BY <2>1, <2>2, <2>3, <2>4
<1>5. \A c \in groups : c # chat_id[p] => group_users'[c] = group_users[c] /\ unsaved'[c] = unsaved[c]
  BY <1>0, <1>4 DEF TypeOK
<1>6. ASSUME chat_id[p] \in groups
      PROVE  BlockOK(p)'
  <2>0. Adding(t) = {} /\ Removing(t) = {} /\ chat_id[p] \in Chats /\ who[t] \in SUBSET Users
    BY <1>0, <1>1, <1>6 DEF Adding, Removing, TypeOK
  <2>1. /\ owner_id[p] = ownerId[chat_id[p]]
        /\ group_users[chat_id[p]] \cap unsaved[chat_id[p]] = {}
        /\ \A u \in Users : users_id[p][u] \in {0, 1}
        /\ Members(p) = Everyone(p)
    <3>1. \/ chat_mutex[p] = t
          \/ chat_mutex[p] = NoThread /\ Adding(t) = {} /\ Removing(t) = {}
      BY <1>2, <2>0
    <3>2. Members(p) = (Everyone(p) \ {}) \cup {}
      BY <1>2, <1>6, <2>0, <3>1, HeldBlock
    <3>3. QED
      BY <1>2, <1>6, <3>1, <3>2, HeldBlock
  <2>2. /\ chat_mutex'[p] = t /\ owner_id'[p] = ownerId'[chat_id'[p]]
        /\ \A u \in Users : users_id'[p][u] \in {0, 1}
        /\ Members(p)' = Members(p)
    BY <1>0, <1>1, <1>2, <2>1 DEF TypeOK, Members
  <2>3. CASE (LockChat(t) \/ LockDeleted(t)) /\ UNCHANGED <<group_users, unsaved>>
    <3>1. Adding(t)' = {} /\ Removing(t)' = {}
      BY <1>0, <2>3 DEF LockChat, LockDeleted, Goto, Adding, Removing, TypeOK
    <3>2. Everyone(p)' = Everyone(p)
      BY <1>1, <2>3 DEF Everyone
    <3>3. QED
      BY <1>1, <2>1, <2>2, <2>3, <3>1, <3>2, HeldNext
  <2>4. CASE /\ InsertMember(t) \/ InsertMany(t)
             /\ who[t] \cap Members(p) = {}
             /\ \/ /\ group_users' = [group_users EXCEPT ![chat_id[p]] = @ \cup who[t]]
                   /\ UNCHANGED unsaved
                \/ /\ unsaved' = [unsaved EXCEPT ![chat_id[p]] = @ \cup who[t]]
                   /\ UNCHANGED group_users
    <3>1. Adding(t)' = who[t] /\ Removing(t)' = {}
      BY <1>0, <1>1, <2>4 DEF InsertMember, InsertMany, Goto, Adding, Removing, TypeOK
    <3>2. Everyone(p)' = Everyone(p) \cup who[t]
      BY <1>0, <1>1, <2>0, <2>4 DEF Everyone, TypeOK
    <3>3. group_users'[chat_id'[p]] \cap unsaved'[chat_id'[p]] = {}
      <4>1. who[t] \cap (group_users[chat_id[p]] \cup unsaved[chat_id[p]]) = {}
        BY <2>1, <2>4 DEF Everyone
      <4>2. QED
        BY <1>0, <1>1, <2>0, <2>1, <2>4, <4>1 DEF TypeOK
    <3>4. Members(p)' = (Everyone(p)' \ Adding(t)') \cup Removing(t)'
      BY <2>1, <2>2, <2>4, <3>1, <3>2
    <3>5. Adding(t)' \subseteq Everyone(p)' /\ Removing(t)' \cap Everyone(p)' = {}
      BY <3>1, <3>2
    <3>6. QED
      BY <2>2, <3>3, <3>4, <3>5, HeldNext
  <2>5. CASE /\ DeleteRow(t) /\ who[t] \subseteq group_users[chat_id[p]]
             /\ group_users' = [group_users EXCEPT ![chat_id[p]] = @ \ who[t]] /\ UNCHANGED unsaved
    <3>1. Adding(t)' = {} /\ Removing(t)' = who[t]
      BY <1>0, <1>1, <2>5 DEF DeleteRow, Goto, Adding, Removing, TypeOK
    <3>2. Everyone(p)' = (group_users[chat_id[p]] \ who[t]) \cup unsaved[chat_id[p]]
      BY <1>0, <1>1, <2>0, <2>5 DEF Everyone, TypeOK
    <3>3. group_users'[chat_id'[p]] \cap unsaved'[chat_id'[p]] = {}
      BY <1>0, <1>1, <2>0, <2>1, <2>5 DEF TypeOK
    <3>4. Members(p)' = (Everyone(p)' \ Adding(t)') \cup Removing(t)'
      BY <2>1, <2>2, <2>5, <3>1, <3>2 DEF Everyone
    <3>5. Adding(t)' \subseteq Everyone(p)' /\ Removing(t)' \cap Everyone(p)' = {}
      BY <2>1, <2>5, <3>1, <3>2
    <3>6. QED
      BY <2>2, <3>3, <3>4, <3>5, HeldNext
  <2>6. QED
    BY <1>4, <1>6, <2>3, <2>4, <2>5
<1>7. \A a \in Blocks \ {p} : users_id'[a] = users_id[a] /\ chat_mutex'[a] = chat_mutex[a]
  BY <1>0, <1>1, <1>2 DEF TypeOK
<1>8. \A s \in Threads \ {t} : pc'[s] = pc[s] /\ who'[s] = who[s]
  BY <1>1
<1>9. QED
  BY <1>1, <1>2, <1>5, <1>6, <1>7, <1>8, OneChat

(* add_many puts one of its users after the other into the chat it holds.  *)
LEMMA ContentMany ==
  ASSUME Inv, TypeOK', NEW t \in Threads, NEW u \in Users, AppendOneOfMany(t, u)
  PROVE  Content'
<1>0. TypeOK /\ PointerOK /\ Held /\ Content
  BY DEF Inv
<1>1. /\ UNCHANGED <<groups, ownerId, group_users, unsaved, mem, chat_id, owner_id, chat_mutex, pc, ptr>>
      /\ pc[t] = "append_many" /\ u \in who[t]
      /\ who' = [who EXCEPT ![t] = who[t] \ {u}]
      /\ users_id' = [users_id EXCEPT ![ptr[t]] = Plus(users_id[ptr[t]], u)]
  BY DEF AppendOneOfMany, db, heap
<1>2. PICK p \in Blocks : p = ptr[t] /\ chat_mutex[p] = t /\ mem[p] = "live"
  BY <1>0, <1>1 DEF PointerOK, Held, Working
<1>3. \A a \in Blocks \ {p} : users_id'[a] = users_id[a] /\ chat_mutex'[a] = chat_mutex[a]
  BY <1>0, <1>1, <1>2 DEF TypeOK
<1>4. ASSUME chat_id[p] \in groups
      PROVE  BlockOK(p)'
  <2>0. Adding(t) = who[t] /\ Removing(t) = {}
    BY <1>1 DEF Adding, Removing
  <2>1. /\ owner_id[p] = ownerId[chat_id[p]]
        /\ group_users[chat_id[p]] \cap unsaved[chat_id[p]] = {}
        /\ \A v \in Users : users_id[p][v] \in {0, 1}
        /\ who[t] \subseteq Everyone(p)
        /\ Members(p) = Everyone(p) \ who[t]
    BY <1>2, <1>4, <2>0, HeldBlock
  <2>2. users_id[p][u] = 0
    BY <1>1, <2>1 DEF Members
  <2>3. \A v \in Users : users_id'[p][v] = IF v = u THEN 1 ELSE users_id[p][v]
    BY <1>0, <1>1, <1>2, <2>2 DEF TypeOK, Plus
  <2>4. Adding(t)' = who[t] \ {u} /\ Removing(t)' = {} /\ Everyone(p)' = Everyone(p)
    BY <1>0, <1>1 DEF Adding, Removing, Everyone, TypeOK
  <2>5. Members(p)' = (Everyone(p)' \ Adding(t)') \cup Removing(t)'
    <3>1. Members(p)' = Members(p) \cup {u}
      BY <2>2, <2>3 DEF Members
    <3>2. QED
      BY <1>1, <2>1, <2>4, <3>1
  <2>6. \A v \in Users : users_id'[p][v] \in {0, 1}
    BY <2>1, <2>3
  <2>7. QED
    BY <1>1, <1>2, <2>1, <2>4, <2>5, <2>6, HeldNext
<1>5. \A s \in Threads \ {t} : pc'[s] = pc[s] /\ who'[s] = who[s]
  BY <1>0, <1>1 DEF TypeOK
<1>6. QED
  BY <1>1, <1>2, <1>3, <1>4, <1>5, OneChat

(* Chats appear in memory with their content and disappear with it.        *)
LEMMA ContentFree ==
  ASSUME Inv, TypeOK', NEW t \in Threads, FreeGroup(t)
  PROVE  Content'
<1>0. TypeOK /\ Content
  BY DEF Inv
<1>1. /\ UNCHANGED <<groups, ownerId, group_users, unsaved, chat_id, owner_id, users_id, chat_mutex>>
      /\ \A a \in Blocks : mem'[a] = "live" => mem[a] = "live"
      /\ pc[t] = "forget" /\ pc'[t] = "idle"
      /\ \A s \in Threads \ {t} : pc'[s] = pc[s] /\ who'[s] = who[s]
  BY <1>0 DEF FreeGroup, Return, Goto, db, TypeOK
<1>2. \A s \in Threads : Adding(s)' = Adding(s) /\ Removing(s)' = Removing(s)
  BY <1>1 DEF Adding, Removing
<1>3. \A a \in Blocks : BlockOK(a) => BlockOK(a)'
  BY <1>1, <1>2 DEF BlockOK, Members, Everyone
<1>4. QED
  BY <1>0, <1>1, <1>3 DEF Content

LEMMA ContentInit ==
  ASSUME Inv, TypeOK', NEW t \in Threads, NEW a \in Blocks, InitServerGroup(t, a)
  PROVE  Content'
<1>0. TypeOK /\ Content /\ CreatorOK
  BY DEF Inv
<1>1. /\ UNCHANGED <<groups, ownerId, group_users, unsaved, cid>>
      /\ pc[t] = "created" /\ pc'[t] = "publish"
      /\ \A s \in Threads \ {t} : pc'[s] = pc[s] /\ who'[s] = who[s]
      /\ \A b \in Blocks \ {a} : /\ mem'[b] = mem[b] /\ chat_id'[b] = chat_id[b]
                                 /\ owner_id'[b] = owner_id[b] /\ users_id'[b] = users_id[b]
                                 /\ chat_mutex'[b] = chat_mutex[b]
      /\ chat_id'[a] = cid[t] /\ owner_id'[a] = Me(t) /\ chat_mutex'[a] = NoThread
      /\ users_id'[a] = [u \in Users |-> IF u = Me(t) THEN 1 ELSE 0]
  BY <1>0 DEF InitServerGroup, Goto, db, TypeOK
<1>2. \A s \in Threads : Adding(s)' = Adding(s) /\ Removing(s)' = Removing(s)
  BY <1>1 DEF Adding, Removing
<1>3. \A b \in Blocks \ {a} : BlockOK(b) => BlockOK(b)'
  BY <1>1, <1>2 DEF BlockOK, Members, Everyone
<1>4. ASSUME chat_id'[a] \in groups
      PROVE  BlockOK(a)'
  <2>1. /\ ownerId[cid[t]] = Me(t) /\ group_users[cid[t]] = {Me(t)} /\ unsaved[cid[t]] = {}
    BY <1>0, <1>1, <1>4 DEF CreatorOK, Fresh, Creating, TypeOK
  <2>2. Me(t) \in Users
    BY GroupAssumption DEF Me
  <2>3. Members(a)' = {Me(t)} /\ \A u \in Users : users_id'[a][u] \in {0, 1}
    BY <1>1, <2>2 DEF Members
  <2>4. Everyone(a)' = {Me(t)}
    BY <1>1, <2>1 DEF Everyone
  <2>5. QED
    BY <1>1, <2>1, <2>3, <2>4, GroupAssumption DEF BlockOK
<1>5. QED
  BY <1>0, <1>1, <1>3, <1>4 DEF Content

(* A new group is in no block yet, and a deleted one in none that matters. *)
LEMMA ContentGroups ==
  ASSUME Inv, TypeOK', NEW t \in Threads, CreateRows(t) \/ CreateRowsFail(t) \/ DeleteRows(t)
  PROVE  Content'
<1>0. TypeOK /\ Content
  BY DEF Inv
<1>1. /\ UNCHANGED <<mem, chat_id, owner_id, users_id, chat_mutex>>
      /\ pc[t] \in {"idle", "locked_deleted"} /\ pc'[t] \in {"created", "forget"}
      /\ \A s \in Threads \ {t} : pc'[s] = pc[s] /\ who'[s] = who[s]
  BY <1>0 DEF CreateRows, CreateRowsFail, StartCreate, DeleteRows, Goto, heap, TypeOK
<1>2. \A s \in Threads : Adding(s)' = Adding(s) /\ Removing(s)' = Removing(s)
  BY <1>1 DEF Adding, Removing
<1>3. ASSUME NEW a \in Blocks, mem[a] = "live", chat_id[a] \in groups'
      PROVE  /\ chat_id[a] \in groups /\ ownerId'[chat_id[a]] = ownerId[chat_id[a]]
             /\ group_users'[chat_id[a]] = group_users[chat_id[a]]
             /\ unsaved'[chat_id[a]] = unsaved[chat_id[a]]
  <2>0. chat_id[a] \in Chats
    BY <1>3 DEF TypeOK
  <2>1. CASE DeleteRows(t)
    BY <1>3, <2>0, <2>1 DEF DeleteRows
  <2>2. ASSUME NEW c \in Chats, NEW S, InsertGroupRow(t, c, S), UNCHANGED unsaved
        PROVE  /\ chat_id[a] \in groups /\ ownerId'[chat_id[a]] = ownerId[chat_id[a]]
               /\ group_users'[chat_id[a]] = group_users[chat_id[a]]
               /\ unsaved'[chat_id[a]] = unsaved[chat_id[a]]
    <3>1. chat_id[a] \in usedIds
      <4>1. CASE chats[chat_id[a]] = a
        BY <2>0, <4>1, GroupAssumption DEF Inv, IdsUsed
      <4>2. ASSUME NEW s \in Threads, pc[s] = "publish", ptr[s] = a
            PROVE  chat_id[a] \in usedIds
        <5>1. cid[s] = chat_id[a]
          BY <4>2 DEF Inv, CreatorOK, Unpublished
        <5>2. QED
          BY <2>0, <4>2, <5>1 DEF Inv, IdsUsed
      <4>3. QED
        BY <1>3, <2>0, <4>1, <4>2 DEF Inv, LiveKnown
    <3>2. chat_id[a] # c
      BY <2>2, <3>1 DEF InsertGroupRow
    <3>3. QED
      BY <1>0, <1>3, <2>0, <2>2, <3>2 DEF InsertGroupRow, TypeOK
  <2>3. CASE UNCHANGED db /\ UNCHANGED unsaved
    BY <1>3, <2>3 DEF db
  <2>4. QED
    BY <2>1, <2>2, <2>3 DEF CreateRows, CreateRowsFail, StartCreate, heap
<1>4. ASSUME NEW a \in Blocks, mem[a] = "live", chat_id[a] \in groups'
      PROVE  BlockOK(a)'
  <2>1. BlockOK(a)
    BY <1>0, <1>3, <1>4 DEF Content
  <2>2. Everyone(a)' = Everyone(a)
    BY <1>1, <1>3, <1>4 DEF Everyone
  <2>3. QED
    BY <1>1, <1>2, <1>3, <1>4, <2>1, <2>2 DEF BlockOK, Members
<1>5. QED
  BY <1>1, <1>4 DEF Content

LEMMA ContentRestart ==
  ASSUME Inv, TypeOK', Restart
  PROVE  Content'
<1>0. TypeOK
  BY DEF Inv
<1> SUFFICES ASSUME NEW a \in Blocks, mem'[a] = "live"
             PROVE  BlockOK(a)'
  BY DEF Content
<1>1. a \in Chats /\ Loaded(a)
  BY Zenon DEF Restart, LoadedMem
<1>2. /\ chat_id'[a] = a /\ owner_id'[a] = ownerId[a] /\ chat_mutex'[a] = NoThread
      /\ \A u \in Users : users_id'[a][u] = IF u \in group_users[a] THEN 1 ELSE 0
      /\ unsaved'[a] = {} /\ group_users' = group_users /\ ownerId' = ownerId
  BY <1>1 DEF Restart, LoadedIds, LoadedOwners, LoadedUsers, db
<1>3. Members(a)' = group_users[a]
  BY <1>0, <1>1, <1>2 DEF Members, TypeOK
<1>4. Everyone(a)' = group_users[a]
  BY <1>2 DEF Everyone
<1>5. \A u \in Users : users_id'[a][u] \in {0, 1}
  BY <1>2
<1>6. QED
  BY <1>2, <1>3, <1>4, <1>5, GroupAssumption DEF BlockOK

(* The remaining steps change nothing a chat is made of.                   *)
LEMMA ContentSame ==
  ASSUME Inv, TypeOK', NEW t \in Threads,
         \A s \in Threads \ {t} : pc'[s] = pc[s] /\ who'[s] = who[s],
         Adding(t)' = Adding(t), Removing(t)' = Removing(t),
         UNCHANGED <<groups, ownerId, group_users, heap, users_id, chat_mutex>>
  PROVE  Content'
<1>1. \A s \in Threads : Adding(s)' = Adding(s) /\ Removing(s)' = Removing(s)
  BY DEF Adding, Removing
<1>2. \A a \in Blocks : BlockOK(a) => BlockOK(a)'
  BY <1>1 DEF BlockOK, Members, Everyone, heap
<1>3. QED
  BY <1>2 DEF Inv, Content, heap

LEMMA ContentStep ==
  ASSUME Inv, TypeOK', PointerOK', [Next]_vars
  PROVE  Content'
<1>0. TypeOK
  BY DEF Inv
<1>1. ASSUME NEW t \in Threads,
             LockChat(t) \/ LockDeleted(t) \/ InsertMember(t) \/ InsertMany(t) \/ DeleteRow(t)
      PROVE  Content'
  BY <1>1, ContentInside
<1>2. ASSUME NEW t \in Threads, GivesUp(t) \/ AppendMember(t) \/ RemoveMember(t) \/ ReadMembers(t) \/ DeleteRefused(t)
      PROVE  Content'
  BY <1>2, ContentUnlock
<1>3. ASSUME NEW t \in Threads, NEW u \in Users, AppendOneOfMany(t, u)
      PROVE  Content'
  BY <1>3, ContentMany
<1>4. ASSUME NEW t \in Threads, FreeGroup(t)
      PROVE  Content'
  BY <1>4, ContentFree
<1>5. ASSUME NEW t \in Threads, NEW a \in Blocks, InitServerGroup(t, a)
      PROVE  Content'
  BY <1>5, ContentInit
<1>6. ASSUME NEW t \in Threads, CreateRows(t) \/ CreateRowsFail(t) \/ DeleteRows(t)
      PROVE  Content'
  BY <1>6, ContentGroups
<1>7. CASE Restart
  BY <1>7, ContentRestart
<1>8. CASE UNCHANGED vars
  BY <1>8 DEF vars, db, heap, local, Inv, Content, BlockOK, Members, Everyone, Adding, Removing
<1>9. ASSUME NEW t \in Threads,
             \/ \E o \in Ops, c \in Ids, S \in SUBSET Users : FindChat(t, o, c, S)
             \/ \E c \in Ids : FindChatToDelete(t, c)
             \/ Leaves(t) \/ Answers(t) \/ StoreMessage(t) \/ PublishChat(t)
             \/ \E u \in Users : ForgetGroup(t, u)
      PROVE  Content'
  <2>1. /\ UNCHANGED <<groups, ownerId, group_users, heap, users_id, chat_mutex>>
        /\ pc[t] \in {"idle", "lock", "append_group", "reply", "remove_group", "locked", "publish", "forget"}
    BY <1>9 DEF FindChat, FindChatToDelete, Leaves, Answers, StoreMessage, PublishChat, ForgetGroup, db
  <2>2. /\ \A s \in Threads \ {t} : pc'[s] = pc[s] /\ who'[s] = who[s]
        /\ pc'[t] \in {"idle", "lock", "lock_deleted", "reply", "deliver", "forget"}
    <3>1. CASE \/ \E o \in Ops, c \in Ids, S \in SUBSET Users : FindChat(t, o, c, S)
               \/ \E c \in Ids : FindChatToDelete(t, c)
      BY <1>0, <3>1 DEF FindChat, FindChatToDelete, Goto, TypeOK
    <3>2. CASE Leaves(t) \/ Answers(t) \/ StoreMessage(t) \/ PublishChat(t)
      BY <1>0, <3>2 DEF Leaves, Answers, StoreMessage, PublishChat, Goto, Return, local, TypeOK
    <3>3. CASE \E u \in Users : ForgetGroup(t, u)
      BY <1>0, <3>3 DEF ForgetGroup, TypeOK
    <3>4. QED
      BY <1>9, <3>1, <3>2, <3>3
  <2>3. Adding(t) = {} /\ Removing(t) = {} /\ Adding(t)' = {} /\ Removing(t)' = {}
    BY <2>1, <2>2 DEF Adding, Removing
  <2>4. QED
    BY <2>1, <2>2, <2>3, ContentSame
<1>10. QED
  BY <1>1, <1>2, <1>3, <1>4, <1>5, <1>6, <1>7, <1>8, <1>9, Steps

LEMMA LiveStep ==
  ASSUME Inv, TypeOK', PointerOK', [Next]_vars
  PROVE  LiveKnown'
<1> USE GroupAssumption DEF Inv, TypeOK, PointerOK, LiveKnown, Ids, Goto, Return, db, heap, local
<1>1. CASE Restart
  <2> SUFFICES ASSUME NEW a \in Blocks, mem'[a] = "live"
               PROVE  chats'[chat_id'[a]] = a
    OBVIOUS
  <2>1. a \in Chats /\ Loaded(a)
    BY <1>1, Zenon DEF Restart, LoadedMem
  <2>2. chat_id'[a] = a
    BY <1>1, <2>1 DEF Restart, LoadedIds
  <2>3. chats'[a] = a
    BY <1>1, <2>1 DEF Restart, LoadedChats
  <2> QED
    BY <2>2, <2>3
<1>2. CASE UNCHANGED vars
  BY <1>2 DEF vars
<1>3. ASSUME NEW t \in Threads, pc[t] # "publish", UNCHANGED <<mem, chat_id, chats>>,
             \A s \in Threads \ {t} : pc'[s] = pc[s] /\ ptr'[s] = ptr[s]
      PROVE  LiveKnown'
  <2>1. ASSUME NEW a \in Blocks, NEW s \in Threads, pc[s] = "publish", ptr[s] = a
        PROVE  pc'[s] = "publish" /\ ptr'[s] = a
    BY <1>3, <2>1
  <2>2. ASSUME NEW a \in Blocks, mem'[a] = "live", chat_id'[a] \in Chats
        PROVE  \/ chats'[chat_id'[a]] = a
               \/ \E s \in Threads : pc[s] = "publish" /\ ptr[s] = a
    BY <1>3, <2>2
  <2> QED
    BY <2>1, <2>2
<1>4. ASSUME NEW t \in Threads, NEW a \in Blocks, InitServerGroup(t, a)
      PROVE  LiveKnown'
  <2>1. /\ pc[t] = "created" /\ mem[a] # "live"
        /\ mem' = [mem EXCEPT ![a] = "live"] /\ chat_id' = [chat_id EXCEPT ![a] = cid[t]]
        /\ ptr' = [ptr EXCEPT ![t] = a] /\ pc' = [pc EXCEPT ![t] = "publish"] /\ chats' = chats
    BY <1>4 DEF InitServerGroup
  <2> QED
    BY <2>1
<1>5. ASSUME NEW t \in Threads, PublishChat(t)
      PROVE  LiveKnown'
  <2>1. /\ pc[t] = "publish" /\ chats' = [chats EXCEPT ![cid[t]] = ptr[t]]
        /\ pc' = [pc EXCEPT ![t] = "idle"] /\ ptr' = [ptr EXCEPT ![t] = NoBlock]
        /\ UNCHANGED <<mem, chat_id>>
    BY <1>5 DEF PublishChat
  <2>2. (cid[t] \in Chats => chats[cid[t]] = NoBlock) /\ chat_id[ptr[t]] = cid[t]
    BY <2>1 DEF Creating, CreatorOK, Fresh, Unpublished
  <2>3. ptr[t] \in Blocks /\ cid[t] \in Ids
    BY <2>1
  <2> SUFFICES ASSUME NEW a \in Blocks, mem[a] = "live", chat_id[a] \in Chats
               PROVE  chats'[chat_id[a]] = a \/ \E s \in Threads : pc'[s] = "publish" /\ ptr'[s] = a
    BY <2>1
  <2>4. CASE a = ptr[t]
    BY <2>1, <2>2, <2>3, <2>4
  <2>5. CASE chats[chat_id[a]] = a
    <3>1. chat_id[a] # cid[t] /\ chat_id[a] \in Ids
      BY <2>2, <2>5
    <3> QED
      BY <2>1, <2>5, <3>1
  <2>6. CASE a # ptr[t] /\ \E s \in Threads : pc[s] = "publish" /\ ptr[s] = a
    BY <2>1, <2>6
  <2> QED
    BY <2>4, <2>5, <2>6
<1>6. ASSUME NEW t \in Threads, FreeGroup(t)
      PROVE  LiveKnown'
  <2>1. /\ pc[t] = "forget" /\ mem' = [mem EXCEPT ![ptr[t]] = "freed"]
        /\ chats' = [chats EXCEPT ![cid[t]] = NoBlock] /\ chat_id' = chat_id
        /\ \A s \in Threads \ {t} : pc'[s] = pc[s] /\ ptr'[s] = ptr[s]
    BY <1>6 DEF FreeGroup
  <2>2. chats[cid[t]] = ptr[t] /\ ptr[t] \in Blocks
    BY <2>1 DEF DeleterOK, Deleting
  <2> SUFFICES ASSUME NEW a \in Blocks, mem[a] = "live", chat_id[a] \in Chats, a # ptr[t]
               PROVE  chats'[chat_id[a]] = a \/ \E s \in Threads : pc'[s] = "publish" /\ ptr'[s] = a
    BY <2>1
  <2>3. CASE chats[chat_id[a]] = a
    <3>1. chat_id[a] # cid[t] /\ chat_id[a] \in Ids
      BY <2>2, <2>3
    <3> QED
      BY <2>1, <2>3, <3>1
  <2>4. CASE \E s \in Threads : pc[s] = "publish" /\ ptr[s] = a
    BY <2>1, <2>4
  <2> QED
    BY <2>3, <2>4
<1>7. ASSUME NEW t \in Threads,
             \/ \E o \in Ops, c \in Ids, S \in SUBSET Users : FindChat(t, o, c, S)
             \/ \E c \in Ids : FindChatToDelete(t, c)
             \/ CreateRows(t) \/ CreateRowsFail(t) \/ LockChat(t) \/ LockDeleted(t)
             \/ GivesUp(t) \/ Leaves(t) \/ Answers(t)
             \/ InsertMember(t) \/ InsertMany(t) \/ DeleteRow(t) \/ StoreMessage(t)
             \/ AppendMember(t) \/ RemoveMember(t) \/ ReadMembers(t)
             \/ \E u \in Users : AppendOneOfMany(t, u) \/ ForgetGroup(t, u)
             \/ DeleteRefused(t) \/ DeleteRows(t)
      PROVE  LiveKnown'
  <2>1. pc[t] # "publish" /\ UNCHANGED <<mem, chat_id, chats>>
    BY <1>7 DEF FindChat, FindChatToDelete, CreateRows, CreateRowsFail, StartCreate, LockChat,
                LockDeleted, GivesUp, GiveUp, Working, Leaves, Answers, InsertMember, InsertMany, DeleteRow,
                StoreMessage, AppendMember, RemoveMember, ReadMembers, AppendOneOfMany, ForgetGroup,
                DeleteRefused, DeleteRows
  <2>2. \A s \in Threads \ {t} : pc'[s] = pc[s] /\ ptr'[s] = ptr[s]
    BY <1>7 DEF FindChat, FindChatToDelete, CreateRows, CreateRowsFail, StartCreate, LockChat,
                LockDeleted, GivesUp, GiveUp, Working, Leaves, Answers, InsertMember, InsertMany, DeleteRow,
                StoreMessage, AppendMember, RemoveMember, ReadMembers, AppendOneOfMany, ForgetGroup,
                DeleteRefused, DeleteRows
  <2> QED
    BY <1>3, <2>1, <2>2
<1> QED
  BY Steps, <1>1, <1>2, <1>4, <1>5, <1>6, <1>7

LEMMA RowsStep ==
  ASSUME Inv, TypeOK', [Next]_vars
  PROVE  RowsOfGroups'
<1> USE DEF Inv, TypeOK, RowsOfGroups, db, heap
<1>1. CASE Restart
  BY <1>1 DEF Restart
<1>2. ASSUME NEW t \in Threads, CreateRows(t) \/ CreateRowsFail(t)
      PROVE  RowsOfGroups'
  BY <1>2 DEF CreateRows, CreateRowsFail, StartCreate, InsertGroupRow
<1>3. ASSUME NEW t \in Threads, InsertMember(t) \/ DeleteRow(t)
      PROVE  RowsOfGroups'
  BY <1>3 DEF InsertMember, DeleteRow, Insertable
<1>4. ASSUME NEW t \in Threads, InsertMany(t)
      PROVE  RowsOfGroups'
  <2>1. \/ group_users' = group_users
        \/ cid[t] \in groups /\ \E S : group_users' = [group_users EXCEPT ![cid[t]] = S]
    BY <1>4 DEF InsertMany, Insertable
  <2>2. \/ unsaved' = unsaved
        \/ chat_id[ptr[t]] \in groups /\ \E S : unsaved' = [unsaved EXCEPT ![chat_id[ptr[t]]] = S]
    BY <1>4 DEF InsertMany
  <2>3. groups' = groups
    BY <1>4 DEF InsertMany
  <2> QED
    BY <2>1, <2>2, <2>3
<1>5. ASSUME NEW t \in Threads, DeleteRows(t)
      PROVE  RowsOfGroups'
  BY <1>5 DEF DeleteRows
<1>6. ASSUME UNCHANGED <<groups, group_users, unsaved>>
      PROVE  RowsOfGroups'
  BY <1>6
<1> QED
  BY Steps, <1>1, <1>2, <1>3, <1>4, <1>5, <1>6
     DEF vars, FindChat, FindChatToDelete, LockChat, LockDeleted, GivesUp, Leaves, Answers, StoreMessage,
         AppendMember, RemoveMember, ReadMembers, AppendOneOfMany, ForgetGroup, DeleteRefused, FreeGroup,
         InitServerGroup, PublishChat

LEMMA InvStep ==
  ASSUME Inv, [Next]_vars
  PROVE  Inv'
<1>1. TypeOK' /\ PointerOK'
  BY TypeStep DEF Inv
<1>2. QED
  BY <1>1, RequestsStep, MutexStep, TableStep, PointerStep, LiveStep, RowsStep, CreatorStep, ContentStep
     DEF Inv

LEMMA InvInit == Init => Inv
<1> SUFFICES ASSUME Init
             PROVE  Inv
  OBVIOUS
<1>1. TypeOK /\ PointerOK
  BY TypeInit
<1>2. /\ groups = {} /\ usedIds = {}
      /\ \A t \in Threads : pc[t] = "idle" /\ op[t] = "none"
      /\ \A a \in Blocks : chat_mutex[a] = NoThread /\ mem[a] = "unused"
      /\ \A c \in Ids : chats[c] = NoBlock
      /\ \A c \in Chats : group_users[c] = {} /\ unsaved[c] = {}
  BY DEF Init, LoadedChats, LoadedMem, Loaded
<1>3. QED
  BY <1>1, <1>2, GroupAssumption
     DEF Inv, RequestOK, TableOK, IdsUsed, Held, Holder, FreedLocked, DeleterOK, Current, Committed,
         NotReused, TableInDb, LiveKnown, RowsOfGroups, CreatorOK, Content, Waiting, Working, Deleting,
         Creating, Ids

(* Every step of a handler keeps the invariant above, whatever fails and   *)
(* whatever memory malloc returns.                                         *)
THEOREM Invariance == Spec => []Inv
<1>1. Inv /\ [Next]_vars => Inv'
  BY InvStep
<1>2. QED
  BY InvInit, <1>1, PTL DEF Spec

-----------------------------------------------------------------------------
(* What the invariant says of a thread inside its critical section: the    *)
(* chat it holds is the cached one, and lacks only its own update.         *)
LEMMA InsideAgrees ==
  ASSUME Inv, NEW t \in Threads, Working(t), cid[t] \in groups
  PROVE  /\ chats[cid[t]] = ptr[t] /\ chat_mutex[ptr[t]] = t /\ ptr[t] \in Blocks
         /\ owner_id[ptr[t]] = ownerId[cid[t]]
         /\ \A u \in Users : users_id[ptr[t]][u] \in {0, 1}
         /\ LET all == group_users[cid[t]] \cup unsaved[cid[t]] IN
              /\ Removing(t) \cap all = {}
              /\ Members(ptr[t]) = (all \ Adding(t)) \cup Removing(t)
<1>1. chats[cid[t]] = ptr[t] /\ chat_id[ptr[t]] = cid[t]
  BY OwnId
<1>2. ptr[t] \in Blocks /\ chat_mutex[ptr[t]] = t /\ mem[ptr[t]] = "live"
  BY DEF Inv, PointerOK, Held
<1>3. BlockOK(ptr[t])
  BY <1>1, <1>2 DEF Inv, Content
<1>4. QED
  BY <1>1, <1>2, <1>3 DEF BlockOK, Everyone

(* An array with each of its users once is the one Cached describes.       *)
LEMMA ArrayCached ==
  ASSUME TypeOK, NEW a \in Blocks, NEW c \in Chats,
         \A u \in Users : users_id[a][u] \in {0, 1},
         Members(a) = group_users[c] \cup unsaved[c]
  PROVE  users_id[a] = Cached(c)
<1>1. users_id[a] \in [Users -> Nat]
  BY DEF TypeOK
<1>2. \A u \in Users : users_id[a][u] = IF u \in group_users[c] \cup unsaved[c] THEN 1 ELSE 0
  BY <1>1 DEF Members
<1>3. QED
  BY <1>1, <1>2 DEF Cached

(* Whoever finds a chat with its mutex free sees the owner the database    *)
(* names and, each once, the members it holds, with those whose INSERT     *)
(* add_many_users_to_group did not see fail and nobody else: for any       *)
(* number of users, chats and threads, whichever statements fail, whatever *)
(* memory is used again, and after every restart.                          *)
THEOREM Agreement == Spec => []CacheMatchesDb
<1>1. ASSUME Inv, NEW c \in Chats, chats[c] # NoBlock, chat_mutex[chats[c]] = NoThread
      PROVE  c \in groups /\ users_id[chats[c]] = Cached(c) /\ owner_id[chats[c]] = ownerId[c]
  <2>1. c \in groups
    <3>1. SUFFICES ASSUME NEW t \in Threads, pc[t] = "forget", cid[t] = c
                   PROVE  FALSE
      BY <1>1 DEF Inv, TableInDb
    <3>2. chats[c] = ptr[t] /\ chat_mutex[ptr[t]] = t
      BY <1>1, <3>1 DEF Inv, DeleterOK, Deleting, Held
    <3>3. QED
      BY <1>1, <3>2, GroupAssumption
  <2>2. chats[c] \in Blocks /\ mem[chats[c]] = "live" /\ chat_id[chats[c]] = c /\ TypeOK
    BY <1>1 DEF Inv, TypeOK, TableOK, Ids
  <2>3. BlockOK(chats[c])
    BY <1>1, <2>1, <2>2 DEF Inv, Content
  <2>4. QED
    BY <1>1, <2>1, <2>2, <2>3, ArrayCached DEF BlockOK, Everyone
<1>2. Inv => CacheMatchesDb
  BY <1>1 DEF CacheMatchesDb
<1>3. QED
  BY Invariance, <1>2, PTL

(* remove_from_intarr is only asked for a member that is there, once: it   *)
(* neither writes past the new array nor leaves a slot uninitialised.      *)
THEOREM ExactRemoval == Spec => []RemovalIsExact
<1>1. ASSUME Inv, NEW t \in Threads, pc[t] = "remove", NEW u \in who[t]
      PROVE  users_id[ptr[t]][u] = 1
  <2>1. Working(t) /\ cid[t] \in groups /\ Removing(t) = who[t] /\ u \in Users
    BY <1>1 DEF Inv, TypeOK, Committed, Working, Removing
  <2>2. u \in Members(ptr[t]) /\ users_id[ptr[t]][u] \in {0, 1}
    BY <1>1, <2>1, InsideAgrees
  <2>3. QED
    BY <2>2 DEF Members
<1>2. Inv => RemovalIsExact
  BY <1>1 DEF RemovalIsExact
<1>3. QED
  BY Invariance, <1>2, PTL

(* A message that is delivered is in the table of its group, and it goes,  *)
(* once, to each of the users the chat should have, whichever statements   *)
(* fail and whatever memory is used again.                                 *)
THEOREM Delivery == Spec => []DeliveryReachesMembers
<1>1. ASSUME Inv, NEW t \in Threads, pc[t] = "deliver"
      PROVE  cid[t] \in groups \cap messages /\ users_id[ptr[t]] = Cached(cid[t])
  <2>1. Working(t) /\ cid[t] \in groups /\ cid[t] \in messages /\ Adding(t) = {} /\ Removing(t) = {}
    BY <1>1 DEF Inv, Committed, Working, Adding, Removing
  <2>2. /\ ptr[t] \in Blocks /\ cid[t] \in Chats /\ TypeOK
        /\ \A u \in Users : users_id[ptr[t]][u] \in {0, 1}
        /\ Members(ptr[t]) = group_users[cid[t]] \cup unsaved[cid[t]]
    BY <1>1, <2>1, InsideAgrees DEF Inv, TypeOK
  <2>3. QED
    BY <2>1, <2>2, ArrayCached
<1>2. Inv => DeliveryReachesMembers
  BY <1>1 DEF DeliveryReachesMembers
<1>3. QED
  BY Invariance, <1>2, PTL

(* No chat is freed while another thread is inside its critical section.   *)
THEOREM NoUseAfterFreeInside == Spec => []NobodyInsideFreedChat
<1>1. Inv => NobodyInsideFreedChat
  BY DEF Inv, Held, NobodyInsideFreedChat, Inside, Working
<1>2. QED
  BY Invariance, <1>1, PTL

(* Members are removed by the owner of their group and by nobody else.     *)
THEOREM RemovalByOwner == Spec => OnlyOwnerRemoves
<1> DEFINE Removes(c) == c \in groups' /\ ~(group_users[c] \subseteq group_users'[c])
           ByOwner(c) == \E t \in Threads : /\ UserOf[t] = ownerId[c] /\ pc[t] # pc'[t]
                                            /\ chats[c] # NoBlock /\ chat_mutex[chats[c]] = t
<1>1. ASSUME Inv, [Next]_vars, NEW c \in groups, Removes(c)
      PROVE  ByOwner(c)
  <2>0. TypeOK /\ groups \subseteq usedIds
    BY <1>1 DEF Inv, IdsUsed
  <2>1. PICK t \in Threads : DeleteRow(t) /\ c = cid[t]
    <3>1. ASSUME NEW t \in Threads, NEW d \in Chats, NEW S, InsertGroupRow(t, d, S)
          PROVE  FALSE
      BY <1>1, <2>0, <3>1 DEF InsertGroupRow, TypeOK
    <3>2. ASSUME NEW t \in Threads, InsertMember(t) \/ InsertMany(t)
          PROVE  FALSE
      BY <1>1, <2>0, <3>2 DEF InsertMember, InsertMany, TypeOK
    <3>3. ASSUME NEW t \in Threads, DeleteRows(t)
          PROVE  FALSE
      BY <1>1, <2>0, <3>3 DEF DeleteRows, TypeOK
    <3>4. ~UNCHANGED group_users
      BY <1>1
    <3>5. CASE \E t \in Threads : DeleteRow(t)
      BY <1>1, <2>0, <3>5 DEF DeleteRow, TypeOK
    <3>6. CASE Restart \/ UNCHANGED vars
      BY <3>4, <3>6 DEF Restart, vars, db
    <3>7. CASE \E t \in Threads : CreateRows(t) \/ CreateRowsFail(t)
      BY <3>1, <3>4, <3>7 DEF CreateRows, CreateRowsFail, db
    <3>8. QED
      BY <1>1, Steps, <3>2, <3>3, <3>4, <3>5, <3>6, <3>7
         DEF FindChat, FindChatToDelete, LockChat, LockDeleted, GivesUp, GiveUp, Leaves, Answers,
             StoreMessage, AppendMember, RemoveMember, ReadMembers, AppendOneOfMany, ForgetGroup,
             DeleteRefused, FreeGroup, InitServerGroup, PublishChat, db
  <2>2. Working(t) /\ cid[t] \in groups /\ pc'[t] # pc[t] /\ owner_id[ptr[t]] = UserOf[t]
    BY <1>1, <2>0, <2>1 DEF DeleteRow, Allowed, IsOwner, Me, Goto, Working, TypeOK
  <2>3. ptr[t] # NoBlock
    BY <1>1, <2>2, GroupAssumption DEF Inv, PointerOK
  <2>4. QED
    BY <1>1, <2>1, <2>2, <2>3, InsideAgrees
<1>2. Inv /\ [Next]_vars =>
        [\A c \in groups \cap groups' : ~(group_users[c] \subseteq group_users'[c]) =>
            \E t \in Threads : /\ UserOf[t] = ownerId[c] /\ pc[t] # pc'[t]
                               /\ chats[c] # NoBlock /\ chat_mutex[chats[c]] = t]_vars
  BY <1>1
<1>3. QED
  BY Invariance, <1>2, PTL DEF Spec, OnlyOwnerRemoves

-----------------------------------------------------------------------------
(* GroupMembership implements GroupDirectory: every step of a handler is   *)
(* one step of the directory or changes nothing there.                     *)

(* What it needs of the environment: a chat that has taken the block of a  *)
(* deleted one has members of its own, so a list read there is that of no  *)
(* group asked for.                                                        *)
Exact == Reuse = FALSE

(* who has locked the chat of a group works for a group that exists        *)
InGroup == \A t \in Threads : Working(t) /\ cid[t] \in Chats => cid[t] \in groups

RInv == Inv /\ InGroup

-----------------------------------------------------------------------------
LEMMA RInvInit == ASSUME Init PROVE RInv
BY InvInit DEF Init, RInv, InGroup, Working

LEMMA GroupStep ==
  ASSUME Exact, RInv, TypeOK', [Next]_vars
  PROVE  InGroup'
<1> USE GroupAssumption DEF Exact, RInv, Inv, TypeOK, PointerOK, InGroup, Working, Ids, Goto, Return, db, heap, local
<1>1. CASE Restart
  BY <1>1 DEF Restart
<1>2. CASE UNCHANGED vars
  BY <1>2 DEF vars
<1>3. ASSUME NEW t \in Threads, groups \subseteq groups', cid'[t] = cid[t] \/ ~Working(t)',
             Working(t)' => Working(t) \/ (cid'[t] \in Chats => cid'[t] \in groups'),
             \A s \in Threads \ {t} : pc'[s] = pc[s] /\ cid'[s] = cid[s]
      PROVE  InGroup'
  BY <1>3
(* The mutex of a chat that can be locked is that of a cached one, which   *)
(* nobody deletes: its group exists.                                       *)
<1>4. ASSUME NEW t \in Threads, LockChat(t)
      PROVE  InGroup'
  <2>1. /\ pc[t] = "lock" /\ chat_mutex[ptr[t]] = NoThread /\ ptr[t] \in Blocks
        /\ pc' = [pc EXCEPT ![t] = "locked"] /\ UNCHANGED <<groups, cid>>
    BY <1>4 DEF LockChat, Waiting
  <2>2. mem[ptr[t]] = "live"
    BY <2>1 DEF FreedLocked, Waiting
  <2>3. cid[t] \in Chats => chats[cid[t]] = ptr[t]
    BY <2>1, <2>2 DEF LiveKnown, NotReused, Waiting
  <2>5. ASSUME cid[t] \in Chats
        PROVE  cid[t] \in groups
    <3>0. chats[cid[t]] = ptr[t]
      BY <2>3, <2>5
    <3> SUFFICES ASSUME NEW s \in Threads, pc[s] = "forget", cid[s] = cid[t]
                 PROVE  FALSE
      <4>1. chats[cid[t]] # NoBlock
        BY <2>1, <3>0
      <4> QED
        BY <4>1, <2>5 DEF TableInDb
    <3>1. chats[cid[s]] = ptr[s] /\ chat_mutex[ptr[s]] = s
      BY DEF DeleterOK, Deleting, Held
    <3> QED
      BY <3>1, <2>1, <3>0
  <2> QED
    BY <1>3, <2>1, <2>5
<1>5. ASSUME NEW t \in Threads, DeleteRows(t)
      PROVE  InGroup'
  <2>1. /\ pc[t] = "locked_deleted" /\ groups' = groups \ {cid[t]}
        /\ pc' = [pc EXCEPT ![t] = "forget"] /\ cid' = cid
    BY <1>5 DEF DeleteRows
  <2>2. chats[cid[t]] = ptr[t] /\ chat_mutex[ptr[t]] = t
    BY <2>1 DEF DeleterOK, Deleting, Held
  <2>3. ASSUME NEW s \in Threads, Working(s), cid[s] \in Chats
        PROVE  cid[s] # cid[t]
    <3>1. chats[cid[s]] = ptr[s] /\ chat_mutex[ptr[s]] = s
      BY <2>3 DEF InGroup, Current, Held
    <3>2. s # t
      BY <2>1, <2>3
    <3> QED
      BY <2>2, <3>1, <3>2
  <2> QED
    BY <2>1, <2>3
<1>6. ASSUME NEW t \in Threads, CreateRows(t) \/ CreateRowsFail(t)
      PROVE  InGroup'
  <2>1. /\ pc' = [pc EXCEPT ![t] = "created"]
        /\ \E c \in Ids : cid' = [cid EXCEPT ![t] = c]
        /\ groups \subseteq groups'
    BY <1>6 DEF CreateRows, CreateRowsFail, StartCreate, InsertGroupRow
  <2> QED
    BY <1>3, <2>1
<1>7. ASSUME NEW t \in Threads,
             \/ \E o \in Ops, c \in Ids, S \in SUBSET Users : FindChat(t, o, c, S)
             \/ \E c \in Ids : FindChatToDelete(t, c)
      PROVE  InGroup'
  <2>1. /\ groups' = groups
        /\ \E l \in {"lock", "lock_deleted"} : pc' = [pc EXCEPT ![t] = l]
        /\ \E c \in Ids : cid' = [cid EXCEPT ![t] = c]
    BY <1>7 DEF FindChat, FindChatToDelete
  <2> QED
    BY <1>3, <2>1
<1>8. ASSUME NEW t \in Threads, Return(t), groups' = groups
      PROVE  InGroup'
  BY <1>3, <1>8
<1>9. ASSUME NEW t \in Threads,
             \/ GivesUp(t) \/ Leaves(t) \/ DeleteRefused(t) \/ ReadMembers(t)
             \/ FreeGroup(t) \/ PublishChat(t)
      PROVE  InGroup'
  BY <1>8, <1>9 DEF GivesUp, GiveUp, Leaves, DeleteRefused, ReadMembers, FreeGroup, PublishChat
<1>10. ASSUME NEW t \in Threads,
             \/ LockDeleted(t) \/ Answers(t) \/ InsertMember(t) \/ InsertMany(t) \/ DeleteRow(t)
             \/ StoreMessage(t) \/ AppendMember(t) \/ RemoveMember(t)
             \/ (\E u \in Users : AppendOneOfMany(t, u) \/ ForgetGroup(t, u))
             \/ \E a \in Blocks : InitServerGroup(t, a)
      PROVE  InGroup'
  <2>1. groups' = groups /\ cid' = cid
    BY <1>10 DEF LockDeleted, Answers, InsertMember, InsertMany, DeleteRow, StoreMessage, AppendMember,
                RemoveMember, AppendOneOfMany, ForgetGroup, InitServerGroup
  <2>2. pc' = pc \/ \E l \in PCs : pc' = [pc EXCEPT ![t] = l]
    BY <1>10 DEF LockDeleted, Answers, InsertMember, InsertMany, DeleteRow, StoreMessage, AppendMember,
                RemoveMember, AppendOneOfMany, ForgetGroup, InitServerGroup, PCs
  <2>3. Working(t)' => Working(t)
    BY <1>10 DEF LockDeleted, Answers, InsertMember, InsertMany, DeleteRow, StoreMessage, AppendMember,
                RemoveMember, AppendOneOfMany, ForgetGroup, InitServerGroup
  <2> QED
    BY <1>3, <2>1, <2>2, <2>3
<1> QED
  BY Steps, <1>1, <1>2, <1>4, <1>5, <1>6, <1>7, <1>9, <1>10

LEMMA RInvStep ==
  ASSUME Exact, RInv, [Next]_vars
  PROVE  RInv'
<1>1. Inv'
  BY InvStep DEF Exact, RInv
<1>2. TypeOK'
  BY <1>1 DEF Inv
<1> QED
  BY <1>1, <1>2, GroupStep DEF RInv

LEMMA RInvariance == Exact => (Spec => []RInv)
<1> SUFFICES ASSUME Exact
             PROVE  Spec => []RInv
  OBVIOUS
<1>1. Init => RInv
  BY RInvInit
<1>2. RInv /\ [Next]_vars => RInv'
  BY RInvStep
<1> QED
  BY <1>1, <1>2, PTL DEF Spec

-----------------------------------------------------------------------------
(* the directory as GroupMembership sees it                                *)
dir == <<groups, usedIds, ownerId, group_users, unsaved, seen>>

LEMMA Simulation ==
  ASSUME Exact, RInv, [Next]_vars
  PROVE  [Directory!Next]_dir
<1> USE DEF Exact, RInv, Inv, TypeOK, db, dir
<1>0. CASE Restart
  BY <1>0 DEF Restart, Directory!Next, Directory!Forget
<1>1. CASE UNCHANGED vars
  BY <1>1 DEF vars, heap
(* a new id, with its creator as owner and only member                     *)
<1>2. ASSUME NEW t \in Threads, CreateRows(t)
      PROVE  Directory!Next
  <2>1. PICK c \in Chats : StartCreate(t, c) /\ InsertGroupRow(t, c, {Me(t)})
    BY <1>2 DEF CreateRows
  <2>2. Directory!Create(c, Me(t))
    BY <2>1 DEF StartCreate, InsertGroupRow, Directory!Create, heap
  <2> QED
    BY <2>2, GroupAssumption DEF Me, Directory!Next
(* an error, and no group at all or one without members                    *)
<1>7. ASSUME NEW t \in Threads, CreateRowsFail(t)
      PROVE  Directory!Next \/ UNCHANGED dir
  <2>1. StartCreate(t, BadId) /\ (UNCHANGED db \/ \E c \in Chats : InsertGroupRow(t, c, {}))
    BY <1>7 DEF CreateRowsFail
  <2>2. CASE UNCHANGED db
    BY <2>1, <2>2 DEF StartCreate, heap
  <2>3. ASSUME NEW c \in Chats, InsertGroupRow(t, c, {})
        PROVE  Directory!Next
    <3>1. Directory!Create(c, Me(t))
      BY <2>1, <2>3 DEF StartCreate, InsertGroupRow, Directory!Create, heap
    <3> QED
      BY <3>1, GroupAssumption DEF Me, Directory!Next
  <2> QED
    BY <2>1, <2>2, <2>3
(* new members, in the table or only in the array                          *)
<1>3. ASSUME NEW t \in Threads, InsertMember(t) \/ InsertMany(t)
      PROVE  Directory!Next \/ UNCHANGED dir
  <2>1. /\ UNCHANGED <<groups, usedIds, ownerId, seen>>
        /\ Working(t) /\ Adding(t) = {} /\ Removing(t) = {}
        /\ who[t] \cap Members(ptr[t]) = {} /\ who[t] \in SUBSET Users
    BY <1>3 DEF InsertMember, InsertMany, AddsOne, Allowed, Working, Adding, Removing
  <2>2. ASSUME cid[t] \in groups
        PROVE  cid[t] \in Chats /\ who[t] \cap (group_users[cid[t]] \cup unsaved[cid[t]]) = {}
    BY <2>1, <2>2, InsideAgrees
  <2>3. CASE /\ Insertable(cid[t], who[t]) /\ unsaved' = unsaved
             /\ group_users' = [group_users EXCEPT ![cid[t]] = @ \cup who[t]]
    <3>1. Directory!Add(cid[t], who[t])
      BY <2>1, <2>2, <2>3 DEF Insertable, Directory!Add
    <3> QED
      BY <2>1, <2>2, <2>3, <3>1 DEF Insertable, Directory!Next
  <2>4. CASE /\ chat_id[ptr[t]] \in groups /\ group_users' = group_users
             /\ unsaved' = [unsaved EXCEPT ![chat_id[ptr[t]]] = @ \cup who[t]]
    <3>1. chat_id[ptr[t]] = cid[t] /\ cid[t] \in Chats
      BY <2>1, <2>4 DEF NotReused
    <3>2. CASE who[t] = {}
      BY <2>1, <2>4, <3>2
    <3>3. CASE who[t] # {}
      <4>1. Directory!Add(cid[t], who[t])
        BY <2>1, <2>2, <2>4, <3>1, <3>3 DEF Directory!Add
      <4> QED
        BY <2>1, <3>1, <4>1 DEF Directory!Next
    <3> QED
      BY <3>2, <3>3
  <2>5. CASE UNCHANGED <<group_users, unsaved>>
    BY <2>1, <2>5
  <2> QED
    BY <1>3, <2>3, <2>4, <2>5 DEF InsertMember, InsertMany, heap
<1>4. ASSUME NEW t \in Threads, DeleteRow(t)
      PROVE  Directory!Next
  <2>1. PICK u \in Users : who[t] = {u}
    BY <1>4 DEF DeleteRow, RequestOK
  <2>2. Directory!Remove(cid[t], u) /\ cid[t] \in Chats
    BY <1>4, <2>1 DEF DeleteRow, Directory!Remove, heap
  <2> QED
    BY <2>2 DEF Directory!Next
<1>5. ASSUME NEW t \in Threads, DeleteRows(t)
      PROVE  Directory!Next \/ UNCHANGED dir
  <2>1. /\ pc[t] = "locked_deleted" /\ groups' = groups \ {cid[t]}
        /\ group_users' = [c \in Chats |-> IF c = cid[t] THEN {} ELSE group_users[c]]
        /\ unsaved' = [c \in Chats |-> IF c = cid[t] THEN {} ELSE unsaved[c]]
        /\ UNCHANGED <<usedIds, ownerId, seen>>
    BY <1>5 DEF DeleteRows
  <2>2. chats[cid[t]] = ptr[t] /\ ptr[t] # NoBlock /\ chats_mutex = t
    BY <2>1, GroupAssumption DEF DeleterOK, Deleting, PointerOK
  <2>3. CASE cid[t] \in Chats
    <3>1. cid[t] \in groups
      <4> SUFFICES ASSUME NEW s \in Threads, pc[s] = "forget"
                   PROVE  FALSE
        BY <2>2, <2>3 DEF TableInDb
      <4>1. chats_mutex = s
        BY DEF DeleterOK, Deleting
      <4> QED
        BY <2>1, <2>2, <4>1
    <3>2. group_users' = [group_users EXCEPT ![cid[t]] = {}] /\ unsaved' = [unsaved EXCEPT ![cid[t]] = {}]
      BY <2>1, <2>3
    <3>3. Directory!Delete(cid[t])
      BY <2>1, <3>1, <3>2 DEF Directory!Delete
    <3> QED
      BY <2>3, <3>3 DEF Directory!Next
  <2>4. CASE cid[t] \notin Chats
    <3>1. groups' = groups /\ group_users' = group_users /\ unsaved' = unsaved
      BY <2>1, <2>4
    <3> QED
      BY <2>1, <3>1
  <2> QED
    BY <2>3, <2>4
(* what is shown are the members at that moment                            *)
<1>6. ASSUME NEW t \in Threads, ReadMembers(t)
      PROVE  Directory!Next \/ UNCHANGED dir
  <2>1. /\ Working(t) /\ Adding(t) = {} /\ Removing(t) = {}
        /\ UNCHANGED <<groups, usedIds, ownerId, group_users, unsaved>>
        /\ seen' = IF cid[t] \in Chats THEN [chat |-> cid[t], users |-> Members(ptr[t])] ELSE seen
    BY <1>6 DEF ReadMembers, Working, Adding, Removing, heap
  <2>2. CASE cid[t] \in Chats
    <3>1. cid[t] \in groups
      BY <2>1, <2>2 DEF InGroup
    <3>2. Members(ptr[t]) = group_users[cid[t]] \cup unsaved[cid[t]]
      BY <2>1, <3>1, InsideAgrees
    <3>3. Directory!Show(cid[t])
      BY <2>1, <2>2, <3>1, <3>2 DEF Directory!Show
    <3> QED
      BY <2>2, <3>3 DEF Directory!Next
  <2>3. CASE cid[t] \notin Chats
    BY <2>1, <2>3
  <2> QED
    BY <2>2, <2>3
<1>8. ASSUME NEW t \in Threads,
             \/ \E o \in Ops, c \in Ids, S \in SUBSET Users : FindChat(t, o, c, S)
             \/ \E c \in Ids : FindChatToDelete(t, c)
             \/ LockChat(t) \/ LockDeleted(t) \/ GivesUp(t) \/ Leaves(t) \/ Answers(t)
             \/ StoreMessage(t) \/ AppendMember(t) \/ RemoveMember(t)
             \/ (\E u \in Users : AppendOneOfMany(t, u) \/ ForgetGroup(t, u))
             \/ DeleteRefused(t) \/ FreeGroup(t)
             \/ (\E a \in Blocks : InitServerGroup(t, a)) \/ PublishChat(t)
      PROVE  UNCHANGED dir
  <2>1. CASE \/ \E o \in Ops, c \in Ids, S \in SUBSET Users : FindChat(t, o, c, S)
             \/ \E c \in Ids : FindChatToDelete(t, c)
    BY <2>1 DEF FindChat, FindChatToDelete, heap
  <2>2. CASE LockChat(t) \/ LockDeleted(t) \/ Leaves(t) \/ Answers(t)
    BY <2>2 DEF LockChat, LockDeleted, Leaves, Answers, heap
  <2>3. CASE GivesUp(t)
    BY <2>3 DEF GivesUp, heap
  <2>4. CASE StoreMessage(t) \/ AppendMember(t) \/ RemoveMember(t)
    BY <2>4 DEF StoreMessage, AppendMember, RemoveMember, heap
  <2>5. CASE \E u \in Users : AppendOneOfMany(t, u) \/ ForgetGroup(t, u)
    BY <2>5 DEF AppendOneOfMany, ForgetGroup, heap
  <2>6. CASE DeleteRefused(t) \/ FreeGroup(t)
    BY <2>6 DEF DeleteRefused, FreeGroup, heap
  <2>7. CASE (\E a \in Blocks : InitServerGroup(t, a)) \/ PublishChat(t)
    BY <2>7 DEF InitServerGroup, PublishChat, heap
  <2> QED
    BY <1>8, <2>1, <2>2, <2>3, <2>4, <2>5, <2>6, <2>7
<1> QED
  BY Steps, <1>0, <1>1, <1>2, <1>3, <1>4, <1>5, <1>6, <1>7, <1>8

(* Every request takes effect in one step, in that of its SQL statement or *)
(* of the reading of the members, and a list of members that is shown or   *)
(* delivered to is the true one: the handlers implement the directory.     *)
THEOREM Refinement == Exact => (Spec => DirectorySpec)
<1> SUFFICES ASSUME Exact
             PROVE  Spec => DirectorySpec
  OBVIOUS
<1>1. Init => Directory!Init
  BY DEF Init, Directory!Init
<1>2. RInv /\ [Next]_vars => [Directory!Next]_dir
  BY Simulation
<1> QED
  BY <1>1, <1>2, RInvariance, PTL DEF Spec, DirectorySpec, Directory!Spec, Directory!vars, dir

-----------------------------------------------------------------------------
(***************************************************************************)
(* The groups_id arrays of the users, for any number of users, chats and   *)
(* threads, as long as members are only added.  They are updated after the *)
(* mutex of the chat was released, so the argument is about what the       *)
(* handlers still owe.                                                     *)
(***************************************************************************)

(* Nobody removes a member or a group: a removal may come before the       *)
(* addition it undoes.                                                     *)
OnlyAdding == Exact /\ Ops \cap {"delete_user_from_group", "delete_group"} = {}

(* t has yet to append c to the groups_id of u *)
Owes(t, u, c) ==
  /\ cid[t] = c
  /\ \/ pc[t] \in {"append", "append_group", "append_many"} /\ u \in who[t]
     \/ pc[t] = "created" /\ u = Me(t)

NoRemoval ==
  \A t \in Threads :
    /\ pc[t] \notin {"remove", "remove_group", "lock_deleted", "locked_deleted", "forget"}
    /\ pc[t] = "append_group" => cid[t] \in Chats /\ \E u \in Users : who[t] = {u}

Belong(c) == group_users[c] \cup unsaved[c]

(* every membership is listed once, or one handler still owes it           *)
Listed ==
  \A c \in Chats, u \in Users :
    /\ \A t \in Threads : Owes(t, u, c) => u \in Belong(c)
    /\ \A s, t \in Threads : Owes(s, u, c) /\ Owes(t, u, c) => s = t
    /\ groups_id[u][c] = IF u \in Belong(c) /\ ~ \E t \in Threads : Owes(t, u, c) THEN 1 ELSE 0

LInv == RInv /\ NoRemoval /\ Listed

-----------------------------------------------------------------------------
LEMMA LInvInit == ASSUME OnlyAdding, Init PROVE LInv
<1>1. RInv
  BY RInvInit
<1>2. NoRemoval
  BY DEF Init, NoRemoval
<1>3. \A c \in Chats, u \in Users : groups_id[u][c] = 0 /\ Belong(c) = {}
  BY DEF Init, LoadedGroups, Loaded, Ids, Belong
<1>4. \A t \in Threads, u \in Users, c \in Chats : ~Owes(t, u, c)
  BY DEF Init, Owes
<1>5. Listed
  <2>2. \A c \in Chats, u \in Users : groups_id[u][c] =
          IF u \in Belong(c) /\ ~ \E t \in Threads : Owes(t, u, c) THEN 1 ELSE 0
    BY <1>3
  <2> QED
    BY <1>4, <2>2 DEF Listed
<1> QED
  BY <1>1, <1>2, <1>5 DEF LInv

(* the step of a thread that owes what it owed before                      *)
LEMMA OwesSame ==
  ASSUME Listed, NEW t \in Threads, UNCHANGED <<group_users, unsaved>>, groups_id' = groups_id,
         \A s \in Threads \ {t} : pc'[s] = pc[s] /\ cid'[s] = cid[s] /\ who'[s] = who[s],
         \A u \in Users, c \in Chats : Owes(t, u, c)' <=> Owes(t, u, c)
  PROVE  Listed'
<1>1. \A s \in Threads, u \in Users, c \in Chats : Owes(s, u, c)' <=> Owes(s, u, c)
  BY DEF Owes, Me
<1>2. \A c \in Chats : Belong(c)' = Belong(c)
  BY DEF Belong
<1> QED
  BY <1>1, <1>2 DEF Listed

(* it pays for one user                                                    *)
LEMMA OwesLess ==
  ASSUME TypeOK, Listed, NEW t \in Threads, NEW v \in Users, NEW d \in Chats, Owes(t, v, d),
         UNCHANGED <<group_users, unsaved>>,
         groups_id' = [groups_id EXCEPT ![v] = Plus(@, d)],
         \A s \in Threads \ {t} : pc'[s] = pc[s] /\ cid'[s] = cid[s] /\ who'[s] = who[s],
         \A u \in Users, c \in Chats : Owes(t, u, c)' <=> Owes(t, u, c) /\ ~(u = v /\ c = d)
  PROVE  Listed'
<1>1. \A s \in Threads, u \in Users, c \in Chats :
        Owes(s, u, c)' <=> Owes(s, u, c) /\ ~(u = v /\ c = d)
  <2>1. \A s \in Threads \ {t}, u \in Users, c \in Chats : Owes(s, u, c)' <=> Owes(s, u, c)
    BY DEF Owes, Me
  <2>2. \A s \in Threads \ {t} : ~Owes(s, v, d)
    BY DEF Listed
  <2> QED
    BY <2>1, <2>2
<1>2. \A u \in Users, c \in Chats :
        groups_id'[u][c] = IF u = v /\ c = d THEN groups_id[u][c] + 1 ELSE groups_id[u][c]
  BY DEF TypeOK, Plus, Ids
<1>3. v \in Belong(d) /\ groups_id[v][d] = 0
  BY DEF Listed
<1>5. \A c \in Chats : Belong(c)' = Belong(c)
  BY DEF Belong
<1>4. ASSUME NEW c \in Chats, NEW u \in Users
      PROVE  /\ \A s \in Threads : Owes(s, u, c)' => u \in Belong(c)'
             /\ \A r, s \in Threads : Owes(r, u, c)' /\ Owes(s, u, c)' => r = s
             /\ groups_id'[u][c] =
                  IF u \in Belong(c)' /\ ~ \E s \in Threads : Owes(s, u, c)' THEN 1 ELSE 0
  <2>1. CASE u = v /\ c = d
    BY <1>1, <1>2, <1>3, <1>5, <2>1
  <2>2. CASE ~(u = v /\ c = d)
    BY <1>1, <1>2, <1>5, <2>2 DEF Listed
  <2> QED
    BY <2>1, <2>2
<1> QED
  BY <1>4 DEF Listed

(* it works in a chat under an error code                                 *)
LEMMA OwesNothing ==
  ASSUME TypeOK, Listed, NEW t \in Threads, NEW v \in Users, NEW d \in Ids \ Chats,
         UNCHANGED <<group_users, unsaved>>,
         groups_id' = [groups_id EXCEPT ![v] = Plus(@, d)],
         \A s \in Threads \ {t} : pc'[s] = pc[s] /\ cid'[s] = cid[s] /\ who'[s] = who[s],
         \A u \in Users, c \in Chats : Owes(t, u, c)' <=> Owes(t, u, c) /\ ~(u = v /\ c = d)
  PROVE  Listed'
<1>1. \A s \in Threads, u \in Users, c \in Chats : Owes(s, u, c)' <=> Owes(s, u, c)
  BY DEF Owes, Me
<1>2. \A u \in Users, c \in Chats : groups_id'[u][c] = groups_id[u][c] /\ Belong(c)' = Belong(c)
  BY DEF TypeOK, Plus, Ids, Belong
<1> QED
  BY <1>1, <1>2 DEF Listed

(* it takes on a debt: new members, in no list yet                         *)
LEMMA OwesMore ==
  ASSUME TypeOK, Listed, NEW t \in Threads, NEW d \in Chats, NEW S \in SUBSET Users,
         S \cap Belong(d) = {}, groups_id' = groups_id,
         \A c \in Chats : Belong(c)' = IF c = d THEN Belong(c) \cup S ELSE Belong(c),
         \A s \in Threads \ {t} : pc'[s] = pc[s] /\ cid'[s] = cid[s] /\ who'[s] = who[s],
         \A u \in Users, c \in Chats : ~Owes(t, u, c) /\ (Owes(t, u, c)' <=> u \in S /\ c = d)
  PROVE  Listed'
<1>1. \A s \in Threads \ {t}, u \in Users, c \in Chats : Owes(s, u, c)' <=> Owes(s, u, c)
  BY DEF Owes, Me
<1>3. ASSUME NEW c \in Chats, NEW u \in Users
      PROVE  /\ \A s \in Threads : Owes(s, u, c)' => u \in Belong(c)'
             /\ \A r, s \in Threads : Owes(r, u, c)' /\ Owes(s, u, c)' => r = s
             /\ groups_id'[u][c] =
                  IF u \in Belong(c)' /\ ~ \E s \in Threads : Owes(s, u, c)' THEN 1 ELSE 0
  <2>1. CASE u \in S /\ c = d
    <3>1. u \notin Belong(d) /\ \A s \in Threads : ~Owes(s, u, d)
      BY <2>1 DEF Listed
    <3>2. groups_id[u][d] = 0
      BY <3>1 DEF Listed
    <3> QED
      BY <1>1, <2>1, <3>1, <3>2
  <2>2. CASE ~(u \in S /\ c = d)
    <3>1. u \in Belong(c)' <=> u \in Belong(c)
      BY <2>2
    <3>2. \A s \in Threads : Owes(s, u, c)' <=> Owes(s, u, c)
      BY <1>1, <2>2
    <3> QED
      BY <3>1, <3>2 DEF Listed
  <2> QED
    BY <2>1, <2>2
<1> QED
  BY <1>3 DEF Listed

-----------------------------------------------------------------------------
(* The requests that remove are not made, so their handlers do not run.    *)
LEMMA Adders ==
  ASSUME OnlyAdding, LInv, [Next]_vars
  PROVE  \/ Restart
         \/ UNCHANGED vars
         \/ \E t \in Threads :
              \/ \E o \in Ops, c \in Ids, S \in SUBSET Users : FindChat(t, o, c, S)
              \/ CreateRows(t) \/ CreateRowsFail(t) \/ LockChat(t) \/ GivesUp(t)
              \/ LockFails(t) \/ JoinReply(t) \/ StoreMessage(t) \/ ReadMembers(t) \/ PublishChat(t)
              \/ InsertMember(t) \/ InsertMany(t) \/ AppendMember(t) \/ AppendGroup(t)
              \/ (\E u \in Users : AppendOneOfMany(t, u))
              \/ (\E a \in Blocks : InitServerGroup(t, a))
<1>1. ASSUME NEW t \in Threads, Refuse(t) \/ InsertFails(t) \/ DeleteRowFails(t) \/ StoreFails(t)
      PROVE  GivesUp(t)
  BY <1>1 DEF Refuse, InsertFails, DeleteRowFails, StoreFails, GivesUp, GiveUp, Working, Adding, Removing, db
<1>2. ASSUME NEW t \in Threads, AddedMany(t) \/ StoreUncounted(t)
      PROVE  GivesUp(t)
  BY <1>2 DEF AddedMany, StoreUncounted, GivesUp, GiveUp, Working, Adding, Removing, db
<1>3. ASSUME NEW t \in Threads,
             \/ \E c \in Ids : FindChatToDelete(t, c)
             \/ RemoveMember(t) \/ RemoveGroup(t) \/ LockDeleted(t) \/ DeleteRefused(t) \/ DeleteRows(t)
             \/ (\E u \in Users : ForgetGroup(t, u)) \/ FreeGroup(t)
      PROVE  FALSE
  BY <1>3 DEF OnlyAdding, LInv, NoRemoval, FindChatToDelete, RemoveMember,
              RemoveGroup, LockDeleted, DeleteRefused, DeleteRows, ForgetGroup, FreeGroup
<1>4. ASSUME NEW t \in Threads, DeleteRow(t)
      PROVE  FALSE
  BY <1>4 DEF OnlyAdding, LInv, RInv, Inv, RequestOK, DeleteRow
<1> QED
  BY <1>1, <1>2, <1>3, <1>4 DEF Next, Request, Handler, DeleteUnknown

LEMMA NoRemovalStep ==
  ASSUME OnlyAdding, LInv, [Next]_vars
  PROVE  NoRemoval'
<1>0. TypeOK
  BY DEF LInv, RInv, Inv
<1> USE DEF Goto, Return, local
<1>1. CASE Restart
  BY <1>1 DEF Restart, NoRemoval
<1>2. CASE UNCHANGED vars
  BY <1>2 DEF vars, LInv, NoRemoval
<1>3. ASSUME NEW t \in Threads,
             \A s \in Threads \ {t} : pc'[s] = pc[s] /\ cid'[s] = cid[s] /\ who'[s] = who[s],
             pc'[t] \notin {"remove", "remove_group", "lock_deleted", "locked_deleted", "forget"},
             pc'[t] = "append_group" => cid'[t] \in Chats /\ \E u \in Users : who'[t] = {u}
      PROVE  NoRemoval'
  BY <1>3 DEF LInv, NoRemoval
<1>4. ASSUME NEW t \in Threads,
             \/ \E o \in Ops, c \in Ids, S \in SUBSET Users : FindChat(t, o, c, S)
             \/ CreateRows(t) \/ CreateRowsFail(t)
      PROVE  NoRemoval'
  <2>1. pc'[t] \in {"lock", "created"}
    BY <1>0, <1>4 DEF FindChat, CreateRows, CreateRowsFail, StartCreate, TypeOK
  <2>2. \A s \in Threads \ {t} : pc'[s] = pc[s] /\ cid'[s] = cid[s] /\ who'[s] = who[s]
    BY <1>0, <1>4 DEF FindChat, CreateRows, CreateRowsFail, StartCreate, TypeOK
  <2> QED
    BY <1>3, <2>1, <2>2
<1>5. ASSUME NEW t \in Threads, GivesUp(t) \/ LockFails(t) \/ JoinReply(t) \/ ReadMembers(t) \/ PublishChat(t)
      PROVE  NoRemoval'
  <2>1. Return(t)
    BY <1>5 DEF GivesUp, LockFails, JoinReply, ReadMembers, PublishChat
  <2> QED
    BY <1>0, <1>3, <2>1 DEF TypeOK
<1>6. ASSUME NEW t \in Threads, LockChat(t) \/ StoreMessage(t) \/ InsertMember(t) \/ InsertMany(t)
      PROVE  NoRemoval'
  <2>1. cid' = cid /\ who' = who /\ \E l \in {"locked", "deliver", "append", "append_many"} : Goto(t, l)
    BY <1>6 DEF LockChat, StoreMessage, InsertMember, InsertMany
  <2> QED
    BY <1>0, <1>3, <2>1 DEF TypeOK
<1>7. ASSUME NEW t \in Threads, AppendMember(t)
      PROVE  NoRemoval'
  <2>1. cid[t] \in Chats /\ \E u \in Users : who[t] = {u}
    BY <1>0, <1>7 DEF AppendMember, LInv, RInv, Inv, Committed, RequestOK, TypeOK
  <2>2. Goto(t, "append_group") /\ cid' = cid /\ who' = who
    BY <1>7 DEF AppendMember
  <2> QED
    BY <1>0, <1>3, <2>1, <2>2 DEF TypeOK
<1>8. ASSUME NEW t \in Threads, AppendGroup(t)
      PROVE  NoRemoval'
  <2>1. (Goto(t, "reply") /\ cid' = cid /\ who' = who) \/ Return(t)
    BY <1>8 DEF AppendGroup
  <2> QED
    BY <1>0, <1>3, <2>1 DEF TypeOK
<1>9. ASSUME NEW t \in Threads, NEW u \in Users, AppendOneOfMany(t, u)
      PROVE  NoRemoval'
  <2>1. pc' = pc /\ cid' = cid /\ pc[t] = "append_many" /\ \A s \in Threads \ {t} : who'[s] = who[s]
    BY <1>0, <1>9 DEF AppendOneOfMany, TypeOK
  <2> QED
    BY <1>3, <2>1
<1>10. ASSUME NEW t \in Threads, NEW a \in Blocks, InitServerGroup(t, a)
       PROVE  NoRemoval'
  <2>1. Goto(t, "publish") /\ cid' = cid /\ who' = who
    BY <1>10 DEF InitServerGroup
  <2> QED
    BY <1>0, <1>3, <2>1 DEF TypeOK
<1> QED
  BY Adders, <1>1, <1>2, <1>4, <1>5, <1>6, <1>7, <1>8, <1>9, <1>10

LEMMA ListedStep ==
  ASSUME OnlyAdding, LInv, [Next]_vars
  PROVE  Listed'
<1>0. TypeOK /\ RowsOfGroups
  BY DEF LInv, RInv, Inv
<1> USE DEF Goto, Return, local, db, heap
<1>1. CASE Restart
  <2>1. \A t \in Threads, u \in Users, c \in Chats : ~Owes(t, u, c)'
    BY <1>1 DEF Restart, Owes
  <2>2. \A c \in Chats, u \in Users : groups_id'[u][c] = IF u \in group_users[c] THEN 1 ELSE 0
    BY <1>0, <1>1 DEF Restart, LoadedGroups, Loaded, Ids, RowsOfGroups
  <2>3. \A c \in Chats : Belong(c)' = group_users[c]
    BY <1>1 DEF Restart, Belong
  <2> QED
    BY <2>1, <2>2, <2>3 DEF Listed
<1>2. CASE UNCHANGED vars
  BY <1>2 DEF vars, LInv, Listed, Owes, Me, Belong
<1>3. ASSUME NEW t \in Threads,
             \/ \E o \in Ops, c \in Ids, S \in SUBSET Users : FindChat(t, o, c, S)
             \/ LockChat(t) \/ GivesUp(t) \/ LockFails(t) \/ JoinReply(t) \/ StoreMessage(t)
             \/ ReadMembers(t) \/ PublishChat(t)
      PROVE  Listed'
  <2>1. /\ group_users' = group_users /\ unsaved' = unsaved /\ groups_id' = groups_id
        /\ \A s \in Threads \ {t} : pc'[s] = pc[s] /\ cid'[s] = cid[s] /\ who'[s] = who[s]
        /\ pc'[t] \in {"lock", "locked", "idle", "deliver"}
    BY <1>0, <1>3 DEF FindChat, LockChat, GivesUp, LockFails, JoinReply, StoreMessage, ReadMembers,
                      PublishChat, TypeOK
  <2>3. \A u \in Users, c \in Chats : ~Owes(t, u, c)
    <3>1. CASE GivesUp(t)
      BY <3>1 DEF GivesUp, Working, Adding, Owes
    <3>2. CASE ~GivesUp(t)
      <4>1. pc[t] \in {"idle", "lock", "locked", "reply", "deliver", "publish"}
        BY <1>3, <3>2 DEF FindChat, LockChat, LockFails, JoinReply, StoreMessage, ReadMembers, PublishChat
      <4> QED
        BY <4>1 DEF Owes
    <3> QED
      BY <3>1, <3>2
  <2>4. \A u \in Users, c \in Chats : ~Owes(t, u, c)'
    BY <2>1 DEF Owes
  <2> QED
    BY <2>1, <2>3, <2>4, OwesSame DEF LInv
<1>4. ASSUME NEW t \in Threads, CreateRows(t)
      PROVE  Listed'
  <2>1. PICK c \in Chats : StartCreate(t, c) /\ InsertGroupRow(t, c, {Me(t)})
    BY <1>4 DEF CreateRows
  <2>2. /\ pc[t] = "idle" /\ pc'[t] = "created" /\ cid'[t] = c
        /\ groups_id' = groups_id /\ unsaved' = unsaved
        /\ \A s \in Threads \ {t} : pc'[s] = pc[s] /\ cid'[s] = cid[s] /\ who'[s] = who[s]
    BY <1>0, <2>1 DEF StartCreate, TypeOK
  <2>3. Belong(c) = {}
    <3>1. c \notin groups
      BY <2>1 DEF InsertGroupRow, LInv, RInv, Inv, IdsUsed
    <3> QED
      BY <1>0, <3>1 DEF RowsOfGroups, Belong
  <2>5. PICK S \in SUBSET Users : S = {Me(t)}
    BY GroupAssumption DEF Me
  <2>4. \A d \in Chats : Belong(d)' = IF d = c THEN Belong(d) \cup S ELSE Belong(d)
    BY <1>0, <2>1, <2>2, <2>3, <2>5 DEF InsertGroupRow, TypeOK, Belong
  <2>6. \A u \in Users, d \in Chats : ~Owes(t, u, d) /\ (Owes(t, u, d)' <=> u \in S /\ d = c)
    BY <2>2, <2>5 DEF Owes, Me
  <2>7. Listed /\ S \cap Belong(c) = {}
    BY <2>3 DEF LInv
  <2> QED
    BY <1>0, <2>2, <2>4, <2>6, <2>7, OwesMore
(* the chat under an error code is in no list that counts                  *)
<1>10. ASSUME NEW t \in Threads, CreateRowsFail(t)
       PROVE  Listed'
  <2>1. /\ pc[t] = "idle" /\ cid'[t] = BadId /\ groups_id' = groups_id /\ unsaved' = unsaved
        /\ \A s \in Threads \ {t} : pc'[s] = pc[s] /\ cid'[s] = cid[s] /\ who'[s] = who[s]
    BY <1>0, <1>10 DEF CreateRowsFail, StartCreate, TypeOK
  <2>2. group_users' = group_users
    <3>1. ASSUME NEW c \in Chats, InsertGroupRow(t, c, {})
          PROVE  group_users' = group_users
      <4>1. c \notin groups
        BY <3>1 DEF InsertGroupRow, LInv, RInv, Inv, IdsUsed
      <4>2. group_users[c] = {}
        BY <1>0, <4>1 DEF RowsOfGroups
      <4> QED
        BY <1>0, <3>1, <4>2 DEF InsertGroupRow, TypeOK
    <3> QED
      BY <1>10, <3>1 DEF CreateRowsFail
  <2>3. \A u \in Users, c \in Chats : ~Owes(t, u, c) /\ ~Owes(t, u, c)'
    BY <2>1, GroupAssumption DEF Owes
  <2> QED
    BY <2>1, <2>2, <2>3, OwesSame DEF LInv
<1>5. ASSUME NEW t \in Threads, InsertMember(t) \/ InsertMany(t)
      PROVE  Listed'
  <2>1. /\ pc[t] = "locked" /\ pc'[t] \in {"append", "append_many"}
        /\ groups' = groups /\ groups_id' = groups_id /\ cid' = cid /\ who' = who
        /\ \A s \in Threads \ {t} : pc'[s] = pc[s]
        /\ who[t] \in SUBSET Users /\ who[t] \cap Members(ptr[t]) = {}
    BY <1>0, <1>5 DEF InsertMember, InsertMany, AddsOne, Allowed, TypeOK
  <2>3. \A u \in Users, d \in Chats : ~Owes(t, u, d) /\ (Owes(t, u, d)' <=> u \in who[t] /\ d = cid[t])
    BY <2>1 DEF Owes
  <2>4. chat_id[ptr[t]] = cid[t]
    BY <2>1 DEF LInv, RInv, Inv, NotReused, Working, OnlyAdding, Exact
  <2>5. CASE cid[t] \in Chats
    <3>1. cid[t] \in groups
      BY <2>1, <2>5 DEF LInv, RInv, InGroup, Working
    <3>2. Members(ptr[t]) = Belong(cid[t])
      BY <2>1, <3>1, InsideAgrees DEF LInv, RInv, Working, Adding, Removing, Belong
    <3>3. \A c \in Chats : Belong(c)' = IF c = cid[t] THEN Belong(c) \cup who[t] ELSE Belong(c)
      <4>1. \/ /\ group_users' = [group_users EXCEPT ![cid[t]] = @ \cup who[t]] /\ unsaved' = unsaved
            \/ /\ unsaved' = [unsaved EXCEPT ![cid[t]] = @ \cup who[t]] /\ group_users' = group_users
        BY <1>5, <2>4, <3>1 DEF InsertMember, InsertMany
      <4> QED
        BY <1>0, <4>1 DEF TypeOK, Belong
    <3> QED
      BY <1>0, <2>1, <2>3, <2>5, <3>2, <3>3, OwesMore DEF LInv
  <2>6. CASE cid[t] \notin Chats
    <3>1. cid[t] \notin groups
      BY <1>0, <2>6 DEF TypeOK
    <3>2. group_users' = group_users /\ unsaved' = unsaved
      BY <1>5, <2>4, <3>1 DEF InsertMember, InsertMany, Insertable
    <3>3. \A u \in Users, c \in Chats : ~Owes(t, u, c) /\ ~Owes(t, u, c)'
      BY <2>3, <2>6
    <3> QED
      BY <2>1, <3>2, <3>3, OwesSame DEF LInv
  <2> QED
    BY <2>5, <2>6
<1>6. ASSUME NEW t \in Threads, AppendMember(t)
      PROVE  Listed'
  <2>1. /\ group_users' = group_users /\ unsaved' = unsaved /\ groups_id' = groups_id
        /\ pc[t] = "append" /\ pc'[t] = "append_group" /\ cid' = cid /\ who' = who
        /\ \A s \in Threads \ {t} : pc'[s] = pc[s]
    BY <1>0, <1>6 DEF AppendMember, TypeOK
  <2>2. \A u \in Users, c \in Chats : Owes(t, u, c)' <=> Owes(t, u, c)
    BY <2>1 DEF Owes
  <2> QED
    BY <2>1, <2>2, OwesSame DEF LInv
<1>7. ASSUME NEW t \in Threads, AppendGroup(t)
      PROVE  Listed'
  <2>1. /\ pc[t] = "append_group" /\ pc'[t] \in {"reply", "idle"}
        /\ group_users' = group_users /\ unsaved' = unsaved
        /\ \A s \in Threads \ {t} : pc'[s] = pc[s] /\ cid'[s] = cid[s] /\ who'[s] = who[s]
    BY <1>0, <1>7 DEF AppendGroup, TypeOK
  <2>2. PICK v \in who[t] : groups_id' = [groups_id EXCEPT ![v] = Plus(@, cid[t])]
    BY <1>7 DEF AppendGroup
  <2>3. cid[t] \in Chats /\ v \in Users /\ who[t] = {v}
    BY <2>1 DEF LInv, NoRemoval
  <2>4. Owes(t, v, cid[t])
    BY <2>1 DEF Owes
  <2>5. \A u \in Users, c \in Chats : Owes(t, u, c)' <=> Owes(t, u, c) /\ ~(u = v /\ c = cid[t])
    BY <2>1, <2>3 DEF Owes
  <2> QED
    BY <1>0, <2>1, <2>2, <2>3, <2>4, <2>5, OwesLess DEF LInv
<1>8. ASSUME NEW t \in Threads, NEW v \in Users, AppendOneOfMany(t, v)
      PROVE  Listed'
  <2>1. /\ pc[t] = "append_many" /\ pc' = pc /\ cid' = cid /\ v \in who[t]
        /\ group_users' = group_users /\ unsaved' = unsaved
        /\ who'[t] = who[t] \ {v} /\ \A s \in Threads \ {t} : who'[s] = who[s]
    BY <1>0, <1>8 DEF AppendOneOfMany, TypeOK
  <2>2. chat_id[ptr[t]] = cid[t]
    BY <1>0, <2>1 DEF LInv, RInv, Inv, NotReused, Working, OnlyAdding, Exact
  <2>3. groups_id' = [groups_id EXCEPT ![v] = Plus(@, cid[t])]
    BY <1>8, <2>2 DEF AppendOneOfMany
  <2>4. Listed /\ \A s \in Threads \ {t} : pc'[s] = pc[s] /\ cid'[s] = cid[s] /\ who'[s] = who[s]
    BY <2>1 DEF LInv
  <2>5. \A u \in Users, c \in Chats : Owes(t, u, c)' <=> Owes(t, u, c) /\ ~(u = v /\ c = cid[t])
    BY <2>1 DEF Owes
  <2>6. CASE cid[t] \in Chats
    <3>1. Owes(t, v, cid[t])
      BY <2>1 DEF Owes
    <3> QED
      BY <1>0, <2>1, <2>3, <2>4, <2>5, <2>6, <3>1, OwesLess
  <2>7. CASE cid[t] \notin Chats
    <3>1. cid[t] \in Ids \ Chats
      BY <1>0, <2>7 DEF TypeOK
    <3> QED
      BY <1>0, <2>1, <2>3, <2>4, <2>5, <3>1, OwesNothing
  <2> QED
    BY <2>6, <2>7
<1>9. ASSUME NEW t \in Threads, NEW a \in Blocks, InitServerGroup(t, a)
      PROVE  Listed'
  <2>1. /\ pc[t] = "created" /\ pc'[t] = "publish" /\ cid' = cid /\ who' = who
        /\ group_users' = group_users /\ unsaved' = unsaved
        /\ groups_id' = [groups_id EXCEPT ![Me(t)] = Plus(@, cid[t])]
        /\ \A s \in Threads \ {t} : pc'[s] = pc[s]
    BY <1>0, <1>9 DEF InitServerGroup, TypeOK
  <2>3. PICK v \in Users : v = Me(t)
    BY GroupAssumption DEF Me
  <2>4. groups_id' = [groups_id EXCEPT ![v] = Plus(@, cid[t])]
    BY <2>1, <2>3
  <2>5. \A u \in Users, c \in Chats : Owes(t, u, c)' <=> Owes(t, u, c) /\ ~(u = v /\ c = cid[t])
    BY <2>1, <2>3 DEF Owes, Me
  <2>6. Listed /\ \A s \in Threads \ {t} : pc'[s] = pc[s] /\ cid'[s] = cid[s] /\ who'[s] = who[s]
    BY <2>1 DEF LInv
  <2>7. CASE cid[t] \in Chats
    <3>1. Owes(t, v, cid[t])
      BY <2>1, <2>3 DEF Owes
    <3> QED
      BY <1>0, <2>1, <2>4, <2>5, <2>6, <2>7, <3>1, OwesLess
  <2>8. CASE cid[t] \notin Chats
    <3>1. cid[t] \in Ids \ Chats
      BY <1>0, <2>8 DEF TypeOK
    <3> QED
      BY <1>0, <2>1, <2>4, <2>5, <2>6, <3>1, OwesNothing
  <2> QED
    BY <2>7, <2>8
<1> QED
  BY Adders, <1>1, <1>2, <1>3, <1>4, <1>5, <1>6, <1>7, <1>8, <1>9, <1>10

LEMMA LInvStep ==
  ASSUME OnlyAdding, LInv, [Next]_vars
  PROVE  LInv'
BY RInvStep, NoRemovalStep, ListedStep DEF OnlyAdding, LInv

(* When no handler is at work, the groups_id of each user lists, once, the *)
(* groups that have him in their array: whoever joins, adds others or      *)
(* creates a group pays what it owes before it comes to its end, and a     *)
(* restart pays for it, whichever statements fail.                         *)
THEOREM ListsMatch == OnlyAdding => (Spec => []GroupListsMatch)
<1> SUFFICES ASSUME OnlyAdding
             PROVE  Spec => []GroupListsMatch
  OBVIOUS
<1>1. Init => LInv
  BY LInvInit
<1>2. LInv /\ [Next]_vars => LInv'
  BY LInvStep
<1>3. LInv => GroupListsMatch
  <2> SUFFICES ASSUME LInv, \A t \in Threads : pc[t] = "idle", NEW u \in Users, NEW c \in Chats
               PROVE  groups_id[u][c] = IF c \in groups THEN Cached(c)[u] ELSE 0
    BY DEF GroupListsMatch
  <2>1. \A t \in Threads : ~Owes(t, u, c)
    BY DEF Owes
  <2>2. groups_id[u][c] = IF u \in Belong(c) THEN 1 ELSE 0
    BY <2>1 DEF LInv, Listed
  <2>3. c \notin groups => Belong(c) = {}
    BY DEF LInv, RInv, Inv, RowsOfGroups, Belong
  <2> QED
    BY <2>2, <2>3 DEF Cached, Belong
<1> QED
  BY <1>1, <1>2, <1>3, PTL DEF Spec
=============================================================================
