---------------------------- MODULE GroupMembership ----------------------------
(***************************************************************************)
(* Group chats of the server and who belongs to them.                      *)
(*                                                                         *)
(* Membership is stored three times: the SQLite table group_users, the     *)
(* array users_id of the cached chat_t, and the array groups_id of every   *)
(* cached user_t.  One thread per connection runs the handlers.  A handler *)
(* takes one mutex after another; between two of its critical sections any *)
(* other thread may run, and a step of this module is one such section.    *)
(*                                                                         *)
(* An int array is modelled by the number of times each id occurs in it    *)
(* (the order of its elements is never looked at), and a chat_t by the     *)
(* heap block it lives in, so that a pointer may outlive the chat.         *)
(***************************************************************************)
EXTENDS Naturals, FiniteSets

CONSTANTS
  Users,      (* ids of the users                                            *)
  Chats,      (* ids the AUTOINCREMENT column of table groups can hand out   *)
  Blocks,     (* heap blocks malloc can return for a chat_t                  *)
  Threads,    (* connection threads                                          *)
  UserOf,     (* the user each thread is logged in as                        *)
  Contacts,   (* contacts_id of each user                                    *)
  Ops,        (* the requests the clients make                               *)
  Faulty,     (* the requests whose SQL statement may fail                   *)
  Reuse,      (* may malloc return the block of a freed chat_t again?        *)
  MaxCopies,  (* bound: no new request once an id occurs this often in a groups_id *)
  BadId,      (* an int that is no chat id: -1, 0, -2 or an uninitialised slot *)
  NoUser,     (* owner of a group that does not exist                        *)
  NoReply,    (* no member list was read yet                                 *)
  NoThread,   (* owner of an unlocked mutex                                  *)
  NoBlock     (* NULL                                                        *)

AllOps == {"create_chat", "join_chat", "add_contact_to_chat", "add_many_users_to_group",
           "delete_user_from_group", "delete_group", "send_to_chat", "get_chat_users"}

(* A chat loaded from the database at start-up is placed in the block of   *)
(* its own name: addresses carry no other meaning.                         *)
ASSUME GroupAssumption ==
  /\ Chats \subseteq Blocks
  /\ UserOf \in [Threads -> Users]
  /\ Contacts \in [Users -> SUBSET Users]
  /\ Ops \subseteq AllOps
  /\ Faulty \subseteq AllOps
  /\ Reuse \in BOOLEAN
  /\ MaxCopies \in Nat \ {0}
  /\ BadId \notin Chats
  /\ NoUser \notin Users
  /\ NoThread \notin Threads
  /\ NoBlock \notin Blocks

Ids == Chats \cup {BadId}

VARIABLES
  groups,       (* ids of the rows of table groups                           *)
  ownerId,      (* their ownerId column                                      *)
  group_users,  (* table group_users: the members of each group              *)
  usedIds,      (* ids AUTOINCREMENT never hands out again                   *)
  messages,     (* the groups table messages has a row for                   *)
  chats,        (* hash table chats: the block of each cached chat           *)
  mem,          (* whether a block is unused, live or freed                  *)
  chat_id,      (* fields of the chat_t in each block                        *)
  owner_id,
  users_id,
  unsaved,      (* the users whom add_many put into the cached array of a    *)
                (* group though its INSERT had failed (history variable)     *)
  chat_mutex,   (* its mutex: the thread that holds it                       *)
  chats_mutex,  (* the mutex of the hash table                               *)
  groups_id,    (* the groups_id array of each user_t                        *)
  pc, op, cid, who, ptr,  (* per thread: where it is, its request, chat id,  *)
                          (* users still to process, and chat_t pointer      *)
  seen          (* the members get_chat_users answered with last, or those   *)
                (* send_to_chat delivered to                                 *)

db    == <<groups, ownerId, group_users, usedIds, messages>>
heap  == <<mem, chat_id, owner_id, unsaved>>
local == <<op, cid, who, ptr>>
vars  == <<db, chats, heap, users_id, chat_mutex, chats_mutex, groups_id, pc, local, seen>>

-----------------------------------------------------------------------------
(* Helpers *)

Me(t) == UserOf[t]

(* append_to_intarr *)
Plus(arr, x) == [arr EXCEPT ![x] = @ + 1]

(* group_has_such_user, for a set of users at once *)
Members(a) == {u \in Users : users_id[a][u] > 0}

AtMostOne(arr) == \A x, y \in DOMAIN arr : arr[x] > 0 /\ arr[y] > 0 => x = y /\ arr[x] = 1

(* mutant: the count is taken for granted *)
MutRemoveUnchecked(arr, x) == {[arr EXCEPT ![x] = @ - 1]}

(* remove_from_intarr: the new array is one element shorter whatever was   *)
(* found.  A missing x pushes some other element out of a longer array; of *)
(* k copies all go, and k - 1 slots of the new array stay uninitialised.   *)
RemoveFromIntarr(arr, x) ==
  CASE arr[x] = 1 -> {[arr EXCEPT ![x] = 0]}
    [] arr[x] = 0 -> IF AtMostOne(arr) THEN {arr}
                     ELSE {[arr EXCEPT ![y] = @ - 1] : y \in {z \in DOMAIN arr : arr[z] > 0}}
    [] OTHER      -> {[y \in DOMAIN arr |-> (IF y = x THEN 0 ELSE arr[y])
                                            + Cardinality({i \in DOMAIN slots : slots[i] = y})] :
                        slots \in [1 .. arr[x] - 1 -> DOMAIN arr]}

Goto(t, l) == pc' = [pc EXCEPT ![t] = l]

(* the handler returns, and its locals with it *)
Return(t) ==
  /\ Goto(t, "idle")
  /\ op' = [op EXCEPT ![t] = "none"]
  /\ cid' = [cid EXCEPT ![t] = BadId]
  /\ who' = [who EXCEPT ![t] = {}]
  /\ ptr' = [ptr EXCEPT ![t] = NoBlock]

Unlock(t) == chat_mutex' = [chat_mutex EXCEPT ![ptr[t]] = NoThread]

(* add_users_to_group: FOREIGN KEY (groupId) and UNIQUE (groupId, userId)  *)
Insertable(c, S) == c \in groups /\ S # {} /\ S \cap group_users[c] = {}

-----------------------------------------------------------------------------
(* Start-up: setup_general_data loads the groups that have members.        *)

Loaded(c) == c \in groups /\ group_users[c] # {}

LoadedChats == [c \in Ids |-> IF c \in Chats /\ Loaded(c) THEN c ELSE NoBlock]
LoadedMem   == [a \in Blocks |-> IF a \in Chats /\ Loaded(a) THEN "live" ELSE "unused"]
LoadedIds   == [a \in Blocks |-> IF a \in Chats THEN a ELSE BadId]
LoadedOwners == [a \in Blocks |-> IF a \in Chats THEN ownerId[a] ELSE NoUser]
LoadedUsers == [a \in Blocks |-> [u \in Users |->
                  IF a \in Chats /\ Loaded(a) /\ u \in group_users[a] THEN 1 ELSE 0]]
LoadedGroups == [u \in Users |-> [c \in Ids |->
                  IF c \in Chats /\ Loaded(c) /\ u \in group_users[c] THEN 1 ELSE 0]]

(* the tables init_db.sql creates are empty *)
Init ==
  /\ groups = {}
  /\ usedIds = {}
  /\ messages = {}
  /\ ownerId = [c \in Chats |-> NoUser]
  /\ group_users = [c \in Chats |-> {}]
  /\ chats = LoadedChats
  /\ mem = LoadedMem
  /\ chat_id = LoadedIds
  /\ owner_id = LoadedOwners
  /\ users_id = LoadedUsers
  /\ unsaved = [c \in Chats |-> {}]
  /\ chat_mutex = [a \in Blocks |-> NoThread]
  /\ chats_mutex = NoThread
  /\ groups_id = LoadedGroups
  /\ pc = [t \in Threads |-> "idle"]
  /\ op = [t \in Threads |-> "none"]
  /\ cid = [t \in Threads |-> BadId]
  /\ who = [t \in Threads |-> {}]
  /\ ptr = [t \in Threads |-> NoBlock]
  /\ seen = NoReply

(* The process dies (a crash, a kill, a NULL dereference) and is started   *)
(* again on the same database.                                             *)
Restart ==
  /\ chats' = LoadedChats
  /\ mem' = LoadedMem
  /\ chat_id' = LoadedIds
  /\ owner_id' = LoadedOwners
  /\ users_id' = LoadedUsers
  /\ unsaved' = [c \in Chats |-> {}]
  /\ chat_mutex' = [a \in Blocks |-> NoThread]
  /\ chats_mutex' = NoThread
  /\ groups_id' = LoadedGroups
  /\ pc' = [t \in Threads |-> "idle"]
  /\ op' = [t \in Threads |-> "none"]
  /\ cid' = [t \in Threads |-> BadId]
  /\ who' = [t \in Threads |-> {}]
  /\ ptr' = [t \in Threads |-> NoBlock]
  /\ UNCHANGED <<db, seen>>

-----------------------------------------------------------------------------
(* get_group_data_and_lock_group_mutex: the pointer is fetched under       *)
(* chats_mutex, which is released before the mutex of the chat is taken.   *)

(* the users a request may name *)
Names(t, o, S) ==
  CASE o = "join_chat"              -> S = {Me(t)}
    [] o = "add_contact_to_chat"    -> \E u \in Contacts[Me(t)] : S = {u}
    [] o = "add_many_users_to_group" -> TRUE
    [] o = "delete_user_from_group" -> \E u \in Users : S = {u}
    [] o \in {"send_to_chat", "get_chat_users"} -> S = {}
    [] OTHER                        -> FALSE

BelowBound == \A u \in Users, c \in Ids : groups_id[u][c] < MaxCopies

(* A request for a chat that is not cached is answered with an error and   *)
(* changes nothing.                                                        *)
FindChat(t, o, c, S) ==
  /\ pc[t] = "idle" /\ BelowBound
  /\ o \in Ops /\ Names(t, o, S)
  /\ chats_mutex = NoThread
  /\ chats[c] # NoBlock
  /\ op' = [op EXCEPT ![t] = o]
  /\ cid' = [cid EXCEPT ![t] = c]
  /\ who' = [who EXCEPT ![t] = S]
  /\ ptr' = [ptr EXCEPT ![t] = chats[c]]
  /\ Goto(t, "lock")
  /\ UNCHANGED <<db, chats, heap, users_id, chat_mutex, chats_mutex, groups_id, seen>>

(* In a freed block the mutex is still held, so this waits until the block *)
(* is a new chat, if ever.                                                 *)
LockChat(t) ==
  /\ pc[t] = "lock"
  /\ chat_mutex[ptr[t]] = NoThread
  /\ chat_mutex' = [chat_mutex EXCEPT ![ptr[t]] = t]
  /\ Goto(t, "locked")
  /\ UNCHANGED <<db, chats, heap, users_id, chats_mutex, groups_id, local, seen>>

(* rc == EINVAL: the lock notices that the mutex was destroyed *)
LockFails(t) ==
  /\ pc[t] = "lock"
  /\ mem[ptr[t]] = "freed"
  /\ Return(t)
  /\ UNCHANGED <<db, chats, heap, users_id, chat_mutex, chats_mutex, groups_id, seen>>

-----------------------------------------------------------------------------
(* What the handlers check once the chat is locked *)

IsOwner(t) == owner_id[ptr[t]] = Me(t)

(* mutant: add_many does not look who is already there *)
MutAllowAgain(t) ==
  LET present == Members(ptr[t]) IN
  CASE op[t] \in {"join_chat", "add_contact_to_chat"} -> who[t] \cap present = {}
    [] op[t] = "add_many_users_to_group" -> IsOwner(t)
    [] op[t] = "delete_user_from_group"  -> Me(t) \in present /\ IsOwner(t) /\ who[t] \subseteq present
    [] OTHER -> TRUE

(* mutant: any member may remove others *)
MutAllowMembers(t) ==
  LET present == Members(ptr[t]) IN
  CASE op[t] \in {"join_chat", "add_contact_to_chat"} -> who[t] \cap present = {}
    [] op[t] = "add_many_users_to_group" -> IsOwner(t) /\ who[t] \cap present = {}
    [] op[t] = "delete_user_from_group"  -> Me(t) \in present /\ who[t] \subseteq present
    [] OTHER -> TRUE

Allowed(t) ==
  LET present == Members(ptr[t]) IN
  CASE op[t] \in {"join_chat", "add_contact_to_chat"} -> who[t] \cap present = {}
    [] op[t] = "add_many_users_to_group" -> IsOwner(t) /\ who[t] \cap present = {}
    [] op[t] = "delete_user_from_group"  -> Me(t) \in present /\ IsOwner(t) /\ who[t] \subseteq present
    [] OTHER -> TRUE

(* an error reply: the handler unlocks the chat and gives up *)
GiveUp(t) ==
  /\ Unlock(t)
  /\ Return(t)
  /\ UNCHANGED <<db, chats, heap, users_id, chats_mutex, groups_id, seen>>

(* mutant: an early return that keeps the mutex *)
MutRefuseLocked(t) ==
  /\ pc[t] = "locked" /\ ~Allowed(t)
  /\ Return(t)
  /\ UNCHANGED <<db, chats, heap, users_id, chat_mutex, chats_mutex, groups_id, seen>>

Refuse(t) == pc[t] = "locked" /\ ~Allowed(t) /\ GiveUp(t)

-----------------------------------------------------------------------------
(* handle_join_chat, handle_add_contact_to_chat *)

AddsOne(t) == op[t] \in {"join_chat", "add_contact_to_chat"}

(* mutant: the mutex is released before users_id is updated *)
MutInsertUnlocked(t) ==
  /\ pc[t] = "locked" /\ AddsOne(t) /\ Allowed(t)
  /\ Insertable(cid[t], who[t])
  /\ group_users' = [group_users EXCEPT ![cid[t]] = @ \cup who[t]]
  /\ Unlock(t)
  /\ Goto(t, "append")
  /\ UNCHANGED <<groups, ownerId, usedIds, messages, chats, heap, users_id, chats_mutex, groups_id, local, seen>>

InsertMember(t) ==
  /\ pc[t] = "locked" /\ AddsOne(t) /\ Allowed(t)
  /\ Insertable(cid[t], who[t])
  /\ group_users' = [group_users EXCEPT ![cid[t]] = @ \cup who[t]]
  /\ Goto(t, "append")
  /\ UNCHANGED <<groups, ownerId, usedIds, messages, chats, heap, users_id, chat_mutex, chats_mutex,
                 groups_id, local, seen>>

InsertFails(t) ==
  /\ pc[t] = "locked" /\ AddsOne(t) /\ Allowed(t)
  /\ op[t] \in Faulty \/ ~Insertable(cid[t], who[t])
  /\ GiveUp(t)

(* append_to_group_users, then the mutex of the chat is released *)
AppendMember(t) ==
  /\ pc[t] = "append"
  /\ \E u \in who[t] : users_id' = [users_id EXCEPT ![ptr[t]] = Plus(@, u)]
  /\ Unlock(t)
  /\ Goto(t, "append_group")
  /\ UNCHANGED <<db, chats, heap, chats_mutex, groups_id, local, seen>>

(* mutant: only a join updates groups_id *)
MutAppendJoinOnly(t) ==
  /\ pc[t] = "append_group"
  /\ \/ /\ op[t] = "join_chat" /\ Goto(t, "reply") /\ UNCHANGED local
        /\ \E u \in who[t] : groups_id' = [groups_id EXCEPT ![u] = Plus(@, cid[t])]
     \/ op[t] # "join_chat" /\ Return(t) /\ UNCHANGED groups_id
  /\ UNCHANGED <<db, chats, heap, users_id, chat_mutex, chats_mutex, seen>>

(* append_to_users_groups under the user's mutex, after the chat's was released *)
AppendGroup(t) ==
  /\ pc[t] = "append_group"
  /\ \E u \in who[t] : groups_id' = [groups_id EXCEPT ![u] = Plus(@, cid[t])]
  /\ \/ op[t] = "join_chat" /\ Goto(t, "reply") /\ UNCHANGED local
     \/ op[t] # "join_chat" /\ Return(t)
  /\ UNCHANGED <<db, chats, heap, users_id, chat_mutex, chats_mutex, seen>>

(* the reply to a join reads chat->name *)
JoinReply(t) ==
  /\ pc[t] = "reply"
  /\ Return(t)
  /\ UNCHANGED <<db, chats, heap, users_id, chat_mutex, chats_mutex, groups_id, seen>>

-----------------------------------------------------------------------------
(* handle_add_many_users_to_group: the result of the INSERT is not looked at *)

(* The INSERT goes to the group of the request; the users go into the      *)
(* array of the chat that is locked, be it still that of the request or not.*)
InsertMany(t) ==
  /\ pc[t] = "locked" /\ op[t] = "add_many_users_to_group" /\ Allowed(t)
  /\ \/ /\ Insertable(cid[t], who[t])
        /\ group_users' = [group_users EXCEPT ![cid[t]] = @ \cup who[t]]
        /\ UNCHANGED unsaved
     \/ /\ op[t] \in Faulty \/ ~Insertable(cid[t], who[t])
        /\ unsaved' = IF chat_id[ptr[t]] \in groups
                        THEN [unsaved EXCEPT ![chat_id[ptr[t]]] = @ \cup who[t]]
                        ELSE unsaved
        /\ UNCHANGED group_users
  /\ Goto(t, "append_many")
  /\ UNCHANGED <<groups, ownerId, usedIds, messages, chats, mem, chat_id, owner_id, users_id,
                 chat_mutex, chats_mutex, groups_id, local, seen>>

(* update_group_users_and_user_groups for one user of the list *)
AppendOneOfMany(t, u) ==
  /\ pc[t] = "append_many" /\ u \in who[t]
  /\ users_id' = [users_id EXCEPT ![ptr[t]] = Plus(@, u)]
  /\ groups_id' = [groups_id EXCEPT ![u] = Plus(@, chat_id[ptr[t]])]
  /\ who' = [who EXCEPT ![t] = @ \ {u}]
  /\ UNCHANGED <<db, chats, heap, chat_mutex, chats_mutex, pc, op, cid, ptr, seen>>

AddedMany(t) ==
  /\ pc[t] = "append_many" /\ who[t] = {}
  /\ GiveUp(t)

-----------------------------------------------------------------------------
(* handle_delete_user_from_group *)

DeleteRow(t) ==
  /\ pc[t] = "locked" /\ op[t] = "delete_user_from_group" /\ Allowed(t)
  /\ cid[t] \in groups /\ who[t] \subseteq group_users[cid[t]]
  /\ group_users' = [group_users EXCEPT ![cid[t]] = @ \ who[t]]
  /\ Goto(t, "remove")
  /\ UNCHANGED <<groups, ownerId, usedIds, messages, chats, heap, users_id, chat_mutex, chats_mutex,
                 groups_id, local, seen>>

(* rc != 1: an SQL error, or no such row *)
DeleteRowFails(t) ==
  /\ pc[t] = "locked" /\ op[t] = "delete_user_from_group" /\ Allowed(t)
  /\ \/ op[t] \in Faulty
     \/ ~(cid[t] \in groups /\ who[t] \subseteq group_users[cid[t]])
  /\ GiveUp(t)

RemoveMember(t) ==
  /\ pc[t] = "remove"
  /\ \E u \in who[t] : \E arr \in RemoveFromIntarr(users_id[ptr[t]], u) :
        users_id' = [users_id EXCEPT ![ptr[t]] = arr]
  /\ Unlock(t)
  /\ Goto(t, "remove_group")
  /\ UNCHANGED <<db, chats, heap, chats_mutex, groups_id, local, seen>>

(* remove_from_users_groups, after the mutex of the chat was released *)
RemoveGroup(t) ==
  /\ pc[t] = "remove_group"
  /\ \E u \in who[t] : \E arr \in RemoveFromIntarr(groups_id[u], cid[t]) :
        groups_id' = [groups_id EXCEPT ![u] = arr]
  /\ Return(t)
  /\ UNCHANGED <<db, chats, heap, users_id, chat_mutex, chats_mutex, seen>>

-----------------------------------------------------------------------------
(* handle_send_to_chat, handle_get_chat_users *)

(* mutant: the result of insert_group_message is not looked at *)
MutStoreUnchecked(t) ==
  /\ pc[t] = "locked" /\ op[t] = "send_to_chat"
  /\ messages' = messages \cup (groups \cap {cid[t]})
  /\ Goto(t, "deliver")
  /\ UNCHANGED <<groups, ownerId, group_users, usedIds, chats, heap, users_id, chat_mutex,
                 chats_mutex, groups_id, local, seen>>

(* insert_group_message: FOREIGN KEY (targetGroupId) *)
StoreMessage(t) ==
  /\ pc[t] = "locked" /\ op[t] = "send_to_chat"
  /\ cid[t] \in groups
  /\ messages' = messages \cup {cid[t]}
  /\ Goto(t, "deliver")
  /\ UNCHANGED <<groups, ownerId, group_users, usedIds, chats, heap, users_id, chat_mutex,
                 chats_mutex, groups_id, local, seen>>

(* The INSERT is done and the UPDATE of unreadNum fails: the sender gets   *)
(* an error, and the message stays in the table, sent to nobody.           *)
StoreUncounted(t) ==
  /\ pc[t] = "locked" /\ op[t] = "send_to_chat" /\ op[t] \in Faulty
  /\ cid[t] \in groups
  /\ messages' = messages \cup {cid[t]}
  /\ Unlock(t)
  /\ Return(t)
  /\ UNCHANGED <<groups, ownerId, group_users, usedIds, chats, heap, users_id, chats_mutex,
                 groups_id, seen>>

(* the INSERT fails *)
StoreFails(t) ==
  /\ pc[t] = "locked" /\ op[t] = "send_to_chat"
  /\ op[t] \in Faulty \/ cid[t] \notin groups
  /\ GiveUp(t)

(* mutant: get_chat_users reads without the mutex *)
MutReadUnlocked(t) ==
  /\ \/ pc[t] = "deliver" /\ Unlock(t)
     \/ pc[t] = "lock" /\ op[t] = "get_chat_users" /\ UNCHANGED chat_mutex
  /\ seen' = IF cid[t] \in Chats THEN [chat |-> cid[t], users |-> Members(ptr[t])] ELSE seen
  /\ Return(t)
  /\ UNCHANGED <<db, chats, heap, users_id, chats_mutex, groups_id>>

(* send_to_group_and_delete_json, or the members array of the reply: the   *)
(* list is read with the mutex of the chat held.  A chat cached under an   *)
(* error code is no group's, and its list is not looked at here.           *)
ReadMembers(t) ==
  /\ \/ pc[t] = "deliver"
     \/ pc[t] = "locked" /\ op[t] = "get_chat_users"
  /\ seen' = IF cid[t] \in Chats THEN [chat |-> cid[t], users |-> Members(ptr[t])] ELSE seen
  /\ Unlock(t)
  /\ Return(t)
  /\ UNCHANGED <<db, chats, heap, users_id, chats_mutex, groups_id>>

-----------------------------------------------------------------------------
(* handle_delete_group holds chats_mutex from the lookup to the ht_del *)

FindChatToDelete(t, c) ==
  /\ pc[t] = "idle" /\ "delete_group" \in Ops
  /\ chats_mutex = NoThread
  /\ chats[c] # NoBlock
  /\ chats_mutex' = t
  /\ op' = [op EXCEPT ![t] = "delete_group"]
  /\ cid' = [cid EXCEPT ![t] = c]
  /\ who' = [who EXCEPT ![t] = {}]
  /\ ptr' = [ptr EXCEPT ![t] = chats[c]]
  /\ Goto(t, "lock_deleted")
  /\ UNCHANGED <<db, chats, heap, users_id, chat_mutex, groups_id, seen>>

(* The branch for an unknown id has no return: &chat_data->mutex of NULL.  *)
DeleteUnknown(t, c) ==
  /\ pc[t] = "idle" /\ "delete_group" \in Ops
  /\ chats_mutex = NoThread
  /\ chats[c] = NoBlock
  /\ Restart

(* mutant: the group is deleted without its mutex *)
MutLockNothing(t) ==
  /\ pc[t] = "lock_deleted"
  /\ Goto(t, "locked_deleted")
  /\ UNCHANGED <<db, chats, heap, users_id, chat_mutex, chats_mutex, groups_id, local, seen>>

LockDeleted(t) ==
  /\ pc[t] = "lock_deleted"
  /\ chat_mutex[ptr[t]] = NoThread
  /\ chat_mutex' = [chat_mutex EXCEPT ![ptr[t]] = t]
  /\ Goto(t, "locked_deleted")
  /\ UNCHANGED <<db, chats, heap, users_id, chats_mutex, groups_id, local, seen>>

(* not the owner, or rc < 0 *)
DeleteRefused(t) ==
  /\ pc[t] = "locked_deleted"
  /\ ~IsOwner(t) \/ op[t] \in Faulty
  /\ Unlock(t)
  /\ chats_mutex' = NoThread
  /\ Return(t)
  /\ UNCHANGED <<db, chats, heap, users_id, groups_id, seen>>

(* delete_group: ON DELETE CASCADE empties group_users and messages *)
DeleteRows(t) ==
  /\ pc[t] = "locked_deleted" /\ IsOwner(t)
  /\ groups' = groups \ {cid[t]}
  /\ group_users' = [c \in Chats |-> IF c = cid[t] THEN {} ELSE group_users[c]]
  /\ messages' = messages \ {cid[t]}
  /\ unsaved' = [c \in Chats |-> IF c = cid[t] THEN {} ELSE unsaved[c]]
  /\ who' = [who EXCEPT ![t] = Members(ptr[t])]
  /\ Goto(t, "forget")
  /\ UNCHANGED <<ownerId, usedIds, chats, mem, chat_id, owner_id, users_id, chat_mutex, chats_mutex,
                 groups_id, op, cid, ptr, seen>>

ForgetGroup(t, u) ==
  /\ pc[t] = "forget" /\ u \in who[t]
  /\ \E arr \in RemoveFromIntarr(groups_id[u], chat_id[ptr[t]]) :
        groups_id' = [groups_id EXCEPT ![u] = arr]
  /\ who' = [who EXCEPT ![t] = @ \ {u}]
  /\ UNCHANGED <<db, chats, heap, users_id, chat_mutex, chats_mutex, pc, op, cid, ptr, seen>>

(* free_server_group frees the block with its mutex held *)
FreeGroup(t) ==
  /\ pc[t] = "forget" /\ who[t] = {}
  /\ mem' = [mem EXCEPT ![ptr[t]] = "freed"]
  /\ chats' = [chats EXCEPT ![cid[t]] = NoBlock]
  /\ chats_mutex' = NoThread
  /\ Return(t)
  /\ UNCHANGED <<db, chat_id, owner_id, unsaved, users_id, chat_mutex, groups_id, seen>>

-----------------------------------------------------------------------------
(* handle_create_chat *)

StartCreate(t, c) ==
  /\ pc[t] = "idle" /\ "create_chat" \in Ops /\ BelowBound
  /\ op' = [op EXCEPT ![t] = "create_chat"]
  /\ cid' = [cid EXCEPT ![t] = c]
  /\ who' = [who EXCEPT ![t] = {}]
  /\ Goto(t, "created")
  /\ UNCHANGED <<chats, heap, users_id, chat_mutex, chats_mutex, groups_id, ptr, seen>>

(* the row of table groups, with a new id *)
InsertGroupRow(t, c, members) ==
  /\ c \notin usedIds
  /\ groups' = groups \cup {c}
  /\ usedIds' = usedIds \cup {c}
  /\ ownerId' = [ownerId EXCEPT ![c] = Me(t)]
  /\ group_users' = [group_users EXCEPT ![c] = members]
  /\ UNCHANGED messages

CreateRows(t) == \E c \in Chats : StartCreate(t, c) /\ InsertGroupRow(t, c, {Me(t)})

(* One of the two INSERTs fails.  The handler goes on with the error code  *)
(* as the id of the chat; the row of the group may be left without members.*)
CreateRowsFail(t) ==
  /\ "create_chat" \in Faulty
  /\ StartCreate(t, BadId)
  /\ \/ UNCHANGED db
     \/ \E c \in Chats : InsertGroupRow(t, c, {})

(* mutant: the array of the new chat starts as the memory was left *)
MutInitServerGroup(t, a) ==
  /\ pc[t] = "created"
  /\ mem[a] = "unused" \/ (Reuse /\ mem[a] = "freed")
  /\ mem' = [mem EXCEPT ![a] = "live"]
  /\ chat_id' = [chat_id EXCEPT ![a] = cid[t]]
  /\ owner_id' = [owner_id EXCEPT ![a] = Me(t)]
  /\ users_id' = [users_id EXCEPT ![a] = [@ EXCEPT ![Me(t)] = 1]]
  /\ chat_mutex' = [chat_mutex EXCEPT ![a] = NoThread]
  /\ ptr' = [ptr EXCEPT ![t] = a]
  /\ groups_id' = [groups_id EXCEPT ![Me(t)] = Plus(@, cid[t])]
  /\ Goto(t, "publish")
  /\ UNCHANGED <<db, chats, unsaved, chats_mutex, op, cid, who, seen>>

(* init_server_group, then groups_id under the user's mutex *)
InitServerGroup(t, a) ==
  /\ pc[t] = "created"
  /\ mem[a] = "unused" \/ (Reuse /\ mem[a] = "freed")
  /\ mem' = [mem EXCEPT ![a] = "live"]
  /\ chat_id' = [chat_id EXCEPT ![a] = cid[t]]
  /\ owner_id' = [owner_id EXCEPT ![a] = Me(t)]
  /\ users_id' = [users_id EXCEPT ![a] = [u \in Users |-> IF u = Me(t) THEN 1 ELSE 0]]
  /\ chat_mutex' = [chat_mutex EXCEPT ![a] = NoThread]
  /\ ptr' = [ptr EXCEPT ![t] = a]
  /\ groups_id' = [groups_id EXCEPT ![Me(t)] = Plus(@, cid[t])]
  /\ Goto(t, "publish")
  /\ UNCHANGED <<db, chats, unsaved, chats_mutex, op, cid, who, seen>>

(* ht_set under chats_mutex *)
PublishChat(t) ==
  /\ pc[t] = "publish"
  /\ chats_mutex = NoThread
  /\ chats' = [chats EXCEPT ![cid[t]] = ptr[t]]
  /\ Return(t)
  /\ UNCHANGED <<db, heap, users_id, chat_mutex, chats_mutex, groups_id, seen>>

-----------------------------------------------------------------------------
Handler(t) ==
  \/ LockChat(t) \/ LockFails(t) \/ Refuse(t)
  \/ InsertMember(t) \/ InsertFails(t) \/ AppendMember(t) \/ AppendGroup(t) \/ JoinReply(t)
  \/ InsertMany(t) \/ (\E u \in Users : AppendOneOfMany(t, u)) \/ AddedMany(t)
  \/ DeleteRow(t) \/ DeleteRowFails(t) \/ RemoveMember(t) \/ RemoveGroup(t)
  \/ StoreMessage(t) \/ StoreUncounted(t) \/ StoreFails(t) \/ ReadMembers(t)
  \/ LockDeleted(t) \/ DeleteRefused(t) \/ DeleteRows(t)
  \/ (\E u \in Users : ForgetGroup(t, u)) \/ FreeGroup(t)
  \/ (\E a \in Blocks : InitServerGroup(t, a)) \/ PublishChat(t)

Request(t) ==
  \/ \E o \in Ops, c \in Ids, S \in SUBSET Users : FindChat(t, o, c, S)
  \/ \E c \in Ids : FindChatToDelete(t, c) \/ DeleteUnknown(t, c)
  \/ CreateRows(t) \/ CreateRowsFail(t)

Next == Restart \/ \E t \in Threads : Request(t) \/ Handler(t)

Spec == Init /\ [][Next]_vars

(* The operating system runs every thread, and a mutex that is unlocked    *)
(* again and again is eventually granted to each waiting thread.           *)
Fairness == \A t \in Threads : WF_vars(Handler(t)) /\ SF_vars(LockChat(t))
                               /\ SF_vars(LockDeleted(t)) /\ SF_vars(PublishChat(t))

FairSpec == Spec /\ Fairness

-----------------------------------------------------------------------------
(* Properties *)

PCs == {"idle", "lock", "locked", "append", "append_group", "reply", "append_many", "remove",
        "remove_group", "deliver", "lock_deleted", "locked_deleted", "forget", "created", "publish"}

(* Every variable has its type; in particular an array never holds a       *)
(* negative number of copies.                                              *)
TypeOK ==
  /\ groups \in SUBSET Chats
  /\ usedIds \in SUBSET Chats
  /\ messages \in SUBSET Chats
  /\ ownerId \in [Chats -> Users \cup {NoUser}]
  /\ group_users \in [Chats -> SUBSET Users]
  /\ chats \in [Ids -> Blocks \cup {NoBlock}]
  /\ mem \in [Blocks -> {"unused", "live", "freed"}]
  /\ chat_id \in [Blocks -> Ids]
  /\ owner_id \in [Blocks -> Users \cup {NoUser}]
  /\ users_id \in [Blocks -> [Users -> Nat]]
  /\ unsaved \in [Chats -> SUBSET Users]
  /\ chat_mutex \in [Blocks -> Threads \cup {NoThread}]
  /\ chats_mutex \in Threads \cup {NoThread}
  /\ groups_id \in [Users -> [Ids -> Nat]]
  /\ pc \in [Threads -> PCs]
  /\ op \in [Threads -> AllOps \cup {"none"}]
  /\ cid \in [Threads -> Ids]
  /\ who \in [Threads -> SUBSET Users]
  /\ ptr \in [Threads -> Blocks \cup {NoBlock}]

(* the array of a cached chat: its rows, and what add_many never saved     *)
Cached(c) == [u \in Users |-> IF u \in group_users[c] \cup unsaved[c] THEN 1 ELSE 0]

(* The cached chat agrees with the database.  Whoever finds the chat of a  *)
(* group in the hash table with its mutex free sees the owner the table    *)
(* groups names and, each exactly once, the users group_users holds --     *)
(* whatever handlers are half done, whichever statement failed, whatever   *)
(* memory a chat has taken, and after every restart.  The one difference   *)
(* is made by add_many_users_to_group, which does not look at the result   *)
(* of its INSERT: the users of a failed one are in the array, each once as *)
(* well, and no others are there without a row; a restart drops them.  The *)
(* chat that create_chat caches under an error code is of no group, and    *)
(* nothing is said of it.                                                  *)
CacheMatchesDb ==
  \A c \in Chats : LET a == chats[c] IN
    a # NoBlock /\ chat_mutex[a] = NoThread =>
      c \in groups /\ users_id[a] = Cached(c) /\ owner_id[a] = ownerId[c]

(* remove_from_intarr finds the member it removes exactly once: with no    *)
(* copy it would write past the new array, with two it would leave an      *)
(* uninitialised slot in it.                                               *)
RemovalIsExact ==
  \A t \in Threads : pc[t] = "remove" => \A u \in who[t] : users_id[ptr[t]][u] = 1

(* A message is delivered only when it is in the table, and it goes, once, *)
(* to each member of the group it was stored for, although the owner may   *)
(* be deleting that group and another chat may have taken its memory.  (A  *)
(* message may be in the table and never be delivered: StoreUncounted.)    *)
DeliveryReachesMembers ==
  \A t \in Threads : pc[t] = "deliver" =>
    cid[t] \in groups \cap messages /\ users_id[ptr[t]] = Cached(cid[t])

(* When a row of group_users disappears from a group that stays, it is the *)
(* owner of the group who removes it, with the mutex of the chat held.     *)
OnlyOwnerRemoves ==
  [][\A c \in groups \cap groups' :
       ~(group_users[c] \subseteq group_users'[c]) =>
         \E t \in Threads : /\ UserOf[t] = ownerId[c] /\ pc[t] # pc'[t]
                            /\ chats[c] # NoBlock /\ chat_mutex[chats[c]] = t]_vars

(* A block is freed by the thread that holds its mutex and the mutex of    *)
(* the hash table, never while another thread is inside its critical       *)
(* section.                                                                *)
Inside(t) == pc[t] \in {"locked", "append", "append_many", "remove", "deliver",
                        "locked_deleted", "forget"}

NobodyInsideFreedChat ==
  \A t \in Threads : Inside(t) => mem[ptr[t]] = "live" /\ chat_mutex[ptr[t]] = t

(* The comment "Critical resource access: SELECTED CHAT. End" of           *)
(* handle_join_chat says that it is done with the chat: it does not read a *)
(* chat that has been freed.                                               *)
NoReadOfFreedChat == \A t \in Threads : pc[t] = "reply" => mem[ptr[t]] = "live"

(* When no handler is at work, the groups_id of each user lists, once, the *)
(* groups that have the user in their array.                               *)
GroupListsMatch ==
  (\A t \in Threads : pc[t] = "idle") =>
    \A u \in Users, c \in Chats : groups_id[u][c] = IF c \in groups THEN Cached(c)[u] ELSE 0

(* Every request is answered: no thread waits for a mutex for ever.        *)
RequestsEnd == \A t \in Threads : pc[t] # "idle" ~> pc[t] = "idle"

(* What a client is told of the members of a group, seen as one step on an *)
(* abstract directory of groups.                                           *)
Directory == INSTANCE GroupDirectory
               WITH owner <- ownerId, members <- group_users, guests <- unsaved

DirectorySpec == Directory!Spec

=============================================================================
