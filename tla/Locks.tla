-------------------------------- MODULE Locks --------------------------------
(***************************************************************************)
(* The mutexes of the server and the order in which each handler takes     *)
(* them.  What a thread does to the mutexes between two messages is        *)
(* written down as data, a sequence of operations; the state machine lets  *)
(* several threads carry out such sequences at the same time.              *)
(*                                                                         *)
(* There is one mutex per hash table and for the database, one per chat    *)
(* (chat_t), one per user (user_t) and one per client_t, which guards the  *)
(* connection.  All are default mutexes: locking one twice blocks.         *)
(***************************************************************************)
EXTENDS Naturals, Sequences, SequencesExt

CONSTANTS
  Threads,     (* one per connection                                         *)
  NumUsers,    (* users are 1..NumUsers                                      *)
  NumChats,    (* chats are 1..NumChats                                      *)
  Handlers,    (* the requests that are made                                 *)
  Idle,        (* the thread waits for a message                             *)
  Free         (* nobody holds the mutex                                     *)

ASSUME LockAssumption ==
  /\ NumUsers \in Nat \ {0} /\ NumChats \in Nat
  /\ Free \notin Threads

Users == 1..NumUsers
Chats == 1..NumChats

-----------------------------------------------------------------------------
(* Mutexes *)

Clients     == <<"clients">>
LoginToId   == <<"login_to_id">>
SessionToId == <<"session_id_to_id">>
ChatTable   == <<"chats">>
Database    == <<"db">>
Chat(c) == <<"chat", c>>
User(u) == <<"user", u>>
Conn(u) == <<"conn", u>>

Mutexes ==
  {Clients, LoginToId, SessionToId, ChatTable, Database}
    \cup {Chat(c) : c \in Chats} \cup {User(u) : u \in Users} \cup {Conn(u) : u \in Users}

(* Operations.  "return" is a place where the handler may give up: it      *)
(* unlocks what it holds and sends an error.  "leak" is one where it may   *)
(* leave a function without unlocking anything.                            *)
Lock(m)   == <<[op |-> "lock", on |-> m]>>
Unlock(m) == <<[op |-> "unlock", on |-> m]>>
MayReturn == <<[op |-> "return", on |-> Database]>>
MayLeak(m) == <<[op |-> "leak", on |-> m]>>

Within(m, body) == Lock(m) \o body \o Unlock(m)
Short(m) == Within(m, <<>>)

ForEach(list, Body(_)) == FlattenSeq([i \in DOMAIN list |-> Body(list[i])])

Everyone == [i \in Users |-> i]
AllChats == [i \in Chats |-> i]
OthersOf(u) == SelectSeq(Everyone, LAMBDA v : v # u)

-----------------------------------------------------------------------------
(* Looking up and sending *)

(* send_message_to_user, the last thing every request does *)
Reply(u) == Short(Conn(u))

(* mutant: the two mutexes the other way round *)
MutSendToClient(v) == Within(User(v), Short(Conn(v)))

(* send_to_client_and_delete_json, send_json_to_client *)
SendToClient(v) == Within(Conn(v), Short(User(v)))

(* ht_get on the table of clients and a look at the user_t found there *)
LookAt(v) == Short(Clients) \o Short(User(v))

(* send_to_group_and_delete_json: the sender is skipped after the locks *)
SendToGroup == ForEach(Everyone, LAMBDA v : LookAt(v) \o Short(Conn(v)))

(* send_to_group_and_delete_json_no_ht_mutex *)
SendToMembers(members) == ForEach(members, LAMBDA v : Short(User(v)) \o Short(Conn(v)))

(* send_message_to_another_ids: the table stays locked all the time *)
SendToOthers(u) == Within(Clients, SendToMembers(OthersOf(u)))

(* get_group_data_and_lock_group_mutex returns with the chat locked *)
WithChat(c, body) == Short(ChatTable) \o MayReturn \o Within(Chat(c), body)

-----------------------------------------------------------------------------
(* Connections: u is the user of the thread throughout *)

IsActiveUser(u) == Short(LoginToId) \o MayReturn \o LookAt(u) \o MayReturn

UpdateServerClientData(u) == Short(Clients) \o Within(Conn(u), Short(User(u)))

LoginByPassword(u) ==
  Short(Database) \o MayReturn \o IsActiveUser(u) \o Short(LoginToId)
    \o UpdateServerClientData(u) \o Short(SessionToId) \o Short(Conn(u))
    \o Reply(u) \o SendToOthers(u) \o Short(User(u))

LoginBySession(u) ==
  Short(SessionToId) \o MayReturn \o LookAt(u) \o Short(SessionToId) \o MayReturn
    \o IsActiveUser(u) \o Short(LoginToId) \o UpdateServerClientData(u)
    \o SendToOthers(u) \o Short(User(u))

(* EXIT or a lost connection: send_user_exit_msg, free_client_data *)
Leave(u) == SendToOthers(u) \o Short(User(u)) \o Short(Conn(u)) \o Short(User(u))

(* main, on SIGINT *)
StopServer == Within(Clients, ForEach(Everyone, LAMBDA v : Short(Conn(v))))

-----------------------------------------------------------------------------
(* Groups *)

CreateChat(u) == Short(Database) \o MayReturn \o Short(User(u)) \o Short(ChatTable)

JoinChat(u, c) ==
  WithChat(c, MayReturn \o Short(Database) \o MayReturn) \o Short(User(u))

AddContactToChat(u, v, c) ==
  Short(User(u)) \o MayReturn
    \o WithChat(c, MayReturn \o Short(Database) \o MayReturn \o Short(User(u)))
    \o LookAt(v) \o SendToClient(v)

(* The members are told with the table of clients and the new member       *)
(* locked, who is not among them yet.                                      *)
AddManyUsers(u, v, c) ==
  WithChat(c, MayReturn \o
    Within(Clients, MayReturn \o Short(Database) \o Short(User(u))
                      \o Within(User(v), SendToMembers(OthersOf(v)))
                      \o SendToClient(v)))

DeleteUserFromGroup(v, c) ==
  WithChat(c, MayReturn \o Short(Clients) \o MayReturn \o Short(Database) \o MayReturn
                \o Short(User(v)) \o SendToGroup)
    \o Short(User(v)) \o SendToClient(v)

(* mutant: the chat is taken out of the table with its mutex locked *)
MutDeleteGroup(c) ==
  WithChat(c, MayReturn \o Short(Database) \o MayReturn
                \o SendToGroup \o ForEach(Everyone, LookAt) \o Short(ChatTable))

(* The mutex of the chat is destroyed, which is taken for an unlock here.  *)
DeleteGroup(c) ==
  Within(ChatTable,
    Within(Chat(c), MayReturn \o Short(Database) \o MayReturn
                      \o SendToGroup \o ForEach(Everyone, LookAt)))

SendToChat(u, c) ==
  WithChat(c, Short(Database) \o MayReturn \o Short(User(u)) \o SendToGroup)

GetChatUsers(c) == WithChat(c, ForEach(Everyone, LookAt))

SeeAllChats ==
  Within(ChatTable, ForEach(AllChats, LAMBDA c : Within(Chat(c), ForEach(Everyone, LookAt))))

-----------------------------------------------------------------------------
(* Messages and contacts *)

(* The mutex of the receiver is taken with that of the sender held.        *)
SendToUser(u, v) ==
  Short(Clients) \o MayReturn \o Short(Database) \o MayReturn
    \o Within(User(u), Short(User(v))) \o SendToClient(v)

(* The own user_t stays locked while contacts and groups are looked up.    *)
GetMyContacts(u) ==
  Within(User(u), ForEach(OthersOf(u), LookAt))
    \o Within(User(u), ForEach(AllChats, LAMBDA c : Short(ChatTable) \o Short(Chat(c))))

SeeMyContacts(u) == Within(User(u), ForEach(OthersOf(u), LookAt))

(* send_notification_to_client: of a banned user the mutex stays locked.   *)
NotifyClient(v) ==
  Short(Clients) \o MayReturn
    \o Lock(User(v)) \o MayLeak(User(v)) \o Unlock(User(v)) \o SendToClient(v)

(* handle_update_message, handle_delete_message *)
ChangePrivateMessage(v) == Within(Database, MayReturn) \o MayReturn \o NotifyClient(v)
ChangeGroupMessage(c) ==
  Within(Database, MayReturn) \o MayReturn \o WithChat(c, SendToGroup)

(* get_all_clients_userslist, get_my_clients_userslist *)
ListUsers == Short(Database) \o MayReturn \o ForEach(Everyone, LookAt)

(* get_last_msgs_between, get_all_talks, get_my_groups *)
ReadDatabase == Short(Database)

MarkChatRead == Short(Clients) \o MayReturn \o Short(Database)
MarkGroupRead(c) == WithChat(c, Short(Database))

(* The owners of the messages are looked up under db_mutex.                *)
GetGroupMessages(c) ==
  WithChat(c, Short(Database)) \o ForEach(Everyone, LAMBDA v : Short(Database) \o Short(User(v)))

-----------------------------------------------------------------------------
(* Administration *)

CreateUser(u) ==
  Short(User(u)) \o MayReturn \o Within(Database, Short(LoginToId) \o MayReturn) \o MayReturn
    \o Within(Clients, Short(LoginToId)) \o SendToOthers(u)

UpdateNickname(u) == Short(Database) \o MayReturn \o Short(User(u)) \o SendToOthers(u)

(* mutant: the user stays locked *)
MutChangePassword(u) == Lock(User(u)) \o Lock(Database) \o MayReturn \o Unlock(Database)

(* Not nested: the user is unlocked before the database.                   *)
ChangePassword(u) ==
  Lock(User(u)) \o Lock(Database) \o MayReturn \o Unlock(User(u)) \o Unlock(Database)

AdminChangePassword(u, v) ==
  Short(User(u)) \o MayReturn \o Short(LoginToId) \o MayReturn \o LookAt(v) \o Short(Database)

(* mutant: the user is locked inside the section of the database *)
MutSetActive(u, v) ==
  Short(User(u)) \o MayReturn \o Short(LoginToId) \o MayReturn \o Short(Clients) \o MayReturn
    \o Within(Database, MayReturn \o Short(User(v))) \o SendToOthers(u)

(* handle_activate_user, handle_deactivate_user *)
SetActive(u, v) ==
  Short(User(u)) \o MayReturn \o Short(LoginToId) \o MayReturn \o Short(Clients) \o MayReturn
    \o Within(User(v), MayReturn \o Short(Database)) \o SendToOthers(u)

-----------------------------------------------------------------------------
(* What handler h does for user u, with user v or chat c as its argument *)
Body(h, u, v, c) ==
  CASE h = "login_by_password"   -> LoginByPassword(u)
    [] h = "login_by_session"    -> LoginBySession(u)
    [] h = "leave"               -> Leave(u)
    [] h = "stop"                -> StopServer
    [] h = "create_chat"         -> CreateChat(u)
    [] h = "join_chat"           -> JoinChat(u, c)
    [] h = "add_contact_to_chat" -> AddContactToChat(u, v, c)
    [] h = "add_many_users"      -> AddManyUsers(u, v, c)
    [] h = "delete_user_from_group" -> DeleteUserFromGroup(v, c)
    [] h = "delete_group"        -> DeleteGroup(c)
    [] h = "send_to_chat"        -> SendToChat(u, c)
    [] h = "get_chat_users"      -> GetChatUsers(c)
    [] h = "see_all_chats"       -> SeeAllChats
    [] h = "send_to_user"        -> SendToUser(u, v)
    [] h = "get_my_contacts"     -> GetMyContacts(u)
    [] h = "see_my_contacts"     -> SeeMyContacts(u)
    [] h = "change_private_message" -> ChangePrivateMessage(v)
    [] h = "change_group_message"   -> ChangeGroupMessage(c)
    [] h = "list_users"          -> ListUsers
    [] h = "read_database"       -> ReadDatabase
    [] h = "mark_chat_read"      -> MarkChatRead
    [] h = "mark_group_read"     -> MarkGroupRead(c)
    [] h = "get_group_messages"  -> GetGroupMessages(c)
    [] h = "create_user"         -> CreateUser(u)
    [] h = "update_nickname"     -> UpdateNickname(u)
    [] h = "change_password"     -> ChangePassword(u)
    [] h = "admin_change_password" -> AdminChangePassword(u, v)
    [] h = "set_active"          -> SetActive(u, v)

AllHandlers ==
  {"login_by_password", "login_by_session", "leave", "stop", "create_chat", "join_chat",
   "add_contact_to_chat", "add_many_users", "delete_user_from_group", "delete_group",
   "send_to_chat", "get_chat_users", "see_all_chats", "send_to_user", "get_my_contacts",
   "see_my_contacts", "change_private_message", "change_group_message", "list_users",
   "read_database", "mark_chat_read", "mark_group_read", "get_group_messages",
   "create_user", "update_nickname", "change_password", "admin_change_password", "set_active"}

(* Logins, the end of a connection and main do not answer a request.       *)
Answer(h, u) ==
  IF h \in {"login_by_password", "login_by_session", "leave", "stop"} THEN <<>> ELSE Reply(u)

Program(h, u, v, c) == Body(h, u, v, c) \o Answer(h, u)

(* Nobody adds himself or, as an administrator, bans himself.              *)
Accepts(h, u, v) == h \in {"add_contact_to_chat", "add_many_users", "set_active"} => u # v

ASSUME HandlersAssumption == Handlers \subseteq AllHandlers /\ Idle \notin AllHandlers

-----------------------------------------------------------------------------
(* One program by itself *)

Operations == [op : {"lock", "unlock", "return", "leak"}, on : Mutexes]

(* p[j] locks m, and m is still locked when p[i] is reached *)
LockedAt(p, j, m, i) ==
  /\ j < i /\ p[j] = [op |-> "lock", on |-> m]
  /\ \A k \in 1..Len(p) : j < k /\ k < i => p[k] # [op |-> "unlock", on |-> m]

HeldBefore(p, i) == {m \in Mutexes : \E j \in 1..Len(p) : LockedAt(p, j, m, i)}

Rank(m) ==
  CASE m[1] = "chats" -> 1 [] m[1] = "chat" -> 2 [] m[1] = "clients" -> 3 [] m[1] = "conn" -> 4
    [] m[1] = "user" -> 5 [] m[1] = "db" -> 6 [] m[1] = "login_to_id" -> 7
    [] m[1] = "session_id_to_id" -> 8

(* Mutexes are taken in the order of their ranks; with a connection locked *)
(* only its own user may follow.                                           *)
InOrder(H, m) ==
  /\ \A x \in H : Rank(x) < Rank(m)
  /\ \A x \in H, u, v \in Users : x = Conn(u) /\ m = User(v) => u = v

(* The exception of add_many_users_to_group: with the table of clients and *)
(* one user locked, the users and connections of others.                   *)
UnderClients(H, m) ==
  /\ Clients \in H
  /\ \E u \in Users :
       /\ H \subseteq {Clients, User(u)} \cup {Chat(c) : c \in Chats}
       /\ \E v \in Users \ {u} : m \in {User(v), Conn(v)}

Orderly(p) ==
  \A i \in 1..Len(p) : p[i].op = "lock" =>
    InOrder(HeldBefore(p, i), p[i].on) \/ UnderClients(HeldBefore(p, i), p[i].on)

(* before p[i] the thread locks a mutex it holds, and stays there *)
StuckBefore(p, i) ==
  \E j \in 1..Len(p) : j < i /\ p[j].op = "lock" /\ p[j].on \in HeldBefore(p, j)

(* What is locked is unlocked, and only that; what a leak leaves locked is *)
(* all that was.                                                           *)
Balanced(p) ==
  /\ HeldBefore(p, Len(p) + 1) = {}
  /\ \A i \in 1..Len(p) :
       /\ p[i].op = "unlock" => p[i].on \in HeldBefore(p, i) \/ StuckBefore(p, i)
       /\ p[i].op = "leak" => HeldBefore(p, i) = {p[i].on} /\ p[i].on[1] = "user"

Disorderly == {"send_to_user", "get_my_contacts", "see_my_contacts"}

(* p is in order as the program of handler h *)
KeepsOrder(h, p) ==
  /\ p \in Seq(Operations)
  /\ Balanced(p)
  /\ h \notin Disorderly => Orderly(p)

(* The code has no list of the orders in which mutexes may be taken.  This *)
(* is one that every handler but the disorderly ones keeps to, on each of  *)
(* its paths; and every handler unlocks what it has locked.                *)
ProgramsInOrder ==
  \A h \in Handlers, u, v \in Users, c \in Chats :
    Accepts(h, u, v) => KeepsOrder(h, Program(h, u, v, c))

-----------------------------------------------------------------------------
VARIABLES
  me,      (* per thread: the user it serves,                                *)
  req,     (*   the handler it is in,                                        *)
  todo,    (*   the operations still to be done,                             *)
  owner,   (* per mutex: the thread that holds it                            *)
  leaked   (* mutexes left locked by a handler that has returned             *)

vars == <<me, req, todo, owner, leaked>>

Init ==
  /\ me \in [Threads -> Users]
  /\ req = [t \in Threads |-> Idle]
  /\ todo = [t \in Threads |-> <<>>]
  /\ owner = [m \in Mutexes |-> Free]
  /\ leaked = {}

(* What t has locked in this request, what it does next unless it gives up *)
Ahead(t) ==
  IF todo[t] # <<>> /\ Head(todo[t]).op \in {"return", "leak"} THEN Tail(todo[t]) ELSE todo[t]

At(t, o)   == Ahead(t) # <<>> /\ Head(Ahead(t)).op = o
Operand(t) == Head(Ahead(t)).on
Held(t) == {m \in Mutexes \ leaked : owner[m] = t}
MayQuit(t, o) == todo[t] # <<>> /\ Head(todo[t]).op = o

Request(t) ==
  /\ req[t] = Idle
  /\ \E h \in Handlers, v \in Users, c \in Chats :
       /\ Accepts(h, me[t], v)
       /\ req' = [req EXCEPT ![t] = h]
       /\ todo' = [todo EXCEPT ![t] = Program(h, me[t], v, c)]
  /\ UNCHANGED <<me, owner, leaked>>

Acquire(t) ==
  /\ At(t, "lock") /\ owner[Operand(t)] = Free
  /\ owner' = [owner EXCEPT ![Operand(t)] = t]
  /\ todo' = [todo EXCEPT ![t] = Tail(Ahead(t))]
  /\ UNCHANGED <<me, req, leaked>>

Release(t) ==
  /\ At(t, "unlock")
  /\ owner' = [owner EXCEPT ![Operand(t)] = Free]
  /\ todo' = [todo EXCEPT ![t] = Tail(Ahead(t))]
  /\ UNCHANGED <<me, req, leaked>>

(* an error: what this request has locked is unlocked *)
GiveUp(t) ==
  /\ MayQuit(t, "return")
  /\ owner' = [m \in Mutexes |-> IF owner[m] = t /\ m \notin leaked THEN Free ELSE owner[m]]
  /\ todo' = [todo EXCEPT ![t] = Answer(req[t], me[t])]
  /\ UNCHANGED <<me, req, leaked>>

(* the receiver is banned: the mutex is kept, the request is answered *)
Leak(t) ==
  /\ MayQuit(t, "leak")
  /\ leaked' = leaked \cup {Head(todo[t]).on}
  /\ todo' = [todo EXCEPT ![t] = Answer(req[t], me[t])]
  /\ UNCHANGED <<me, req, owner>>

Finish(t) ==
  /\ req[t] # Idle /\ Ahead(t) = <<>>
  /\ req' = [req EXCEPT ![t] = Idle]
  /\ todo' = [todo EXCEPT ![t] = <<>>]
  /\ UNCHANGED <<me, owner, leaked>>

Work(t) == Release(t) \/ GiveUp(t) \/ Leak(t) \/ Finish(t)

Next == \E t \in Threads : Request(t) \/ Acquire(t) \/ Work(t)

Spec == Init /\ [][Next]_vars

-----------------------------------------------------------------------------
(* Properties *)

TypeOK ==
  /\ me \in [Threads -> Users]
  /\ req \in [Threads -> Handlers \cup {Idle}]
  /\ todo \in [Threads -> Seq(Operations)]
  /\ owner \in [Mutexes -> Threads \cup {Free}]
  /\ leaked \subseteq Mutexes

(* nobody in D can go on: each waits for a mutex that one of D holds *)
Deadlocked(D) ==
  /\ D # {}
  /\ \A t \in D : At(t, "lock") /\ owner[Operand(t)] \in D

(* Threads wait for each other for ever only if one of them is in a        *)
(* handler that takes mutexes while it holds that of a user, or holds a    *)
(* mutex that update_message or delete_message forgot to unlock.  All      *)
(* other handlers can run side by side, with any arguments.                *)
DeadlockNeedsDisorder ==
  \A D \in SUBSET Threads : Deadlocked(D) =>
    \/ \E t \in D : req[t] \in Disorderly
    \/ \E m \in leaked : owner[m] \in D

(* What a thread is going to do when it takes up a request, on each path,  *)
(* takes the mutexes in the order of their ranks and unlocks them.  Any    *)
(* request may come while no other is at work, so this holds of the        *)
(* instance exactly if ProgramsInOrder does.                               *)
RequestsInOrder ==
  [][(\A t \in Threads : req[t] = Idle) =>
       \A t \in Threads : req'[t] # Idle => KeepsOrder(req'[t], todo'[t])]_vars

(* While a thread works it takes the mutexes in the order of their ranks,  *)
(* but for the disorderly handlers and the one exception.                  *)
LockOrder ==
  \A t \in Threads :
    At(t, "lock") /\ req[t] \notin Disorderly =>
      InOrder(Held(t), Operand(t)) \/ UnderClients(Held(t), Operand(t))

(* Whatever path a handler takes, a thread that waits for a message holds  *)
(* no mutex, except that of a banned user after a message to him was       *)
(* edited or deleted.                                                      *)
NothingLeftLocked ==
  \A m \in Mutexes :
    owner[m] # Free /\ req[owner[m]] = Idle => m \in leaked /\ m[1] = "user"
==============================================================================
