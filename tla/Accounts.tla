------------------------------- MODULE Accounts -------------------------------
(***************************************************************************)
(* User administration: creating users, nicknames, passwords and the list  *)
(* of users.  Each handler works in several critical sections, on the      *)
(* table of users in the database and on the tables of the server that     *)
(* are loaded from it at the start, `clients` and `login_to_id`.           *)
(*                                                                         *)
(* Users have the ids 1, 2, ... in the order in which they were inserted.  *)
(* A thread serves who has logged in on it.  The threads of a user who     *)
(* logs in again share his client_t, and with it the connection they read  *)
(* from and answer on, which is that of the last login.  All users are     *)
(* administrators here.                                                    *)
(***************************************************************************)
EXTENDS Naturals, Sequences

CONSTANTS
  Threads,
  Initial,     (* the logins of the users there are at first                 *)
  NewLogins,   (* logins that may be asked for                               *)
  Nicknames,   (* nicknames that may be asked for                            *)
  Like,        (* <<p, l>>: p LIKE l; "_" stands for any character, and the  *)
               (* case of letters does not matter                            *)
  MaxUsers,    (* bound: no more users are created                           *)
  DbMayFail,   (* an SQL statement may fail                                  *)
  None         (* NULL                                                       *)

Logins == {Initial[i] : i \in DOMAIN Initial} \cup NewLogins
Ids == 1..MaxUsers

ASSUME AccountsAssumption ==
  /\ Initial \in Seq(Logins) /\ Initial # <<>> /\ MaxUsers \in Nat /\ Len(Initial) <= MaxUsers
  /\ DbMayFail \in BOOLEAN
  /\ None \notin Logins \cup Nicknames

(* No login was there before another that LIKE finds with it.              *)
ASSUME LikeAssumption ==
  /\ Like \subseteq Logins \X Logins /\ \A l \in Logins : <<l, l>> \in Like
  /\ \A i, j \in DOMAIN Initial : <<Initial[i], Initial[j]>> \in Like => i <= j

VARIABLES
  rows,        (* the table of users, by id                                  *)
  clashing,    (* those whose look-up failed and missed a login alike         *)
  clients,     (* by id: the cached nickname, None if there is no client_t   *)
  loginToId,   (* by login: the id, 0 for the -1 of the code                 *)
  overlapped,  (* users whose last change of nickname overlapped another one *)
  me,          (* the user each thread serves, 0 for nobody                  *)
  work,        (* what each thread still has to do for its request           *)
  connected,   (* the users with ssl # NULL in their client_t                *)
  online,      (* the users with is_online                                   *)
  roster,      (* by user: whom the client shows that is connected as him    *)
  ignored,     (* by user: new users its client did not look at              *)
  listed,      (* the users whose client has received the list of users      *)
  ready        (* those whose client has come to the end of its start        *)

table  == <<rows, clashing>>
caches == <<clients, loginToId>>
shown  == <<roster, ignored, listed, ready>>
views  == <<connected, online, shown>>
vars   == <<table, caches, overlapped, me, work, views>>

-----------------------------------------------------------------------------
(* hash_password: the login is the salt.  Of a hash nothing is kept but    *)
(* this login: a password is the right one unless it is compared with a    *)
(* hash of another user.                                                   *)
Row(login) == [login |-> login, nickname |-> login, password |-> login]

Users == DOMAIN rows

Alike(login) == {i \in Users : <<login, rows[i].login>> \in Like}

(* the first row of SELECT password FROM users WHERE login LIKE ? *)
FirstAlike(login) == CHOOSE i \in Alike(login) : \A j \in Alike(login) : i <= j

(* find_and_validate_user, is_valid_password: get_password_hash, memcmp *)
PasswordMatches(login) == Alike(login) # {} /\ rows[FirstAlike(login)].password = login

(* mutant: = instead of LIKE *)
MutAlreadyExists(login, selected) == loginToId[login] # 0

(* user_already_exists: a SELECT that fails has found nobody *)
AlreadyExists(login, selected) == loginToId[login] # 0 \/ (selected /\ Alike(login) # {})

-----------------------------------------------------------------------------
NoWork == [step |-> "idle"]

Step(t, s) == work[t].step = s
Then(t, w) == work' = [work EXCEPT ![t] = w]
Done(t)    == Then(t, NoWork)

(* nobody holds clients_mutex over several steps *)
TableFree == \A t \in Threads : ~Step(t, "walk")

(* the client of user u starts, or is gone *)
NothingShown(u) ==
  /\ roster' = [roster EXCEPT ![u] = {}]
  /\ ignored' = [ignored EXCEPT ![u] = {}]
  /\ listed' = listed \ {u}
  /\ ready' = ready \ {u}

NobodyConnected ==
  /\ me' = [t \in Threads |-> 0] /\ work' = [t \in Threads |-> NoWork]
  /\ connected' = {} /\ online' = {} /\ listed' = {} /\ ready' = {}
  /\ roster' = [u \in Ids |-> {}] /\ ignored' = [u \in Ids |-> {}]

(* load_users_from_db_to_hash_table *)
Load ==
  /\ clients' = [i \in Ids |-> IF i \in DOMAIN rows' THEN rows'[i].nickname ELSE None]
  /\ loginToId' = [l \in Logins |->
       IF \E i \in DOMAIN rows' : rows'[i].login = l
       THEN CHOOSE i \in DOMAIN rows' : rows'[i].login = l ELSE 0]

Init ==
  /\ rows = [i \in DOMAIN Initial |-> Row(Initial[i])]
  /\ clients = [i \in Ids |-> IF i \in DOMAIN Initial THEN Initial[i] ELSE None]
  /\ loginToId = [l \in Logins |->
       IF \E i \in DOMAIN Initial : Initial[i] = l
       THEN CHOOSE i \in DOMAIN Initial : Initial[i] = l ELSE 0]
  /\ clashing = {} /\ overlapped = {}
  /\ me = [t \in Threads |-> 0] /\ work = [t \in Threads |-> NoWork]
  /\ connected = {} /\ online = {} /\ listed = {} /\ ready = {}
  /\ roster = [u \in Ids |-> {}] /\ ignored = [u \in Ids |-> {}]

(* A crash between any two steps, and the next start. *)
Restart ==
  /\ UNCHANGED table
  /\ Load
  /\ overlapped' = {}
  /\ NobodyConnected

-----------------------------------------------------------------------------
(* handle_create_user *)

(* Under db_mutex: the test, and the INSERT, which keeps the logins UNIQUE *)
(* but for the case of letters and for underscores.                        *)
CreateRow(t, l) ==
  /\ Step(t, "idle") /\ me[t] \in connected
  /\ \E selected \in {TRUE, ~DbMayFail} :
       /\ ~AlreadyExists(l, selected)
       /\ \/ /\ \A i \in Users : rows[i].login # l
             /\ Len(rows) < MaxUsers
             /\ rows' = Append(rows, Row(l))
             /\ clashing' = IF selected \/ Alike(l) = {} THEN clashing ELSE clashing \cup {Len(rows) + 1}
             /\ Then(t, [step |-> "cache", id |-> Len(rows) + 1])
          \/ /\ DbMayFail \/ \E i \in Users : rows[i].login = l
             /\ UNCHANGED <<table, work>>
  /\ UNCHANGED <<caches, overlapped, me, views>>

(* add_offline_user_to_server_cache, under clients_mutex and               *)
(* login_to_id_mutex                                                       *)
CacheUser(t) ==
  /\ Step(t, "cache")
  /\ LET i == work[t].id IN
     /\ clients' = [clients EXCEPT ![i] = rows[i].login]
     /\ loginToId' = [loginToId EXCEPT ![rows[i].login] = i]
     /\ Then(t, [step |-> "announce", id |-> i])
  /\ TableFree
  /\ UNCHANGED <<table, overlapped, me, views>>

(* send_message_to_another_ids locks the table of clients, and unlocks it  *)
(* when everybody else has been told                                       *)
AnnounceBegin(t) ==
  /\ Step(t, "announce") /\ TableFree
  /\ Then(t, [step |-> "walk", id |-> work[t].id, left |-> {u \in Ids : clients[u] # None} \ {me[t]}])
  /\ UNCHANGED <<table, caches, overlapped, me, views>>

(* One after the other; those who are offline are skipped.  A client adds  *)
(* whom event 55 announces, be it before or after it has got the list.     *)
Announce(t, u) ==
  /\ Step(t, "walk") /\ u \in work[t].left
  /\ Then(t, [work[t] EXCEPT !.left = @ \ {u}])
  /\ roster' = IF u \in online \cap connected
                 THEN [roster EXCEPT ![u] = @ \cup {work[t].id}] ELSE roster
  /\ UNCHANGED <<table, caches, overlapped, me, connected, online, ignored, listed, ready>>

(* The answer: the client that asked shows the new user as well, unless it *)
(* is still starting and looks at nothing but its lists and histories.     *)
AnnounceEnd(t) ==
  /\ Step(t, "walk") /\ work[t].left = {}
  /\ LET u == me[t] IN
     /\ roster' = IF u \in ready THEN [roster EXCEPT ![u] = @ \cup {work[t].id}] ELSE roster
     /\ ignored' = IF u \in connected \ ready
                      THEN [ignored EXCEPT ![u] = @ \cup {work[t].id}] ELSE ignored
  /\ Done(t)
  /\ UNCHANGED <<table, caches, overlapped, me, connected, online, listed, ready>>

-----------------------------------------------------------------------------
(* handle_update_nickname *)

Renaming(u) == \E t \in Threads : Step(t, "rename") /\ me[t] = u

(* overlapped is kept for the properties: the threads of a user may rename *)
(* him at the same time                                                    *)
RenameRow(t, n) ==
  /\ Step(t, "idle") /\ me[t] \in connected
  /\ \/ /\ rows' = [rows EXCEPT ![me[t]].nickname = n]
        /\ overlapped' = IF Renaming(me[t]) THEN overlapped \cup {me[t]}
                                               ELSE overlapped \ {me[t]}
        /\ Then(t, [step |-> "rename", name |-> n])
     \/ DbMayFail /\ UNCHANGED <<rows, overlapped, work>>
  /\ UNCHANGED <<clashing, caches, me, views>>

(* mutant: the cached name stays *)
MutRenameCached(t) ==
  /\ Step(t, "rename")
  /\ Done(t)
  /\ UNCHANGED <<table, caches, overlapped, me, views>>

(* db_mutex was released, the mutex of the user is taken.  The clients of  *)
(* others have no case for event 59.                                       *)
RenameCached(t) ==
  /\ Step(t, "rename")
  /\ clients' = [clients EXCEPT ![me[t]] = work[t].name]
  /\ Done(t)
  /\ UNCHANGED <<table, loginToId, overlapped, me, views>>

-----------------------------------------------------------------------------
(* handle_change_password *)
ChangePassword(t) ==
  /\ Step(t, "idle") /\ me[t] \in connected
  /\ LET i == me[t] IN
     /\ PasswordMatches(rows[i].login)
     /\ rows' = [rows EXCEPT ![i].password = rows[i].login]
  /\ UNCHANGED <<clashing, caches, overlapped, me, work, views>>

(* handle_admin_change_password: the id of the user is looked up, which    *)
(* must not be the first one's                                             *)
FindUser(t, l) ==
  /\ Step(t, "idle") /\ me[t] \in connected /\ TableFree
  /\ loginToId[l] \notin {0, 1} /\ clients[loginToId[l]] # None
  /\ Then(t, [step |-> "password", id |-> loginToId[l], hash |-> l])
  /\ UNCHANGED <<table, caches, overlapped, me, views>>

(* mutant: the login of the administrator is the salt *)
MutSetPassword(t) ==
  /\ Step(t, "password")
  /\ rows' = [rows EXCEPT ![work[t].id].password = rows[me[t]].login]
  /\ Done(t)
  /\ UNCHANGED <<clashing, caches, overlapped, me, views>>

(* ... and his password is set, in another section. *)
SetPassword(t) ==
  /\ Step(t, "password")
  /\ \/ rows' = [rows EXCEPT ![work[t].id].password = work[t].hash]
     \/ DbMayFail /\ UNCHANGED rows
  /\ Done(t)
  /\ UNCHANGED <<clashing, caches, overlapped, me, views>>

-----------------------------------------------------------------------------
(* handle_get_all_clients_userslist, the first request of a client *)

ListRows(t) ==
  /\ Step(t, "idle") /\ me[t] \in connected
  /\ Then(t, [step |-> "list", ids |-> Users \ {me[t]}])
  /\ UNCHANGED <<table, caches, overlapped, me, views>>

(* Each of them is looked up in the table of clients.  Of one who is not   *)
(* there yet the pointer is used all the same, and the server goes down.   *)
ListCrash(t) ==
  /\ Step(t, "list") /\ TableFree /\ \E i \in work[t].ids : clients[i] = None
  /\ Restart

(* mutant: the client puts the list in the place of what it had *)
MutListReply(t) ==
  /\ Step(t, "list") /\ TableFree /\ \A i \in work[t].ids : clients[i] # None
  /\ LET u == me[t] IN
     /\ roster' = IF u \in connected THEN [roster EXCEPT ![u] = work[t].ids] ELSE roster
     /\ listed' = listed \cup ({u} \cap connected)
  /\ Done(t)
  /\ UNCHANGED <<table, caches, overlapped, me, connected, online, ignored, ready>>

(* Until its start is over the client adds the users of a list to its      *)
(* sidebar; later it only fills the forms of an administrator with them.   *)
(* Users do not leave the table: the look-ups are one step, the last one.  *)
ListReply(t) ==
  /\ Step(t, "list") /\ TableFree /\ \A i \in work[t].ids : clients[i] # None
  /\ LET u == me[t] IN
     /\ roster' = IF u \in connected \ ready
                     THEN [roster EXCEPT ![u] = @ \cup work[t].ids] ELSE roster
     /\ listed' = listed \cup ({u} \cap connected)
  /\ Done(t)
  /\ UNCHANGED <<table, caches, overlapped, me, connected, online, ignored, ready>>

(* The last request of the start is answered (handle_get_my_groups).       *)
StartEnds(t) ==
  /\ Step(t, "idle") /\ me[t] \in listed
  /\ ready' = ready \cup {me[t]}
  /\ UNCHANGED <<table, caches, overlapped, me, work, connected, online, roster, ignored, listed>>

-----------------------------------------------------------------------------
(* The connection of a thread; a login is checked by PasswordMatches. *)

(* mutant: nobody asks whether the login is in the tables *)
MutLogIn(t, l) ==
  /\ me[t] = 0
  /\ PasswordMatches(l)
  /\ LET u == loginToId[l] IN
     /\ me' = [me EXCEPT ![t] = u]
     /\ connected' = connected \cup {u}
     /\ online' = online \cup {u}
     /\ NothingShown(u)
  /\ UNCHANGED <<table, caches, overlapped, work>>

(* update_server_client_data: the new connection takes the place of one    *)
(* there may be.                                                           *)
LogIn(t, l) ==
  /\ me[t] = 0
  /\ PasswordMatches(l)
  /\ LET u == loginToId[l] IN
     /\ u # 0
     /\ me' = [me EXCEPT ![t] = u]
     /\ connected' = connected \cup {u}
     /\ online' = online \cup {u}
     /\ NothingShown(u)
  /\ UNCHANGED <<table, caches, overlapped, work>>

(* A user who is in the database and not in the tables yet is looked up by *)
(* the key -1, and the server goes down.                                   *)
LogInCrash(t, l) ==
  /\ me[t] = 0
  /\ PasswordMatches(l) /\ loginToId[l] = 0
  /\ Restart

(* free_client_data: the thread frees the connection there is, which need  *)
(* not be the one it accepted                                              *)
Close(t) ==
  /\ Step(t, "idle") /\ me[t] # 0
  /\ connected' = connected \ {me[t]}
  /\ NothingShown(me[t])
  /\ Then(t, [step |-> "leave"])
  /\ UNCHANGED <<table, caches, overlapped, me, online>>

(* ... and clears is_online in a section of its own. *)
Offline(t) ==
  /\ Step(t, "leave")
  /\ online' = online \ {me[t]}
  /\ me' = [me EXCEPT ![t] = 0]
  /\ Done(t)
  /\ UNCHANGED <<table, caches, overlapped, connected, shown>>

Create(t) ==
  \/ \E l \in NewLogins : CreateRow(t, l)
  \/ CacheUser(t) \/ AnnounceBegin(t) \/ (\E u \in Ids : Announce(t, u)) \/ AnnounceEnd(t)

Rename(t) == (\E n \in Nicknames : RenameRow(t, n)) \/ RenameCached(t)

Password(t) ==
  ChangePassword(t) \/ (\E l \in Logins : FindUser(t, l)) \/ SetPassword(t)

List(t) ==
  ListRows(t) \/ ListCrash(t) \/ ListReply(t) \/ StartEnds(t)

Connection(t) ==
  \/ \E l \in Logins : LogIn(t, l) \/ LogInCrash(t, l)
  \/ Close(t) \/ Offline(t)

Next ==
  \/ \E t \in Threads : Create(t) \/ Rename(t) \/ Password(t) \/ List(t) \/ Connection(t)
  \/ Restart

Spec == Init /\ [][Next]_vars

-----------------------------------------------------------------------------
(* Properties *)

Works ==
  {NoWork, [step |-> "leave"]}
    \cup [step : {"cache", "announce"}, id : Ids]
    \cup [step : {"walk"}, id : Ids, left : SUBSET Ids]
    \cup [step : {"rename"}, name : Nicknames]
    \cup [step : {"password"}, id : Ids, hash : Logins]
    \cup [step : {"list"}, ids : SUBSET Ids]

TypeOK ==
  /\ rows \in Seq([login : Logins, nickname : Logins \cup Nicknames,
                    password : Logins])
  /\ Len(rows) \in Len(Initial)..MaxUsers
  /\ clashing \subseteq Ids /\ overlapped \subseteq Ids
  /\ clients \in [Ids -> Logins \cup Nicknames \cup {None}]
  /\ loginToId \in [Logins -> {0} \cup Ids]
  /\ me \in [Threads -> {0} \cup Ids]
  /\ work \in [Threads -> Works]
  /\ connected \subseteq Ids /\ online \subseteq Ids
  /\ listed \subseteq connected /\ ready \subseteq listed
  /\ roster \in [Ids -> SUBSET Ids] /\ ignored \in [Ids -> SUBSET Ids]

(* The password of a login is looked up with LIKE, in which "_" and the    *)
(* case of letters match other logins too.  Still the first row that       *)
(* matches is the user's own: one that would come before it keeps the      *)
(* later one from being created.  Only when that look-up failed, which     *)
(* handle_create_user takes for a free login, may a user find another's    *)
(* row before his own; nobody else is harmed by him.  And every row has a  *)
(* hash of its own login.                                                  *)
OwnPassword ==
  \A i \in Users :
    /\ i \notin clashing => FirstAlike(rows[i].login) = i
    /\ rows[i].password = rows[i].login

Creating(i) == \E t \in Threads : Step(t, "cache") /\ work[t].id = i

(* Between requests the caches hold what the database holds, after crashes *)
(* and failed statements too; a user is missing in them, or has his former *)
(* nickname, only until the request is done.  The exception: two changes   *)
(* of a nickname by two threads of one user may reach the database in one  *)
(* order and the cache in the other, and they differ until the next change *)
(* or restart.                                                             *)
CachesMatchDb ==
  \A i \in Ids :
    /\ clients[i] # None <=> i \in Users /\ ~Creating(i)
    /\ i \in Users /\ ~Creating(i) =>
         /\ loginToId[rows[i].login] = i
         /\ Renaming(i) \/ i \in overlapped \/ clients[i] = rows[i].nickname

(* One thread serves user u, on the connection it accepted, and no other   *)
(* has served him on his way out since: it would have freed the connection *)
(* or have cleared the flag.                                               *)
Alone(u) ==
  /\ u \in connected \cap online
  /\ \A s, t \in Threads : me[s] = u /\ me[t] = u => s = t

(* the client of u is still to be told of i, by event 55 or by the answer *)
ToBeTold(i, u) ==
  \E t \in Threads :
    /\ work[t].step \in {"cache", "announce", "walk"} /\ work[t].id = i
    /\ Step(t, "walk") => u \in work[t].left \cup {me[t]}

(* Who is created while a client logs in and asks for the list is in the   *)
(* list or is announced: a client that has got the list shows every user.  *)
(* It lacks those it created itself before its start was over, and whose   *)
(* answer it did not look at; and of a user whose connections overlapped   *)
(* nothing is said.                                                        *)
NobodyMissing ==
  \A u \in listed : Alone(u) =>
    \A i \in Users \ {u} : i \in roster[u] \cup ignored[u] \/ ToBeTold(i, u)
==============================================================================
