-------------------------------- MODULE Sessions --------------------------------
(***************************************************************************)
(* Connections of the server: accept, login by password or by session id,  *)
(* the request loop, logout, bans, crash and restart.                      *)
(*                                                                         *)
(* One thread serves one connection and is named by it, as is the SSL      *)
(* object of the connection.  All connections of a user share the cached   *)
(* client_t of that user: a login stores its SSL object there, and the     *)
(* thread reads, answers and finally frees whatever SSL object it finds    *)
(* there.  A step is one critical section of a thread.                     *)
(***************************************************************************)
EXTENDS Naturals, FiniteSets

CONSTANTS
  Users,       (* ids of the users                                           *)
  Conns,       (* connections accept() returns, each at most once            *)
  Sids,        (* session ids generate_long_salt can return                  *)
  FirstAdmin,  (* user 1                                                     *)
  Admins,      (* users whose is_admin is set                                *)
  DbMayFail,   (* may UPDATE users SET active fail?                          *)
  NoUser,      (* no user: -1 from a hash table, NULL user_data              *)
  NoName,      (* the login came without a name                              *)
  NoSid,       (* the login came with name and password                      *)
  NoConn       (* NULL for an SSL pointer                                    *)

ASSUME SessionAssumption ==
  /\ FirstAdmin \in Admins /\ Admins \subseteq Users
  /\ DbMayFail \in BOOLEAN
  /\ NoUser \notin Users /\ NoName \notin Users \cup {NoUser}
  /\ NoSid \notin Sids /\ NoConn \notin Conns

VARIABLES
  db_active,         (* column active of table users                         *)
  is_active,         (* fields of the cached user_t of each user             *)
  is_online,
  ssl,               (* field ssl of the cached client_t of each user        *)
  fresh,             (* whether its time_created_session_id is younger than 5h *)
  session_id_to_id,  (* hash table: the user of each session id              *)
  heap,              (* the SSL object of each connection: none, open, freed *)
  peer,              (* whether the other end of the connection is still there *)
  server_stoped,
  pc,                (* per thread: where it is,                             *)
  who,               (*   the user a login is for,                           *)
  sid, named,        (*   its session id, and the user it came with the name of, *)
  me,                (*   the user whose cached client_t it uses,            *)
  rd,                (*   the SSL object it is blocked on in SSL_read        *)
  overlapping        (* history: connections served while another one of     *)
                     (* their user was                                       *)

cache  == <<is_active, is_online, ssl, fresh>>
login  == <<who, sid, named>>
serves == <<me, overlapping>>
vars   == <<db_active, cache, session_id_to_id, heap, peer, server_stoped, pc, login, serves, rd>>

(* a login names a user, somebody the server does not know, or nobody      *)
Names == Users \cup {NoUser, NoName}

Goto(k, l) == pc' = [pc EXCEPT ![k] = l]

-----------------------------------------------------------------------------
Init ==
  /\ db_active = [u \in Users |-> TRUE]
  /\ is_active = db_active
  /\ is_online = [u \in Users |-> FALSE]
  /\ ssl = [u \in Users |-> NoConn]
  /\ fresh = [u \in Users |-> FALSE]
  /\ session_id_to_id = [s \in Sids |-> NoUser]
  /\ heap = [k \in Conns |-> "none"]
  /\ peer = [k \in Conns |-> TRUE]
  /\ server_stoped = FALSE
  /\ pc = [k \in Conns |-> "new"]
  /\ who = [k \in Conns |-> NoUser]
  /\ sid = [k \in Conns |-> NoSid]
  /\ named = [k \in Conns |-> NoName]
  /\ me = [k \in Conns |-> NoUser]
  /\ rd = [k \in Conns |-> NoConn]
  /\ overlapping = {}

(* The process dies and is started again on the same database: users are   *)
(* cached offline, no session id is known, every connection is gone.       *)
Restart ==
  /\ is_active' = db_active
  /\ is_online' = [u \in Users |-> FALSE]
  /\ ssl' = [u \in Users |-> NoConn]
  /\ fresh' = [u \in Users |-> FALSE]
  /\ session_id_to_id' = [s \in Sids |-> NoUser]
  /\ heap' = [k \in Conns |-> IF heap[k] = "open" THEN "freed" ELSE heap[k]]
  /\ server_stoped' = FALSE
  /\ pc' = [k \in Conns |-> IF pc[k] = "new" THEN "new" ELSE "done"]
  /\ who' = [k \in Conns |-> NoUser]
  /\ sid' = [k \in Conns |-> NoSid]
  /\ named' = [k \in Conns |-> NoName]
  /\ me' = [k \in Conns |-> NoUser]
  /\ rd' = [k \in Conns |-> NoConn]
  /\ overlapping' = {}
  /\ UNCHANGED <<db_active, peer>>

-----------------------------------------------------------------------------
(* main: accept, SSL_accept, a client_t without user, a thread *)

Accept(k) ==
  /\ pc[k] = "new" /\ ~server_stoped /\ peer[k]
  /\ heap' = [heap EXCEPT ![k] = "open"]
  /\ Goto(k, "login")
  /\ UNCHANGED <<db_active, cache, session_id_to_id, peer, server_stoped, login, serves, rd>>

(* SIGINT: every socket is shut down, and main joins the threads *)
StopServer ==
  /\ ~server_stoped
  /\ server_stoped' = TRUE
  /\ peer' = [k \in Conns |-> peer[k] /\ pc[k] = "new"]
  /\ UNCHANGED <<db_active, cache, session_id_to_id, heap, pc, login, serves, rd>>

-----------------------------------------------------------------------------
(* handle_client and handle_login until the user is known *)

(* The thread ends before a user is attached and frees its own SSL object: *)
(* free_client_data with user_data NULL, or the error branch of a login.   *)
FreeOwn(k) ==
  /\ heap' = [heap EXCEPT ![k] = "freed"]
  /\ Goto(k, "done")
  /\ UNCHANGED <<db_active, cache, session_id_to_id, peer, server_stoped, login, serves, rd>>

(* free_client_data locks the mutex of the client_t main has allocated,    *)
(* which nobody has initialised: the lock may also wait for ever.          *)
LoginReadFails(k) ==
  /\ pc[k] = "login"
  /\ \/ FreeOwn(k)
     \/ /\ Goto(k, "hung")
        /\ UNCHANGED <<db_active, cache, session_id_to_id, heap, peer, server_stoped, login, serves, rd>>

Reject(k) == pc[k] = "reject" /\ FreeOwn(k)

(* Not a login, a wrong password, or an unknown name *)
BadLogin(k) ==
  /\ pc[k] = "login" /\ peer[k]
  /\ Goto(k, "reject")
  /\ UNCHANGED <<db_active, cache, session_id_to_id, heap, peer, server_stoped, login, serves, rd>>

(* find_and_validate_user: the password hash of u *)
PasswordLogin(k, u) ==
  /\ pc[k] = "login" /\ peer[k]
  /\ who' = [who EXCEPT ![k] = u]
  /\ named' = [named EXCEPT ![k] = u]
  /\ Goto(k, "check_active")
  /\ UNCHANGED <<db_active, cache, session_id_to_id, heap, peer, server_stoped, sid, serves, rd>>

(* mutant: the -1 of the table is taken for a user *)
MutSessionLogin(k, s, n) ==
  /\ pc[k] = "login" /\ peer[k]
  /\ who' = [who EXCEPT ![k] = session_id_to_id[s]]
  /\ sid' = [sid EXCEPT ![k] = s]
  /\ named' = [named EXCEPT ![k] = n]
  /\ Goto(k, "session")
  /\ UNCHANGED <<db_active, cache, session_id_to_id, heap, peer, server_stoped, serves, rd>>

(* validate_login_via_session_id: a session id; the name that comes with   *)
(* it, if any, is not compared with the user of the id                     *)
SessionLogin(k, s, n) ==
  /\ pc[k] = "login" /\ peer[k]
  /\ who' = [who EXCEPT ![k] = session_id_to_id[s]]
  /\ sid' = [sid EXCEPT ![k] = s]
  /\ named' = [named EXCEPT ![k] = n]
  /\ Goto(k, IF session_id_to_id[s] = NoUser THEN "reject" ELSE "session")
  /\ UNCHANGED <<db_active, cache, session_id_to_id, heap, peer, server_stoped, serves, rd>>

(* The test is "if (is_active)": it is the active user who is turned away. *)
SessionActive(k) ==
  /\ pc[k] = "session"
  /\ Goto(k, IF is_active[who[k]] THEN "drop_session" ELSE "expiry")
  /\ UNCHANGED <<db_active, cache, session_id_to_id, heap, peer, server_stoped, login, serves, rd>>

(* The same mutex is locked here.  mktime gets a struct tm whose tm_isdst  *)
(* was never set: a young session id may be taken for an expired one.      *)
SessionExpiry(k) ==
  /\ pc[k] = "expiry"
  /\ \/ fresh[who[k]] /\ Goto(k, "check_active")
     \/ Goto(k, "drop_session")
     \/ Goto(k, "hung")
  /\ UNCHANGED <<db_active, cache, session_id_to_id, heap, peer, server_stoped, login, serves, rd>>

(* the name is not looked at again *)
Forget(k) == named' = [named EXCEPT ![k] = NoName]

DropSession(k) ==
  /\ pc[k] = "drop_session"
  /\ session_id_to_id' = [session_id_to_id EXCEPT ![sid[k]] = NoUser]
  /\ Forget(k)
  /\ Goto(k, "reject")
  /\ UNCHANGED <<db_active, cache, heap, peer, server_stoped, who, sid, serves, rd>>

(* is_active_user asks about the user named in the login.  Of a login      *)
(* without a name, login->valuestring is read from NULL.                   *)
CheckActive(k) ==
  /\ pc[k] = "check_active"
  /\ \/ named[k] = NoName /\ Restart
     \/ /\ named[k] \in Users /\ is_active[named[k]]
        /\ Forget(k)
        /\ Goto(k, IF sid[k] = NoSid THEN "attach" ELSE "look_again")
        /\ UNCHANGED <<db_active, cache, session_id_to_id, heap, peer, server_stoped, who, sid, serves, rd>>
     \/ /\ \/ named[k] = NoUser
           \/ named[k] \in Users /\ ~is_active[named[k]]
        /\ Forget(k)
        /\ Goto(k, "reject")
        /\ UNCHANGED <<db_active, cache, session_id_to_id, heap, peer, server_stoped, who, sid, serves, rd>>

(* handle_valid_login_via_session_id asks the table once more; of a key -1 *)
(* ht_get reads before its array                                           *)
LookAgain(k) ==
  /\ pc[k] = "look_again"
  /\ \/ /\ session_id_to_id[sid[k]] = NoUser /\ Restart
     \/ /\ session_id_to_id[sid[k]] # NoUser
        /\ who' = [who EXCEPT ![k] = session_id_to_id[sid[k]]]
        /\ Goto(k, "attach")
        /\ UNCHANGED <<db_active, cache, session_id_to_id, heap, peer, server_stoped, sid, named, serves, rd>>

(* the connections user u is served on, or that are about to end           *)
ServedOn(u) == {j \in Conns : me[j] = u /\ pc[j] # "done"}

(* update_server_client_data: whatever SSL object was there is forgotten   *)
Attach(k) ==
  /\ pc[k] = "attach"
  /\ ssl' = [ssl EXCEPT ![who[k]] = k]
  /\ is_online' = [is_online EXCEPT ![who[k]] = TRUE]
  /\ me' = [me EXCEPT ![k] = who[k]]
  /\ overlapping' = IF ServedOn(who[k]) = {} THEN overlapping
                    ELSE overlapping \cup {k} \cup ServedOn(who[k])
  /\ Goto(k, IF sid[k] = NoSid THEN "new_session" ELSE "recheck")
  /\ UNCHANGED <<db_active, is_active, fresh, session_id_to_id, heap, peer, server_stoped, login, rd>>

(* mutant: an id that is in use is handed out again *)
MutNewSession(k) ==
  /\ pc[k] = "new_session"
  /\ \E s \in Sids : session_id_to_id' = [session_id_to_id EXCEPT ![s] = me[k]]
  /\ Goto(k, "stamp")
  /\ UNCHANGED <<db_active, cache, heap, peer, server_stoped, login, serves, rd>>

(* set_session_id_data: generated again until the id is free *)
NewSession(k) ==
  /\ pc[k] = "new_session"
  /\ \E s \in Sids :
       /\ session_id_to_id[s] = NoUser
       /\ session_id_to_id' = [session_id_to_id EXCEPT ![s] = me[k]]
  /\ Goto(k, "stamp")
  /\ UNCHANGED <<db_active, cache, heap, peer, server_stoped, login, serves, rd>>

Stamp(k) ==
  /\ pc[k] = "stamp"
  /\ fresh' = [fresh EXCEPT ![me[k]] = TRUE]
  /\ Goto(k, "greet")
  /\ UNCHANGED <<db_active, is_active, is_online, ssl, session_id_to_id, heap, peer, server_stoped,
                 login, serves, rd>>

(* five hours pass *)
Expire(u) ==
  /\ fresh[u]
  /\ fresh' = [fresh EXCEPT ![u] = FALSE]
  /\ UNCHANGED <<db_active, is_active, is_online, ssl, session_id_to_id, heap, peer, server_stoped,
                 pc, login, serves, rd>>

-----------------------------------------------------------------------------
(* The request loop *)

(* send_message_to_user: SSL_write on the cached pointer, with the mutex   *)
(* of the client_t held but no test for NULL.  Given NULL, OpenSSL crashes *)
(* or returns an error, depending on its version; so it does below.        *)
Answer(k) ==
  /\ pc[k] \in {"greet", "answer"}
  /\ \/ /\ ssl[me[k]] = NoConn /\ Restart
     \/ /\ Goto(k, "recheck")
        /\ UNCHANGED <<db_active, cache, session_id_to_id, heap, peer, server_stoped, login, serves, rd>>

Recheck(k) ==
  /\ pc[k] = "recheck"
  /\ Goto(k, IF is_active[me[k]] THEN "loop" ELSE "close")
  /\ UNCHANGED <<db_active, cache, session_id_to_id, heap, peer, server_stoped, login, serves, rd>>

(* SSL_read(call_data->client_data->ssl) without any mutex *)
Loop(k) ==
  /\ pc[k] = "loop"
  /\ \/ /\ ~server_stoped /\ ssl[me[k]] = NoConn
        /\ Restart
     \/ /\ server_stoped \/ ssl[me[k]] = NoConn
        /\ Goto(k, "close")
        /\ UNCHANGED <<db_active, cache, session_id_to_id, heap, peer, server_stoped, login, serves, rd>>
     \/ /\ ~server_stoped /\ ssl[me[k]] # NoConn
        /\ rd' = [rd EXCEPT ![k] = ssl[me[k]]]
        /\ Goto(k, "reading")
        /\ UNCHANGED <<db_active, cache, session_id_to_id, heap, peer, server_stoped, login, serves>>

(* A request arrives.  handle_user_msg drops an empty one, and looks at    *)
(* is_active without a mutex.                                              *)
Receive(k) ==
  /\ pc[k] = "reading" /\ peer[rd[k]]
  /\ rd' = [rd EXCEPT ![k] = NoConn]
  /\ \/ Goto(k, IF is_active[me[k]] THEN "handle" ELSE "close")
     \/ Goto(k, "recheck")
  /\ UNCHANGED <<db_active, cache, session_id_to_id, heap, peer, server_stoped, login, serves>>

(* mutant: after an error the loop goes on *)
MutReadEnds(k) ==
  /\ pc[k] = "reading"
  /\ rd' = [rd EXCEPT ![k] = NoConn]
  /\ Goto(k, "recheck")
  /\ UNCHANGED <<db_active, cache, session_id_to_id, heap, peer, server_stoped, login, serves>>

(* the end of the connection or an error: ZERO_RETURN, 0 or -1 *)
ReadEnds(k) ==
  /\ pc[k] = "reading"
  /\ rd' = [rd EXCEPT ![k] = NoConn]
  /\ Goto(k, "close")
  /\ UNCHANGED <<db_active, cache, session_id_to_id, heap, peer, server_stoped, login, serves>>

(* SSL_read from an object that another thread frees meanwhile *)
ReadFreed(k) ==
  /\ pc[k] = "reading" /\ heap[rd[k]] = "freed"
  /\ Restart

(* EXIT *)
Exit(k) ==
  /\ pc[k] = "handle"
  /\ Goto(k, "close")
  /\ UNCHANGED <<db_active, cache, session_id_to_id, heap, peer, server_stoped, login, serves, rd>>

(* a request that is refused, or that touches nothing modelled here *)
HandleOther(k) ==
  /\ pc[k] = "handle"
  /\ Goto(k, "answer")
  /\ UNCHANGED <<db_active, cache, session_id_to_id, heap, peer, server_stoped, login, serves, rd>>

(* mutant: a ban also frees the connection of the user *)
MutSetActive(k, u) ==
  /\ pc[k] = "handle"
  /\ me[k] \in Admins /\ u # FirstAdmin /\ u # me[k]
  /\ is_active' = [is_active EXCEPT ![u] = ~@]
  /\ db_active' = [db_active EXCEPT ![u] = ~is_active[u]]
  /\ heap' = [x \in Conns |-> IF x = ssl[u] THEN "freed" ELSE heap[x]]
  /\ ssl' = [ssl EXCEPT ![u] = NoConn]
  /\ Goto(k, "answer")
  /\ UNCHANGED <<is_online, fresh, session_id_to_id, peer, server_stoped, login, serves, rd>>

(* handle_deactivate_user, handle_activate_user; the response code of the  *)
(* UPDATE is not looked at                                                 *)
SetActive(k, u) ==
  /\ pc[k] = "handle"
  /\ me[k] \in Admins /\ u # FirstAdmin /\ u # me[k]
  /\ is_active' = [is_active EXCEPT ![u] = ~@]
  /\ \/ db_active' = [db_active EXCEPT ![u] = ~is_active[u]]
     \/ DbMayFail /\ UNCHANGED db_active
  /\ Goto(k, "answer")
  /\ UNCHANGED <<is_online, ssl, fresh, session_id_to_id, heap, peer, server_stoped, login, serves, rd>>

-----------------------------------------------------------------------------
(* free_client_data: the pointer is tested before the mutex is taken *)

Close(k) ==
  /\ pc[k] = "close"
  /\ Goto(k, IF ssl[me[k]] = NoConn THEN "offline" ELSE "free")
  /\ UNCHANGED <<db_active, cache, session_id_to_id, heap, peer, server_stoped, login, serves, rd>>

(* mutant: the pointer is kept *)
MutFree(k) ==
  /\ pc[k] = "free"
  /\ ssl[me[k]] # NoConn
  /\ heap' = [heap EXCEPT ![ssl[me[k]]] = "freed"]
  /\ Goto(k, "offline")
  /\ UNCHANGED <<db_active, cache, session_id_to_id, peer, server_stoped, login, serves, rd>>

Free(k) ==
  /\ pc[k] = "free"
  /\ \/ /\ ssl[me[k]] = NoConn /\ Restart
     \/ /\ ssl[me[k]] = NoConn
        /\ Goto(k, "offline")
        /\ UNCHANGED <<db_active, cache, session_id_to_id, heap, peer, server_stoped, login, serves, rd>>
     \/ /\ ssl[me[k]] # NoConn
        /\ heap' = [heap EXCEPT ![ssl[me[k]]] = "freed"]
        /\ ssl' = [ssl EXCEPT ![me[k]] = NoConn]
        /\ Goto(k, "offline")
        /\ UNCHANGED <<db_active, is_active, is_online, fresh, session_id_to_id, peer, server_stoped,
                       login, serves, rd>>

(* mutant: the user stays online *)
MutOffline(k) ==
  /\ pc[k] = "offline"
  /\ Goto(k, "done")
  /\ UNCHANGED <<db_active, cache, session_id_to_id, heap, peer, server_stoped, login, serves, rd>>

Offline(k) ==
  /\ pc[k] = "offline"
  /\ is_online' = [is_online EXCEPT ![me[k]] = FALSE]
  /\ Goto(k, "done")
  /\ UNCHANGED <<db_active, is_active, ssl, fresh, session_id_to_id, heap, peer, server_stoped,
                 login, serves, rd>>

-----------------------------------------------------------------------------
(* the client closes the connection, or dies *)
PeerCloses(k) ==
  /\ peer[k] /\ heap[k] = "open"
  /\ peer' = [peer EXCEPT ![k] = FALSE]
  /\ UNCHANGED <<db_active, cache, session_id_to_id, heap, server_stoped, pc, login, serves, rd>>

Thread(k) ==
  \/ LoginReadFails(k) \/ BadLogin(k) \/ Reject(k)
  \/ (\E u \in Users : PasswordLogin(k, u))
  \/ (\E s \in Sids, n \in Names : SessionLogin(k, s, n))
  \/ SessionActive(k) \/ SessionExpiry(k) \/ DropSession(k)
  \/ CheckActive(k) \/ LookAgain(k) \/ Attach(k) \/ NewSession(k) \/ Stamp(k)
  \/ Answer(k) \/ Recheck(k) \/ Loop(k) \/ Receive(k) \/ ReadEnds(k) \/ ReadFreed(k)
  \/ Exit(k) \/ HandleOther(k) \/ (\E u \in Users : SetActive(k, u))
  \/ Close(k) \/ Free(k) \/ Offline(k)

Next ==
  \/ \E k \in Conns : Accept(k) \/ Thread(k) \/ PeerCloses(k)
  \/ \E u \in Users : Expire(u)
  \/ StopServer \/ Restart

Spec == Init /\ [][Next]_vars

(* a thread in SSL_read waits as long as the other end is there and silent *)
Waits(k) == (pc[k] = "login" /\ peer[k]) \/ (pc[k] = "reading" /\ peer[rd[k]])

(* The operating system runs every thread that does not wait; a client     *)
(* need not send anything.                                                 *)
FairSpec == Spec /\ \A k \in Conns : WF_vars(~Waits(k) /\ Thread(k))

-----------------------------------------------------------------------------
(* Properties *)

Joining == {"login", "reject", "check_active", "session", "expiry", "drop_session",
            "look_again", "attach", "hung"}
Known   == {"check_active", "session", "expiry", "look_again", "attach"}
Serving == {"new_session", "stamp", "greet", "recheck", "loop", "reading", "handle", "answer",
            "close", "free"}

Typed ==
  /\ db_active \in [Users -> BOOLEAN] /\ is_active \in [Users -> BOOLEAN]
  /\ is_online \in [Users -> BOOLEAN] /\ fresh \in [Users -> BOOLEAN]
  /\ ssl \in [Users -> Conns \cup {NoConn}]
  /\ session_id_to_id \in [Sids -> Users \cup {NoUser}]
  /\ heap \in [Conns -> {"none", "open", "freed"}]
  /\ peer \in [Conns -> BOOLEAN] /\ server_stoped \in BOOLEAN
  /\ pc \in [Conns -> {"new", "offline", "done"} \cup Joining \cup Serving]
  /\ who \in [Conns -> Users \cup {NoUser}]
  /\ sid \in [Conns -> Sids \cup {NoSid}] /\ named \in [Conns -> Names]
  /\ me \in [Conns -> Users \cup {NoUser}]
  /\ rd \in [Conns -> Conns \cup {NoConn}]
  /\ overlapping \subseteq Conns

Placed(k) ==
  /\ pc[k] \in Known => who[k] \in Users
  /\ pc[k] \in {"session", "expiry", "drop_session", "look_again"} => sid[k] \in Sids
  /\ pc[k] \in Serving \cup {"offline"} => me[k] \in Users
  /\ pc[k] = "reading" => rd[k] \in Conns

(* Every variable has its type; a thread that looks a user up has found    *)
(* one, and one that serves a user has one.                                *)
TypeOK == Typed /\ \A k \in Conns : Placed(k)

(* Whoever sends to a user writes to the SSL object in the cached client_t *)
(* of that user, if there is one: it is never one that was freed, nor one  *)
(* of a connection somebody else logged in on, nor one whose thread has    *)
(* given up -- however many connections of the user come and go.           *)
CachedConnection ==
  \A u \in Users : ssl[u] # NoConn =>
    heap[ssl[u]] = "open" /\ me[ssl[u]] = u /\ pc[ssl[u]] \in Serving

(* SSL_read is called without a mutex.  Still, a thread reads a connection *)
(* other than its own, or one that was freed, only if the same user was    *)
(* being served on another connection before its own had ended.            *)
UndisturbedRead ==
  \A k \in Conns :
    pc[k] = "reading" /\ k \notin overlapping => rd[k] = k /\ heap[k] = "open"

(* Nobody is shown online without a connection, except while a thread that *)
(* ends stands between the two assignments; and whoever has a connection   *)
(* is shown online, unless the user was served on another one before it    *)
(* had ended.                                                              *)
OnlineIsConnected ==
  \A u \in Users :
    /\ is_online[u] /\ ssl[u] = NoConn => \E k \in Conns : me[k] = u /\ pc[k] = "offline"
    /\ ssl[u] \notin overlapping \cup {NoConn} => is_online[u]

(* A session id stands for one user from the moment it is made until it is *)
(* deleted: no login ever takes it over.                                   *)
SessionKeepsUser ==
  [][\A s \in Sids : session_id_to_id[s] # NoUser =>
       session_id_to_id'[s] \in {session_id_to_id[s], NoUser}]_vars

(* A connection that the client leaves, or that the server shuts down when *)
(* it stops, does not stay: its thread ends and frees its SSL object.  Not *)
(* so if the user is served on another connection meanwhile, or if the     *)
(* thread waits for the mutex nobody initialised.                          *)
ConnectionEnds ==
  \A k \in Conns :
    ~peer[k] ~> \/ pc[k] = "done" /\ heap[k] = "freed"
                \/ pc[k] = "hung"
                \/ k \in overlapping

(* try_to_reconnect of the client "sends session_id to server in order to  *)
(* login again", and validate_login_via_session_id reports "User was       *)
(* deactivated" where it refuses: an active user is not refused there.     *)
ActiveUserMayReturn ==
  [][\A k \in Conns : pc[k] = "session" /\ pc'[k] = "drop_session" => ~is_active[who[k]]]_vars
==============================================================================
