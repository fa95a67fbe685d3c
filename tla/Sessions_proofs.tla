----------------------------- MODULE Sessions_proofs -----------------------------
(***************************************************************************)
(* Proofs about Sessions: who uses the SSL object of a connection.         *)
(***************************************************************************)
EXTENDS Sessions, TLAPS

(* A thread uses the client_t of a user only after the login has succeeded; *)
(* until then its SSL object is its own.                                    *)
NotYet ==
  \A k \in Conns :
    /\ pc[k] \in Joining \cup {"new"} => me[k] = NoUser
    /\ pc[k] \in Joining => heap[k] = "open"

(* Two threads that serve one user overlap.                                *)
Apart ==
  \A j, k \in Conns :
    me[j] = me[k] /\ me[k] # NoUser /\ pc[j] # "done" /\ pc[k] # "done" /\ j # k =>
      k \in overlapping

SInv == TypeOK /\ NotYet /\ CachedConnection /\ Apart

-----------------------------------------------------------------------------
(* The steps, grouped by what they do to the connection in a client_t.     *)

(* the thread moves on; no client_t, SSL object or user of a thread changes *)
Moves(k) ==
  /\ pc[k] \notin {"new", "done", "attach", "offline"}
  /\ \E l \in {"reject", "check_active", "session", "expiry", "drop_session", "look_again", "attach",
               "hung", "stamp", "greet", "recheck", "loop", "reading", "handle", "answer",
               "close", "free", "offline"} :
       /\ Goto(k, l)
       /\ l \in Joining => pc[k] \in Joining
       /\ l \in Serving \cup {"offline"} => pc[k] \in Serving
       /\ l = "offline" => ssl[me[k]] = NoConn
       /\ l = "reading" => pc[k] = "loop" /\ ssl[me[k]] # NoConn
       /\ rd' = IF l = "reading" THEN [rd EXCEPT ![k] = ssl[me[k]]]
                ELSE IF pc[k] = "reading" THEN [rd EXCEPT ![k] = NoConn] ELSE rd
  /\ UNCHANGED <<is_online, ssl, heap, serves, server_stoped, peer>>

(* free_client_data finds an SSL object *)
Frees(k) ==
  /\ pc[k] = "free" /\ ssl[me[k]] # NoConn
  /\ heap' = [heap EXCEPT ![ssl[me[k]]] = "freed"]
  /\ ssl' = [ssl EXCEPT ![me[k]] = NoConn]
  /\ Goto(k, "offline")
  /\ UNCHANGED <<is_online, serves, rd>>

(* Every step of a state of the invariant is of one of these kinds.        *)
LEMMA Kinds ==
  ASSUME TypeOK, [Next]_vars
  PROVE  \/ Restart
         \/ UNCHANGED <<is_online, ssl, heap, serves, pc, rd>>
         \/ \E k \in Conns :
              \/ Accept(k)
              \/ FreeOwn(k) /\ pc[k] \in {"login", "reject"}
              \/ Attach(k)
              \/ Moves(k)
              \/ Frees(k)
              \/ Offline(k)
<1> USE DEF TypeOK, Typed, Placed, Goto, cache, login, serves, Moves, Frees, Joining, Serving
<1>1. ASSUME NEW k \in Conns, Thread(k)
      PROVE  \/ Restart
             \/ FreeOwn(k) /\ pc[k] \in {"login", "reject"}
             \/ Attach(k)
             \/ Moves(k)
             \/ Frees(k)
             \/ Offline(k)
  <2>1. CASE LoginReadFails(k) \/ Reject(k)
    BY <2>1 DEF LoginReadFails, Reject
  <2>2. CASE BadLogin(k) \/ \E u \in Users : PasswordLogin(k, u)
    BY <2>2 DEF BadLogin, PasswordLogin
  <2>3. CASE \E s \in Sids, n \in Names : SessionLogin(k, s, n)
    BY <2>3 DEF SessionLogin
  <2>4. CASE SessionActive(k) \/ SessionExpiry(k) \/ DropSession(k)
    BY <2>4 DEF SessionActive, SessionExpiry, DropSession
  <2>5. CASE CheckActive(k) \/ LookAgain(k)
    BY <2>5 DEF CheckActive, LookAgain
  <2>6. CASE NewSession(k) \/ Stamp(k) \/ Answer(k) \/ Recheck(k)
    BY <2>6 DEF NewSession, Stamp, Answer, Recheck
  <2>7. CASE Loop(k)
    BY <2>7 DEF Loop
  <2>8. CASE Receive(k) \/ ReadEnds(k) \/ ReadFreed(k)
    BY <2>8 DEF Receive, ReadEnds, ReadFreed
  <2>9. CASE Exit(k) \/ HandleOther(k) \/ \E u \in Users : SetActive(k, u)
    BY <2>9 DEF Exit, HandleOther, SetActive
  <2>10. CASE Close(k)
    BY <2>10 DEF Close
  <2>11. CASE Free(k)
    BY <2>11 DEF Free
  <2>12. QED
    BY <1>1, <2>1, <2>2, <2>3, <2>4, <2>5, <2>6, <2>7, <2>8, <2>9, <2>10, <2>11 DEF Thread
<1>2. ASSUME (\E k \in Conns : PeerCloses(k)) \/ (\E u \in Users : Expire(u)) \/ StopServer \/ UNCHANGED vars
      PROVE  UNCHANGED <<is_online, ssl, heap, serves, pc, rd>>
  BY <1>2 DEF PeerCloses, Expire, StopServer, vars, serves
<1>3. QED
  BY <1>1, <1>2 DEF Next

-----------------------------------------------------------------------------
(* Type correctness *)

LEMMA TypeInit == Init => TypeOK
<1>1. Init => Typed
  <2> SUFFICES ASSUME Init PROVE Typed
    OBVIOUS
  <2>1. /\ db_active \in [Users -> BOOLEAN] /\ is_active \in [Users -> BOOLEAN]
        /\ is_online \in [Users -> BOOLEAN] /\ fresh \in [Users -> BOOLEAN]
        /\ peer \in [Conns -> BOOLEAN] /\ server_stoped \in BOOLEAN
        /\ named \in [Conns -> Names] /\ overlapping \subseteq Conns
    BY DEF Init, Names
  <2>2. /\ ssl \in [Users -> Conns \cup {NoConn}]
        /\ session_id_to_id \in [Sids -> Users \cup {NoUser}]
        /\ who \in [Conns -> Users \cup {NoUser}] /\ sid \in [Conns -> Sids \cup {NoSid}]
        /\ me \in [Conns -> Users \cup {NoUser}] /\ rd \in [Conns -> Conns \cup {NoConn}]
    BY DEF Init
  <2>3. /\ heap \in [Conns -> {"none", "open", "freed"}]
        /\ pc \in [Conns -> {"new", "offline", "done"} \cup Joining \cup Serving]
    BY DEF Init
  <2>4. QED
    BY <2>1, <2>2, <2>3 DEF Typed
<1>2. Init => \A k \in Conns : Placed(k)
  BY DEF Init, Placed, Joining, Serving, Known
<1>3. QED
  BY <1>1, <1>2 DEF TypeOK

LEMMA TypeRestart == TypeOK /\ Restart => TypeOK'
<1> SUFFICES ASSUME TypeOK, Restart PROVE TypeOK'
  OBVIOUS
<1>1. /\ is_active' \in [Users -> BOOLEAN] /\ is_online' \in [Users -> BOOLEAN]
      /\ db_active' \in [Users -> BOOLEAN] /\ peer' \in [Conns -> BOOLEAN]
      /\ fresh' \in [Users -> BOOLEAN] /\ server_stoped' \in BOOLEAN
      /\ named' \in [Conns -> Names] /\ overlapping' \subseteq Conns
  BY DEF TypeOK, Typed, Restart, Names
<1>2. /\ ssl' \in [Users -> Conns \cup {NoConn}]
      /\ session_id_to_id' \in [Sids -> Users \cup {NoUser}]
      /\ who' \in [Conns -> Users \cup {NoUser}] /\ sid' \in [Conns -> Sids \cup {NoSid}]
      /\ me' \in [Conns -> Users \cup {NoUser}] /\ rd' \in [Conns -> Conns \cup {NoConn}]
  BY DEF Restart
<1>3. heap' \in [Conns -> {"none", "open", "freed"}]
  BY DEF TypeOK, Typed, Restart
<1>4. /\ pc' \in [Conns -> {"new", "offline", "done"} \cup Joining \cup Serving]
      /\ \A k \in Conns : Placed(k)'
  BY DEF Restart, Placed, Joining, Serving, Known
<1>5. QED
  BY <1>1, <1>2, <1>3, <1>4 DEF TypeOK, Typed

LEMMA TypeThread ==
  ASSUME TypeOK, NEW k \in Conns, Thread(k)
  PROVE  TypeOK'
<1> USE DEF TypeOK, Typed, Placed, Goto, cache, login, serves, Joining, Serving, Known
<1>1. CASE LoginReadFails(k) \/ Reject(k) \/ BadLogin(k)
  BY <1>1 DEF LoginReadFails, Reject, FreeOwn, BadLogin
<1>2. CASE \E u \in Users : PasswordLogin(k, u)
  BY <1>2 DEF PasswordLogin, Names
<1>3. CASE \E s \in Sids, n \in Names : SessionLogin(k, s, n)
  BY <1>3 DEF SessionLogin
<1>4. CASE SessionActive(k) \/ SessionExpiry(k)
  BY <1>4 DEF SessionActive, SessionExpiry
<1>5. CASE DropSession(k)
  BY <1>5 DEF DropSession, Forget, Names
<1>6. CASE CheckActive(k)
  BY <1>6, TypeRestart DEF CheckActive, Forget, Names
<1>7. CASE LookAgain(k)
  BY <1>7, TypeRestart DEF LookAgain
<1>8. CASE Attach(k)
  BY <1>8 DEF Attach, ServedOn
<1>9. CASE NewSession(k)
  BY <1>9 DEF NewSession
<1>10. CASE Stamp(k)
  BY <1>10 DEF Stamp
<1>11. CASE Answer(k) \/ Recheck(k)
  BY <1>11, TypeRestart DEF Answer, Recheck
<1>12. CASE Loop(k)
  BY <1>12, TypeRestart DEF Loop
<1>13. CASE Receive(k) \/ ReadEnds(k) \/ ReadFreed(k)
  BY <1>13, TypeRestart DEF Receive, ReadEnds, ReadFreed
<1>14. CASE Exit(k) \/ HandleOther(k)
  BY <1>14 DEF Exit, HandleOther
<1>15. CASE \E u \in Users : SetActive(k, u)
  <2>1. PICK u \in Users : SetActive(k, u)
    BY <1>15
  <2>2. is_active[u] \in BOOLEAN
    OBVIOUS
  <2>3. is_active' \in [Users -> BOOLEAN] /\ db_active' \in [Users -> BOOLEAN]
    BY <2>1, <2>2 DEF SetActive
  <2>4. pc' = [pc EXCEPT ![k] = "answer"] /\ me[k] \in Users
    BY <2>1 DEF SetActive
  <2>5. QED
    BY <2>1, <2>3, <2>4 DEF SetActive
<1>16. CASE Close(k)
  BY <1>16 DEF Close
<1>17. CASE Offline(k)
  BY <1>17 DEF Offline
<1>18. CASE Free(k)
  BY <1>18, TypeRestart DEF Free
<1>19. QED
  BY <1>1, <1>2, <1>3, <1>4, <1>5, <1>6, <1>7, <1>8, <1>9, <1>10, <1>11, <1>12,
     <1>13, <1>14, <1>15, <1>16, <1>17, <1>18 DEF Thread

LEMMA TypeStep == TypeOK /\ [Next]_vars => TypeOK'
<1> SUFFICES ASSUME TypeOK, [Next]_vars PROVE TypeOK'
  OBVIOUS
<1>1. ASSUME NEW k \in Conns, Accept(k) PROVE TypeOK'
  BY <1>1 DEF TypeOK, Typed, Placed, Accept, Goto, cache, login, serves, Joining, Serving, Known
<1>2. ASSUME NEW k \in Conns, PeerCloses(k) PROVE TypeOK'
  BY <1>2 DEF TypeOK, Typed, Placed, PeerCloses, cache, login, serves, Joining, Serving, Known
<1>3. ASSUME NEW u \in Users, Expire(u) PROVE TypeOK'
  BY <1>3 DEF TypeOK, Typed, Placed, Expire, login, serves, Joining, Serving, Known
<1>4. CASE StopServer
  BY <1>4 DEF TypeOK, Typed, Placed, StopServer, cache, login, serves, Joining, Serving, Known
<1>5. CASE UNCHANGED vars
  BY <1>5 DEF TypeOK, Typed, Placed, vars, cache, login, serves, Joining, Serving, Known
<1>6. QED
  BY <1>1, <1>2, <1>3, <1>4, <1>5, TypeThread, TypeRestart DEF Next

(* Every variable keeps its type, whatever users, connections and session  *)
(* ids there are: no thread ever serves, or looks up, a user that is -1.   *)
THEOREM TypeCorrect == Spec => []TypeOK
<1>1. QED
  BY TypeInit, TypeStep, PTL DEF Spec

-----------------------------------------------------------------------------
(* The connection in a client_t *)

LEMMA NotYetStep == SInv /\ [Next]_vars => NotYet'
<1> SUFFICES ASSUME SInv, [Next]_vars PROVE NotYet'
  OBVIOUS
<1> USE DEF SInv, TypeOK, Typed, Placed, NotYet, Goto, serves, Joining, Serving
<1>1. CASE Restart
  BY <1>1 DEF Restart
<1>2. CASE UNCHANGED <<is_online, ssl, heap, serves, pc, rd>>
  BY <1>2
<1>3. ASSUME NEW k \in Conns, Accept(k) PROVE NotYet'
  BY <1>3 DEF Accept
<1>4. ASSUME NEW k \in Conns, FreeOwn(k), pc[k] \in {"login", "reject"} PROVE NotYet'
  BY <1>4 DEF FreeOwn
<1>5. ASSUME NEW k \in Conns, Attach(k) PROVE NotYet'
  BY <1>5 DEF Attach
<1>6. ASSUME NEW k \in Conns, Moves(k) PROVE NotYet'
  BY <1>6 DEF Moves
<1>7. ASSUME NEW k \in Conns, Frees(k) PROVE NotYet'
  <2>1. me[k] \in Users /\ me[k] # NoUser
    BY <1>7, SessionAssumption DEF Frees
  <2>2. pc[ssl[me[k]]] \in Serving
    BY <1>7, <2>1 DEF Frees, CachedConnection
  <2>3. QED
    BY <1>7, <2>2 DEF Frees
<1>8. ASSUME NEW k \in Conns, Offline(k) PROVE NotYet'
  BY <1>8 DEF Offline
<1>9. QED
  BY <1>1, <1>2, <1>3, <1>4, <1>5, <1>6, <1>7, <1>8, Kinds

LEMMA CachedStep == SInv /\ [Next]_vars => CachedConnection'
<1> SUFFICES ASSUME SInv, [Next]_vars, NEW u \in Users, (ssl[u] # NoConn)'
             PROVE  (heap[ssl[u]] = "open" /\ me[ssl[u]] = u /\ pc[ssl[u]] \in Serving)'
  BY DEF CachedConnection
<1> DEFINE Good == heap[ssl[u]] = "open" /\ me[ssl[u]] = u /\ pc[ssl[u]] \in Serving
<1>0. ssl[u] # NoConn => Good /\ ssl[u] \in Conns
  BY DEF SInv, CachedConnection, TypeOK, Typed
<1> USE DEF SInv, TypeOK, Typed, Placed, Goto, serves, Joining, Serving
<1>1. CASE Restart
  BY <1>1 DEF Restart
<1>2. CASE UNCHANGED <<is_online, ssl, heap, serves, pc, rd>>
  BY <1>0, <1>2
<1>3. ASSUME NEW k \in Conns, Accept(k) PROVE Good'
  BY <1>0, <1>3 DEF Accept, cache
<1>4. ASSUME NEW k \in Conns, FreeOwn(k), pc[k] \in {"login", "reject"} PROVE Good'
  BY <1>0, <1>4 DEF FreeOwn, cache
<1>5. ASSUME NEW k \in Conns, Attach(k) PROVE Good'
  <2>1. who[k] \in Users /\ me[k] = NoUser /\ heap[k] = "open"
    BY <1>5 DEF Attach, NotYet, Known
  <2>2. CASE u = who[k]
    BY <1>5, <2>1, <2>2 DEF Attach
  <2>3. CASE u # who[k]
    BY <1>0, <1>5, <2>1, <2>3, SessionAssumption DEF Attach
  <2>4. QED
    BY <2>2, <2>3
<1>6. ASSUME NEW k \in Conns, Moves(k) PROVE Good'
  <2>1. CASE ssl[u] = k
    BY <1>0, <1>6, <2>1 DEF Moves
  <2>2. CASE ssl[u] # k
    BY <1>0, <1>6, <2>2 DEF Moves
  <2>3. QED
    BY <2>1, <2>2
<1>7. ASSUME NEW k \in Conns, Frees(k) PROVE Good'
  <2>1. me[k] \in Users /\ u # me[k] /\ ssl'[u] = ssl[u]
    BY <1>7 DEF Frees
  <2>2. me[ssl[me[k]]] = me[k]
    BY <1>7, <2>1 DEF Frees, CachedConnection
  <2>3. ssl[u] # ssl[me[k]] /\ ssl[u] # k
    BY <1>0, <2>1, <2>2
  <2>4. QED
    BY <1>0, <1>7, <2>1, <2>3 DEF Frees
<1>8. ASSUME NEW k \in Conns, Offline(k) PROVE Good'
  BY <1>0, <1>8 DEF Offline
<1>9. QED
  BY <1>1, <1>2, <1>3, <1>4, <1>5, <1>6, <1>7, <1>8, Kinds

LEMMA ApartStep == SInv /\ [Next]_vars => Apart'
<1> SUFFICES ASSUME SInv, [Next]_vars, NEW j \in Conns, NEW k \in Conns,
                    (me[j] = me[k] /\ me[k] # NoUser /\ pc[j] # "done" /\ pc[k] # "done" /\ j # k)'
             PROVE  (k \in overlapping)'
  BY DEF Apart
<1>0. me[j] = me[k] /\ me[k] # NoUser /\ pc[j] # "done" /\ pc[k] # "done" => k \in overlapping
  BY DEF SInv, Apart
<1> USE DEF TypeOK, Typed, Goto, serves
<1>1. CASE Restart
  BY <1>1 DEF Restart
<1>2. CASE UNCHANGED <<is_online, ssl, heap, serves, pc, rd>>
  BY <1>0, <1>2
<1>3. ASSUME NEW i \in Conns, Accept(i) PROVE (k \in overlapping)'
  BY <1>0, <1>3 DEF Accept, SInv
<1>4. ASSUME NEW i \in Conns, FreeOwn(i), pc[i] \in {"login", "reject"} PROVE (k \in overlapping)'
  BY <1>0, <1>4 DEF FreeOwn, SInv
<1>5. ASSUME NEW i \in Conns, Attach(i) PROVE (k \in overlapping)'
  <2>1. \A x \in Conns : me[x] = who[i] /\ pc[x] # "done" => x \in ServedOn(who[i])
    BY DEF ServedOn
  <2>2. /\ me' = [me EXCEPT ![i] = who[i]] /\ pc[i] = "attach"
        /\ \A x \in Conns : x # i => pc'[x] = pc[x]
        /\ ServedOn(who[i]) # {} => overlapping' = overlapping \cup {i} \cup ServedOn(who[i])
        /\ ServedOn(who[i]) = {} => overlapping' = overlapping
    BY <1>5 DEF Attach, SInv
  <2>3. CASE k = i
    <3>1. j \in ServedOn(who[i])
      BY <2>1, <2>2, <2>3 DEF SInv
    <3>2. QED
      BY <2>2, <2>3, <3>1
  <2>4. CASE j = i
    <3>1. k \in ServedOn(who[i])
      BY <2>1, <2>2, <2>4 DEF SInv
    <3>2. QED
      BY <2>2, <3>1
  <2>5. CASE j # i /\ k # i
    BY <1>0, <2>2, <2>5 DEF SInv
  <2>6. QED
    BY <2>3, <2>4, <2>5
<1>6. ASSUME NEW i \in Conns, Moves(i) PROVE (k \in overlapping)'
  BY <1>0, <1>6 DEF Moves, SInv
<1>7. ASSUME NEW i \in Conns, Frees(i) PROVE (k \in overlapping)'
  BY <1>0, <1>7 DEF Frees, SInv
<1>8. ASSUME NEW i \in Conns, Offline(i) PROVE (k \in overlapping)'
  BY <1>0, <1>8 DEF Offline, SInv
<1>9. QED
  BY <1>1, <1>2, <1>3, <1>4, <1>5, <1>6, <1>7, <1>8, Kinds DEF SInv

LEMMA SInvInit == Init => SInv
BY TypeInit DEF Init, SInv, NotYet, CachedConnection, Apart, Joining

LEMMA SInvStep == SInv /\ [Next]_vars => SInv'
BY TypeStep, NotYetStep, CachedStep, ApartStep DEF SInv

(* Every step of a connection's thread, of a client and of the server's    *)
(* end keeps the invariant above.                                          *)
THEOREM Invariance == Spec => []SInv
<1>1. QED
  BY SInvInit, SInvStep, PTL DEF Spec

(* Whatever logins, bans, crashes and ends of connections: the SSL object  *)
(* in the client_t of a user is one that this user logged in on, that is   *)
(* not freed, and whose thread is still at work.                           *)
THEOREM SafePointer == Spec => []CachedConnection
<1>1. SInv => CachedConnection
  BY DEF SInv
<1>2. QED
  BY <1>1, Invariance, PTL

-----------------------------------------------------------------------------
(* Users served on one connection at a time *)

(* Once connections have overlapped, only a crash makes that forgotten.    *)
LEMMA OverlappingStep ==
  ASSUME SInv, [Next]_vars, ~Restart
  PROVE  overlapping \subseteq overlapping'
BY Kinds DEF SInv, Accept, FreeOwn, Attach, Moves, Frees, Offline, serves

LEMMA UndisturbedStep ==
  SInv /\ UndisturbedRead /\ [Next]_vars => UndisturbedRead'
<1> SUFFICES ASSUME SInv, UndisturbedRead, [Next]_vars, NEW k \in Conns,
                    (pc[k] = "reading" /\ k \notin overlapping)'
             PROVE  (rd[k] = k /\ heap[k] = "open")'
  BY DEF UndisturbedRead
<1> DEFINE Own == rd[k] = k /\ heap[k] = "open"
<1>0. ~Restart /\ k \notin overlapping
  <2>1. ~Restart
    BY DEF Restart
  <2>2. QED
    BY <2>1, OverlappingStep
<1>1. pc[k] = "reading" => Own
  BY <1>0 DEF UndisturbedRead
<1>2. ASSUME NEW j \in Conns, me[j] = me[k], me[k] # NoUser, pc[j] # "done", pc[k] # "done"
      PROVE  j = k
  BY <1>0, <1>2 DEF SInv, Apart
<1> USE DEF SInv, TypeOK, Typed, Placed, Goto, serves, Joining, Serving
<1>3. CASE UNCHANGED <<is_online, ssl, heap, serves, pc, rd>>
  BY <1>1, <1>3
<1>4. ASSUME NEW j \in Conns, Accept(j) PROVE Own'
  BY <1>1, <1>4 DEF Accept
<1>5. ASSUME NEW j \in Conns, FreeOwn(j), pc[j] \in {"login", "reject"} PROVE Own'
  BY <1>1, <1>5 DEF FreeOwn
<1>6. ASSUME NEW j \in Conns, Attach(j) PROVE Own'
  <2>1. j # k
    BY <1>6 DEF Attach
  <2>2. QED
    BY <1>1, <1>6, <2>1 DEF Attach
<1>7. ASSUME NEW j \in Conns, Moves(j) PROVE Own'
  <2>1. CASE j # k
    BY <1>1, <1>7, <2>1 DEF Moves
  <2>2. CASE j = k
    <3>1. /\ pc[k] = "loop" /\ ssl[me[k]] # NoConn /\ rd'[k] = ssl[me[k]]
          /\ heap' = heap
      BY <1>7, <2>2 DEF Moves
    <3>2. me[k] \in Users /\ me[k] # NoUser
      BY <3>1, SessionAssumption
    <3>3. /\ ssl[me[k]] \in Conns /\ pc[ssl[me[k]]] \in Serving
          /\ me[ssl[me[k]]] = me[k] /\ heap[ssl[me[k]]] = "open"
      BY <3>1, <3>2 DEF CachedConnection
    <3>4. ssl[me[k]] = k
      BY <1>2, <3>1, <3>2, <3>3
    <3>5. QED
      BY <3>1, <3>3, <3>4
  <2>3. QED
    BY <2>1, <2>2
<1>8. ASSUME NEW j \in Conns, Frees(j) PROVE Own'
  <2>1. pc[k] = "reading" /\ j # k /\ pc[j] = "free" /\ rd' = rd
    BY <1>8 DEF Frees
  <2>2. /\ me[j] \in Users /\ ssl[me[j]] \in Conns
        /\ me[ssl[me[j]]] = me[j] /\ heap' = [heap EXCEPT ![ssl[me[j]]] = "freed"]
    BY <1>8 DEF Frees, CachedConnection
  <2>3. me[k] # NoUser
    BY <2>1, SessionAssumption
  <2>4. ssl[me[j]] # k
    BY <1>2, <2>1, <2>2, <2>3
  <2>5. QED
    BY <1>1, <2>1, <2>2, <2>4
<1>9. ASSUME NEW j \in Conns, Offline(j) PROVE Own'
  BY <1>1, <1>9 DEF Offline
<1>10. QED
  BY <1>0, <1>3, <1>4, <1>5, <1>6, <1>7, <1>8, <1>9, Kinds

(* Although nobody holds a mutex in SSL_read: as long as a user is served  *)
(* on one connection at a time, its thread reads that one, and it is not   *)
(* freed.                                                                  *)
THEOREM ReadsAreSafe == Spec => []UndisturbedRead
<1>1. Init => UndisturbedRead
  BY DEF Init, UndisturbedRead
<1>2. SInv /\ UndisturbedRead /\ [Next]_vars => UndisturbedRead'
  BY UndisturbedStep
<1>3. QED
  BY <1>1, <1>2, Invariance, PTL DEF Spec

(* the thread that will clear is_online *)
Ending(u) == \E k \in Conns : me[k] = u /\ pc[k] = "offline"

LEMMA ShownStep ==
  ASSUME SInv, OnlineIsConnected, [Next]_vars, NEW u \in Users, is_online'[u], ssl'[u] = NoConn
  PROVE  Ending(u)'
<1>0. is_online[u] /\ ssl[u] = NoConn => Ending(u)
  BY DEF OnlineIsConnected, Ending
<1> USE DEF SInv, TypeOK, Typed, Placed, Goto, serves, Joining, Serving
<1>1. CASE Restart
  BY <1>1 DEF Restart
<1>2. CASE UNCHANGED <<is_online, ssl, heap, serves, pc, rd>>
  BY <1>0, <1>2 DEF Ending
<1>3. ASSUME NEW k \in Conns, Accept(k) PROVE Ending(u)'
  BY <1>0, <1>3 DEF Accept, cache, Ending
<1>4. ASSUME NEW k \in Conns, FreeOwn(k), pc[k] \in {"login", "reject"} PROVE Ending(u)'
  BY <1>0, <1>4 DEF FreeOwn, cache, Ending
<1>5. ASSUME NEW k \in Conns, Attach(k) PROVE Ending(u)'
  <2>1. who[k] \in Users /\ me[k] = NoUser /\ k # NoConn
    BY <1>5, SessionAssumption DEF Attach, NotYet, Known
  <2>2. u # who[k]
    BY <1>5, <2>1 DEF Attach
  <2>3. ssl'[u] = ssl[u] /\ is_online'[u] = is_online[u]
    BY <1>5, <2>1, <2>2 DEF Attach
  <2>4. PICK x \in Conns : me[x] = u /\ pc[x] = "offline"
    BY <1>0, <2>3 DEF Ending
  <2>5. me'[x] = u /\ pc'[x] = "offline"
    BY <1>5, <2>4 DEF Attach
  <2>6. QED
    BY <2>5 DEF Ending
<1>6. ASSUME NEW k \in Conns, Moves(k) PROVE Ending(u)'
  BY <1>0, <1>6 DEF Moves, Ending
<1>7. ASSUME NEW k \in Conns, Frees(k) PROVE Ending(u)'
  <2>1. CASE me[k] = u
    BY <1>7, <2>1 DEF Frees, Ending
  <2>2. CASE me[k] # u
    BY <1>0, <1>7, <2>2 DEF Frees, Ending
  <2>3. QED
    BY <2>1, <2>2
<1>8. ASSUME NEW k \in Conns, Offline(k) PROVE Ending(u)'
  <2>1. me[k] \in Users /\ me[k] # u /\ is_online[u] /\ ssl[u] = NoConn
    BY <1>8 DEF Offline
  <2>2. PICK x \in Conns : me[x] = u /\ pc[x] = "offline"
    BY <1>0, <2>1 DEF Ending
  <2>3. me'[x] = u /\ pc'[x] = "offline"
    BY <1>8, <2>1, <2>2 DEF Offline
  <2>4. QED
    BY <2>3 DEF Ending
<1>9. QED
  BY <1>1, <1>2, <1>3, <1>4, <1>5, <1>6, <1>7, <1>8, Kinds

LEMMA ConnectedStep ==
  ASSUME SInv, OnlineIsConnected, [Next]_vars, NEW u \in Users,
         ssl'[u] \notin overlapping' \cup {NoConn}
  PROVE  is_online'[u]
<1>1. CASE Restart
  BY <1>1 DEF Restart
<1>2. SUFFICES ASSUME ~Restart PROVE is_online'[u]
  BY <1>1
<1>3. ssl[u] # NoConn /\ ssl[u] = ssl'[u] => is_online[u]
  BY <1>2, OverlappingStep DEF OnlineIsConnected
<1> USE DEF SInv, TypeOK, Typed, Placed, Goto, serves, Joining, Serving
<1>4. CASE UNCHANGED <<is_online, ssl, heap, serves, pc, rd>>
  BY <1>3, <1>4
<1>5. ASSUME NEW k \in Conns, Accept(k) \/ FreeOwn(k) PROVE is_online'[u]
  BY <1>3, <1>5 DEF Accept, FreeOwn, cache
<1>6. ASSUME NEW k \in Conns, Attach(k) PROVE is_online'[u]
  <2>1. who[k] \in Users
    BY <1>6 DEF Attach, Known
  <2>2. CASE u = who[k]
    BY <1>6, <2>1, <2>2 DEF Attach
  <2>3. CASE u # who[k]
    BY <1>3, <1>6, <2>1, <2>3 DEF Attach
  <2>4. QED
    BY <2>2, <2>3
<1>7. ASSUME NEW k \in Conns, Moves(k) \/ Frees(k) PROVE is_online'[u]
  BY <1>3, <1>7 DEF Moves, Frees
<1>8. ASSUME NEW k \in Conns, Offline(k) PROVE is_online'[u]
  <2>1. /\ me[k] \in Users /\ pc[k] = "offline" /\ ssl' = ssl /\ overlapping' = overlapping
        /\ is_online' = [is_online EXCEPT ![me[k]] = FALSE]
    BY <1>8 DEF Offline
  <2>2. /\ ssl[u] \in Conns /\ ssl[u] \notin overlapping
        /\ me[ssl[u]] = u /\ pc[ssl[u]] \in Serving
    BY <2>1 DEF CachedConnection
  <2>3. me[k] # u
    <3>1. SUFFICES ASSUME me[k] = u PROVE FALSE
      OBVIOUS
    <3>2. u # NoUser /\ ssl[u] # k /\ pc[ssl[u]] # "done"
      BY <2>1, <2>2, SessionAssumption
    <3>3. QED
      BY <2>1, <2>2, <3>1, <3>2 DEF Apart
  <2>4. QED
    BY <1>3, <2>1, <2>3
<1>9. QED
  BY <1>2, <1>4, <1>5, <1>6, <1>7, <1>8, Kinds

(* Nobody stays shown online without a connection, and a user served on    *)
(* one connection at a time is shown online for as long as there is one.   *)
THEOREM OnlineMeansConnected == Spec => []OnlineIsConnected
<1>1. Init => OnlineIsConnected
  BY DEF Init, OnlineIsConnected
<1>2. ASSUME SInv, OnlineIsConnected, [Next]_vars PROVE OnlineIsConnected'
  <2> SUFFICES ASSUME NEW u \in Users
               PROVE  /\ is_online'[u] /\ ssl'[u] = NoConn => Ending(u)'
                      /\ ssl'[u] \notin overlapping' \cup {NoConn} => is_online'[u]
    BY DEF OnlineIsConnected, Ending
  <2>1. QED
    BY <1>2, ShownStep, ConnectedStep
<1>3. QED
  BY <1>1, <1>2, Invariance, PTL DEF Spec

-----------------------------------------------------------------------------
(* Session ids *)

LEMMA SessionsStep ==
  ASSUME TypeOK, [Next]_vars
  PROVE  \/ session_id_to_id' = session_id_to_id
         \/ session_id_to_id' = [s \in Sids |-> NoUser]
         \/ \E k \in Conns : DropSession(k) \/ NewSession(k)
<1>1. ASSUME NEW k \in Conns, Thread(k)
      PROVE  \/ session_id_to_id' = session_id_to_id
             \/ session_id_to_id' = [s \in Sids |-> NoUser]
             \/ DropSession(k) \/ NewSession(k)
  <2>1. CASE Restart
    BY <2>1 DEF Restart
  <2>2. CASE (\E u \in Users : PasswordLogin(k, u) \/ SetActive(k, u))
             \/ \E s \in Sids, n \in Names : SessionLogin(k, s, n)
    BY <2>2 DEF PasswordLogin, SetActive, SessionLogin
  <2>3. CASE LoginReadFails(k) \/ BadLogin(k) \/ Reject(k) \/ SessionActive(k) \/ SessionExpiry(k)
             \/ CheckActive(k) \/ LookAgain(k) \/ Attach(k) \/ Stamp(k)
    BY <2>1, <2>3 DEF LoginReadFails, BadLogin, Reject, FreeOwn, SessionActive, SessionExpiry,
       CheckActive, LookAgain, Attach, Stamp
  <2>4. CASE Answer(k) \/ Recheck(k) \/ Loop(k) \/ Receive(k) \/ ReadEnds(k) \/ ReadFreed(k)
             \/ Exit(k) \/ HandleOther(k) \/ Close(k) \/ Free(k) \/ Offline(k)
    BY <2>1, <2>4 DEF Answer, Recheck, Loop, Receive, ReadEnds, ReadFreed, Exit, HandleOther,
       Close, Free, Offline
  <2>5. QED
    BY <1>1, <2>2, <2>3, <2>4 DEF Thread
<1>2. QED
  BY <1>1 DEF Next, Accept, PeerCloses, Expire, StopServer, Restart, vars

(* No login ever takes over the session id of another user: an id is given *)
(* out only while the table holds nobody for it, and then keeps its user   *)
(* until it is deleted.                                                    *)
THEOREM SessionsKeepUser == Spec => SessionKeepsUser
<1>1. ASSUME TypeOK, [Next]_vars, NEW s \in Sids, session_id_to_id[s] # NoUser
      PROVE  session_id_to_id'[s] \in {session_id_to_id[s], NoUser}
  BY <1>1, SessionsStep DEF TypeOK, Typed, DropSession, NewSession
<1>2. TypeOK /\ [Next]_vars =>
        [\A s \in Sids : session_id_to_id[s] # NoUser =>
           session_id_to_id'[s] \in {session_id_to_id[s], NoUser}]_vars
  BY <1>1
<1>3. QED
  BY <1>2, TypeCorrect, PTL DEF Spec, SessionKeepsUser
==================================================================================
