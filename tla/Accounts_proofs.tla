---------------------------- MODULE Accounts_proofs ----------------------------
(***************************************************************************)
(* Proofs about Accounts, for any number of threads, users, logins and     *)
(* nicknames, and any LIKE under which the first logins are told apart.    *)
(***************************************************************************)
EXTENDS Accounts, FiniteSetTheorems, SequenceTheorems, TLAPS

RowSet == [login : Logins, nickname : Logins \cup Nicknames, password : Logins]

(* Whom a login finds was there before its owner only if it is its owner   *)
(* or nobody had looked, and a hash is that of its owner's login.          *)
OwnRows ==
  \A i \in Users :
    /\ i \notin clashing => \A j \in Users : <<rows[i].login, rows[j].login>> \in Like => i <= j
    /\ rows[i].password = rows[i].login

(* UNIQUE *)
Distinct == \A i, j \in Users : rows[i].login = rows[j].login => i = j

(* in the database and in the tables of the server *)
Settled(i) == i \in Users /\ ~Creating(i)

(* who is not in the tables yet has not been renamed *)
NotRenamed == \A i \in Users : Creating(i) => rows[i].nickname = rows[i].login

(* login_to_id leads to a user of that login                               *)
Mapped ==
  \A l \in Logins : loginToId[l] # 0 => Settled(loginToId[l]) /\ rows[loginToId[l]].login = l

(* only users of the tables are connected, and only their threads work     *)
Serving ==
  /\ \A t \in Threads : IF me[t] = 0 THEN Step(t, "idle") ELSE Settled(me[t])
  /\ \A u \in connected : Settled(u)

(* what the request of a thread has read is still true                     *)
Remains(t) ==
  /\ work[t].step \in {"cache", "announce", "walk"} => work[t].id \in Users
  /\ Step(t, "password") => work[t].id \in Users /\ work[t].hash = rows[work[t].id].login

Pending == \A t \in Threads : Remains(t)

(* a change of a nickname that no other overlapped *)
Single(t) ==
  /\ rows[me[t]].nickname = work[t].name
  /\ \A s \in Threads : Step(s, "rename") /\ me[s] = me[t] => s = t

Singles == \A t \in Threads : Step(t, "rename") /\ me[t] \notin overlapped => Single(t)

OneCreator ==
  \A t, s \in Threads :
    Step(t, "cache") /\ Step(s, "cache") /\ work[t].id = work[s].id => t = s

Knows(u, i) == i \in roster[u] \cup ignored[u] \/ ToBeTold(i, u)

(* a list under way has every user who was not announced                   *)
Listing ==
  \A t \in Threads : Step(t, "list") /\ Alone(me[t]) =>
    \A i \in Users \ {me[t]} : i \in work[t].ids \/ Knows(me[t], i)

RowsOK == OwnRows /\ Distinct
Told   == Listing /\ NobodyMissing

Inv ==
  /\ TypeOK /\ RowsOK /\ NotRenamed /\ Mapped /\ Serving /\ Pending /\ Singles /\ OneCreator
  /\ CachesMatchDb /\ Told

-----------------------------------------------------------------------------
(* The table of users *)

LEMMA Basics ==
  /\ Len(Initial) \in Nat \ {0} /\ DOMAIN Initial = 1..Len(Initial)
  /\ \A i \in DOMAIN Initial : Initial[i] \in Logins
  /\ MaxUsers \in Nat /\ Len(Initial) <= MaxUsers
<1>1. Initial \in Seq(Logins) /\ Initial # <<>>
  BY AccountsAssumption
<1>2. Len(Initial) \in Nat \ {0} /\ DOMAIN Initial = 1..Len(Initial)
  BY <1>1, EmptySeq, LenProperties
<1>3. \A i \in DOMAIN Initial : Initial[i] \in Logins
  BY <1>1
<1> QED
  BY <1>2, <1>3, AccountsAssumption

LEMMA RowTypes ==
  ASSUME TypeOK
  PROVE  /\ Len(rows) \in Nat /\ Users = 1..Len(rows) /\ Len(Initial) <= Len(rows)
         /\ Len(rows) <= MaxUsers /\ Users \subseteq Ids
         /\ \A i \in Users : rows[i] \in RowSet
<1>1. rows \in Seq(RowSet)
  BY DEF TypeOK, RowSet
<1>2. Len(rows) \in Nat /\ Users = 1..Len(rows) /\ \A i \in Users : rows[i] \in RowSet
  BY <1>1, LenProperties, ElementOfSeq DEF Users
<1>3. Len(rows) \in Len(Initial)..MaxUsers
  BY DEF TypeOK
<1> QED
  BY <1>2, <1>3, Basics DEF Ids

(* the row of a user, changed                                              *)
Changed(i, r) ==
  /\ r \in RowSet /\ r.login = rows[i].login /\ r.password = rows[i].login
  /\ rows' = [rows EXCEPT ![i] = r] /\ clashing' = clashing

(* a new row                                                               *)
Added(l) ==
  /\ Len(rows) < MaxUsers /\ rows' = Append(rows, Row(l))
  /\ \A i \in Users : rows[i].login # l
  /\ clashing \subseteq clashing' /\ clashing' \subseteq clashing \cup {Len(rows) + 1}
  /\ Alike(l) = {} \/ Len(rows) + 1 \in clashing'

LEMMA AddedRow ==
  ASSUME TypeOK, RowsOK, NEW l \in Logins, Added(l)
  PROVE  /\ rows' \in Seq(RowSet) /\ Len(rows') = Len(rows) + 1 /\ Len(rows') <= MaxUsers
         /\ Users' = Users \cup {Len(rows) + 1} /\ Len(rows) + 1 \notin Users
         /\ \A i \in Users : rows'[i] = rows[i]
         /\ rows'[Len(rows) + 1] = Row(l)
         /\ RowsOK'
<1>1. rows \in Seq(RowSet) /\ Row(l) \in RowSet
  BY DEF TypeOK, RowSet, Row
<1>2. /\ rows' \in Seq(RowSet) /\ Len(rows') = Len(rows) + 1
      /\ \A i \in 1..Len(rows) : rows'[i] = rows[i]
      /\ rows'[Len(rows) + 1] = Row(l)
  BY <1>1, AppendProperties DEF Added
<1>3. DOMAIN rows' = 1..(Len(rows) + 1)
  BY <1>2, LenProperties
<1>4. Len(rows') <= MaxUsers
  BY <1>2, RowTypes, Basics DEF Added
<1>5. Users' = Users \cup {Len(rows) + 1} /\ Len(rows) + 1 \notin Users
  BY <1>3, RowTypes DEF Users
<1>6. Len(rows) + 1 \in clashing' \/ \A i \in Users : <<l, rows[i].login>> \notin Like
  BY DEF Added, Alike
<1>7. OwnRows'
  <2> SUFFICES ASSUME NEW i \in Users'
               PROVE  /\ i \notin clashing' =>
                           \A j \in Users' : <<rows'[i].login, rows'[j].login>> \in Like => i <= j
                      /\ rows'[i].password = rows'[i].login
    BY DEF OwnRows
  <2>1. CASE i \in Users
    <3>1. /\ i \notin clashing =>
               \A j \in Users : <<rows[i].login, rows[j].login>> \in Like => i <= j
          /\ rows[i].password = rows[i].login
      BY <2>1 DEF RowsOK, OwnRows
    <3>2. i \notin clashing' => i \notin clashing
      BY DEF Added
    <3> QED
      BY <1>2, <1>5, <2>1, <3>1, <3>2, RowTypes
  <2>2. CASE i = Len(rows) + 1
    <3>1. rows'[i].login = l /\ rows'[i].password = l
      BY <1>2, <2>2 DEF Row
    <3> QED
      BY <1>2, <1>5, <1>6, <2>2, <3>1, RowTypes
  <2> QED
    BY <1>5, <2>1, <2>2
<1>8. Distinct'
  <2>1. \A i \in Users : rows'[i].login = rows[i].login /\ rows'[i].login # l
    BY <1>2, RowTypes DEF Added
  <2>2. rows'[Len(rows) + 1].login = l
    BY <1>2 DEF Row
  <2> QED
    BY <1>5, <2>1, <2>2 DEF RowsOK, Distinct
<1> QED
  BY <1>2, <1>4, <1>5, <1>7, <1>8, RowTypes DEF RowsOK

LEMMA ChangedRow ==
  ASSUME TypeOK, RowsOK, NEW i \in Users, NEW r, Changed(i, r)
  PROVE  /\ rows' \in Seq(RowSet) /\ Len(rows') = Len(rows)
         /\ Users' = Users
         /\ \A j \in Users : rows'[j] = IF j = i THEN r ELSE rows[j]
         /\ RowsOK'
<1>1. rows \in Seq(RowSet) /\ r \in RowSet /\ i \in 1..Len(rows)
  BY RowTypes DEF TypeOK, RowSet, Changed
<1>2. /\ rows' \in Seq(RowSet) /\ Len(rows') = Len(rows)
      /\ \A j \in 1..Len(rows) : rows'[j] = IF j = i THEN r ELSE rows[j]
  BY <1>1, ExceptSeq DEF Changed
<1>3. Users' = Users
  BY <1>2, RowTypes, LenProperties DEF Users
<1>4. \A j \in Users : rows'[j].login = rows[j].login /\ rows'[j].password = rows[j].login
  BY <1>2, RowTypes DEF Changed, RowsOK, OwnRows
<1>5. OwnRows'
  BY <1>3, <1>4 DEF RowsOK, OwnRows, Changed
<1>6. Distinct'
  BY <1>3, <1>4 DEF RowsOK, Distinct
<1> QED
  BY <1>2, <1>3, <1>5, <1>6, RowTypes DEF RowsOK

LEMMA RenameChanges ==
  ASSUME TypeOK, RowsOK, NEW i \in Users, NEW n \in Nicknames,
         rows' = [rows EXCEPT ![i].nickname = n], clashing' = clashing
  PROVE  Changed(i, [rows[i] EXCEPT !.nickname = n])
<1>1. rows[i] \in RowSet /\ rows[i].password = rows[i].login
  BY RowTypes DEF RowsOK, OwnRows
<1> QED
  BY <1>1 DEF Changed, RowSet

LEMMA PasswordChanges ==
  ASSUME TypeOK, RowsOK, NEW i \in Users, NEW h, h = rows[i].login,
         rows' = [rows EXCEPT ![i].password = h], clashing' = clashing
  PROVE  Changed(i, [rows[i] EXCEPT !.password = h])
<1>1. rows[i] \in RowSet
  BY RowTypes
<1> QED
  BY <1>1 DEF Changed, RowSet

LEMMA CreateAdds ==
  ASSUME NEW t, NEW l \in NewLogins, CreateRow(t, l)
  PROVE  \/ UNCHANGED <<rows, clashing, work>>
         \/ Added(l) /\ Then(t, [step |-> "cache", id |-> Len(rows) + 1])
<1>1. PICK selected \in {TRUE, ~DbMayFail} :
        /\ ~AlreadyExists(l, selected)
        /\ \/ /\ \A i \in Users : rows[i].login # l
              /\ Len(rows) < MaxUsers
              /\ rows' = Append(rows, Row(l))
              /\ clashing' = IF selected \/ Alike(l) = {} THEN clashing
                                                          ELSE clashing \cup {Len(rows) + 1}
              /\ Then(t, [step |-> "cache", id |-> Len(rows) + 1])
           \/ UNCHANGED <<table, work>>
  BY DEF CreateRow
<1>2. CASE UNCHANGED <<table, work>>
  BY <1>2 DEF table
<1>3. CASE Alike(l) = {}
  BY <1>1, <1>3 DEF Added, table
<1>4. CASE Alike(l) # {}
  <2>1. ~selected
    BY <1>1, <1>4 DEF AlreadyExists
  <2> QED
    BY <1>1, <1>4, <2>1 DEF Added, table
<1> QED
  BY <1>3, <1>4

-----------------------------------------------------------------------------
(* Type correctness *)

LEMMA WorkTypes ==
  ASSUME TypeOK, NEW t \in Threads
  PROVE  /\ work[t].step \in {"cache", "announce"} =>
              work[t] \in [step : {"cache", "announce"}, id : Ids]
         /\ Step(t, "walk") => work[t] \in [step : {"walk"}, id : Ids, left : SUBSET Ids]
         /\ Step(t, "rename") => work[t] \in [step : {"rename"}, name : Nicknames]
         /\ Step(t, "password") => work[t] \in [step : {"password"}, id : Ids, hash : Logins]
         /\ Step(t, "list") => work[t] \in [step : {"list"}, ids : SUBSET Ids]
<1>1. work[t] \in Works
  BY DEF TypeOK
<1> QED
  BY <1>1 DEF Works, NoWork, Step

LEMMA ThenTypes ==
  ASSUME TypeOK, NEW t \in Threads, NEW w \in Works, Then(t, w)
  PROVE  work' \in [Threads -> Works]
BY DEF TypeOK, Then

(* the user whose request a thread serves *)
LEMMA Served ==
  ASSUME TypeOK, Serving, NEW t \in Threads, me[t] \in connected \/ ~Step(t, "idle")
  PROVE  /\ me[t] # 0 /\ me[t] \in Users /\ me[t] \in Ids /\ ~Creating(me[t])
         /\ rows[me[t]] \in RowSet
<1>1. me[t] # 0
  BY DEF Serving, TypeOK, Ids
<1> QED
  BY <1>1, RowTypes DEF Serving, Settled

LEMMA ShownTypes ==
  ASSUME TypeOK, NEW u, NothingShown(u)
  PROVE  /\ roster' \in [Ids -> SUBSET Ids] /\ ignored' \in [Ids -> SUBSET Ids]
         /\ ready' \subseteq listed' /\ listed' \subseteq connected \ {u}
BY DEF TypeOK, NothingShown

LEMMA LoadTypes ==
  ASSUME Load, rows \in Seq(RowSet), rows' = rows
  PROVE  /\ clients' \in [Ids -> Logins \cup Nicknames \cup {None}]
         /\ \A l \in Logins : loginToId'[l] # 0 =>
              loginToId'[l] \in DOMAIN rows /\ rows[loginToId'[l]].login = l
         /\ \A l \in Logins : loginToId'[l] = 0 => \A i \in DOMAIN rows : rows[i].login # l
         /\ DOMAIN loginToId' = Logins /\ loginToId' = [l \in Logins |-> loginToId'[l]]
<1>1. \A i \in DOMAIN rows : i \in Nat \ {0} /\ rows[i] \in RowSet
  BY LenProperties, ElementOfSeq
<1>2. clients' \in [Ids -> Logins \cup Nicknames \cup {None}]
  BY <1>1 DEF Load, RowSet
<1>3. ASSUME NEW l \in Logins
      PROVE  /\ loginToId'[l] # 0 => loginToId'[l] \in DOMAIN rows /\ rows[loginToId'[l]].login = l
             /\ loginToId'[l] = 0 => \A i \in DOMAIN rows : rows[i].login # l
  <2>1. loginToId'[l] = IF \E i \in DOMAIN rows : rows[i].login = l
                        THEN CHOOSE i \in DOMAIN rows : rows[i].login = l ELSE 0
    BY DEF Load
  <2>2. CASE \E i \in DOMAIN rows : rows[i].login = l
    BY <1>1, <2>1, <2>2
  <2>3. CASE ~ \E i \in DOMAIN rows : rows[i].login = l
    BY <2>1, <2>3
  <2> QED
    BY <2>2, <2>3
<1>4. DOMAIN loginToId' = Logins /\ loginToId' = [l \in Logins |-> loginToId'[l]]
  BY DEF Load
<1> QED
  BY <1>2, <1>3, <1>4

LEMMA RestartTypes ==
  ASSUME TypeOK, Restart
  PROVE  TypeOK'
<1>1. rows \in Seq(RowSet) /\ rows' = rows /\ clashing' = clashing /\ Load
  BY DEF TypeOK, Restart, RowSet, table
<1>2. loginToId' \in [Logins -> {0} \cup Ids]
  BY <1>1, LoadTypes, RowTypes DEF Users
<1>3. work' \in [Threads -> Works]
  BY DEF Restart, NobodyConnected, Works
<1> QED
  BY <1>1, <1>2, <1>3, LoadTypes DEF TypeOK, Restart, NobodyConnected

LEMMA TypeStep ==
  ASSUME TypeOK, RowsOK, Serving, Pending, Mapped, [Next]_vars
  PROVE  TypeOK' /\ RowsOK'
<1> DEFINE Same == rows' = rows /\ clashing' = clashing
           RowsType == /\ rows' \in Seq(RowSet) /\ Len(rows') \in Len(Initial)..MaxUsers /\ RowsOK'
           Goal == TypeOK' /\ RowsOK'
<1>1. Same => RowsType
  BY DEF TypeOK, RowSet, RowsOK, OwnRows, Distinct, Users
<1>2. ASSUME NEW i \in Users, NEW r, Changed(i, r)
      PROVE  RowsType
  BY <1>2, ChangedRow DEF TypeOK
<1>3. ASSUME NEW t \in Threads, NEW l \in NewLogins, CreateRow(t, l)
      PROVE  Goal
  <2>1. l \in Logins
    BY DEF Logins
  <2>2. CASE Added(l) /\ Then(t, [step |-> "cache", id |-> Len(rows) + 1])
    <3>2. /\ rows' \in Seq(RowSet) /\ Len(rows') = Len(rows) + 1 /\ Len(rows') <= MaxUsers /\ RowsOK'
      BY <2>1, <2>2, AddedRow
    <3>3. Len(rows) + 1 \in Ids
      BY <3>2, RowTypes, Basics DEF Ids
    <3>4. [step |-> "cache", id |-> Len(rows) + 1] \in Works
      BY <3>3 DEF Works
    <3>5. work' \in [Threads -> Works]
      BY <2>2, <3>4, ThenTypes
    <3>6. clashing' \subseteq Ids
      BY <2>2, <3>3 DEF Added, TypeOK
    <3> QED
      BY <1>3, <3>2, <3>5, <3>6, RowTypes, Basics DEF TypeOK, RowSet, CreateRow, caches, views, shown
  <2>3. CASE UNCHANGED <<rows, clashing, work>>
    BY <1>1, <1>3, <2>3 DEF TypeOK, RowSet, CreateRow, caches, views, shown
  <2> QED
    BY <1>3, <2>2, <2>3, CreateAdds
<1>4. ASSUME NEW t \in Threads, CacheUser(t)
      PROVE  Goal
  <2> DEFINE i == work[t].id
  <2>1. i \in Users /\ i \in Ids /\ rows[i] \in RowSet
    BY <1>4, RowTypes DEF CacheUser, Pending, Remains, Step
  <2>2. [step |-> "announce", id |-> i] \in Works
    BY <2>1 DEF Works
  <2>3. work' \in [Threads -> Works]
    BY <1>4, <2>2, ThenTypes DEF CacheUser
  <2>4. /\ clients' \in [Ids -> Logins \cup Nicknames \cup {None}]
        /\ loginToId' \in [Logins -> {0} \cup Ids]
    BY <1>4, <2>1 DEF CacheUser, TypeOK, RowSet
  <2> QED
    BY <1>1, <1>4, <2>3, <2>4 DEF TypeOK, RowSet, CacheUser, table, views, shown
<1>5. ASSUME NEW t \in Threads, AnnounceBegin(t)
      PROVE  Goal
  <2>1. [step |-> "walk", id |-> work[t].id,
         left |-> {u \in Ids : clients[u] # None} \ {me[t]}] \in Works
    BY <1>5, WorkTypes DEF AnnounceBegin, Step, Works
  <2>2. work' \in [Threads -> Works]
    BY <1>5, <2>1, ThenTypes DEF AnnounceBegin
  <2> QED
    BY <1>1, <1>5, <2>2 DEF TypeOK, RowSet, AnnounceBegin, table, caches, views, shown
<1>6. ASSUME NEW t \in Threads, NEW u \in Ids, Announce(t, u)
      PROVE  Goal
  <2>1. work[t] \in [step : {"walk"}, id : Ids, left : SUBSET Ids]
    BY <1>6, WorkTypes DEF Announce
  <2>2. [work[t] EXCEPT !.left = @ \ {u}] \in Works
    BY <2>1 DEF Works
  <2>3. work' \in [Threads -> Works]
    BY <1>6, <2>2, ThenTypes DEF Announce
  <2>4. roster' \in [Ids -> SUBSET Ids]
    BY <1>6, <2>1 DEF Announce, TypeOK
  <2> QED
    BY <1>1, <1>6, <2>3, <2>4 DEF TypeOK, RowSet, Announce, table, caches
<1>7. ASSUME NEW t \in Threads, AnnounceEnd(t)
      PROVE  Goal
  <2>1. work' \in [Threads -> Works]
    BY <1>7, ThenTypes DEF AnnounceEnd, Done, Works
  <2>2. work[t] \in [step : {"walk"}, id : Ids, left : SUBSET Ids]
    BY <1>7, WorkTypes DEF AnnounceEnd
  <2>3. roster' \in [Ids -> SUBSET Ids]
    BY <1>7, <2>2 DEF AnnounceEnd, TypeOK
  <2>4. ignored' \in [Ids -> SUBSET Ids]
    BY <1>7, <2>2 DEF AnnounceEnd, TypeOK
  <2> QED
    BY <1>1, <1>7, <2>1, <2>3, <2>4 DEF TypeOK, RowSet, AnnounceEnd, table, caches
<1>8. ASSUME NEW t \in Threads, NEW n \in Nicknames, RenameRow(t, n)
      PROVE  Goal
  <2>0. me[t] \in Users /\ me[t] \in Ids
    BY <1>8, Served DEF RenameRow
  <2>1. CASE /\ rows' = [rows EXCEPT ![me[t]].nickname = n] /\ overlapped' \subseteq overlapped \cup {me[t]}
             /\ Then(t, [step |-> "rename", name |-> n])
    <3>1. RowsType
      BY <1>2, <1>8, <2>0, <2>1, RenameChanges DEF RenameRow
    <3>2. work' \in [Threads -> Works]
      BY <2>1, ThenTypes DEF Works
    <3> QED
      BY <1>8, <2>0, <2>1, <3>1, <3>2 DEF TypeOK, RowSet, RenameRow, caches, views, shown
  <2>2. CASE UNCHANGED <<rows, overlapped, work>>
    BY <1>1, <1>8, <2>2 DEF TypeOK, RowSet, RenameRow, caches, views, shown
  <2> QED
    BY <1>8, <2>1, <2>2 DEF RenameRow
<1>9. ASSUME NEW t \in Threads, RenameCached(t)
      PROVE  Goal
  <2>1. work' \in [Threads -> Works]
    BY <1>9, ThenTypes DEF RenameCached, Done, Works
  <2>2. clients' \in [Ids -> Logins \cup Nicknames \cup {None}]
    BY <1>9, WorkTypes DEF RenameCached, TypeOK
  <2> QED
    BY <1>1, <1>9, <2>1, <2>2 DEF TypeOK, RowSet, RenameCached, table, views, shown
<1>10. ASSUME NEW t \in Threads, ChangePassword(t)
       PROVE  Goal
  <2>1. me[t] \in Users
    BY <1>10, Served DEF ChangePassword
  <2>2. RowsType
    BY <1>2, <1>10, <2>1, PasswordChanges DEF ChangePassword
  <2> QED
    BY <1>10, <2>2 DEF TypeOK, RowSet, ChangePassword, caches, views, shown
<1>11. ASSUME NEW t \in Threads, NEW l \in Logins, FindUser(t, l)
       PROVE  Goal
  <2>1. [step |-> "password", id |-> loginToId[l], hash |-> l] \in Works
    BY <1>11 DEF FindUser, TypeOK, Works
  <2>2. work' \in [Threads -> Works]
    BY <1>11, <2>1, ThenTypes DEF FindUser
  <2> QED
    BY <1>1, <1>11, <2>2 DEF TypeOK, RowSet, FindUser, table, caches, views, shown
<1>12. ASSUME NEW t \in Threads, SetPassword(t)
       PROVE  Goal
  <2>1. work' \in [Threads -> Works]
    BY <1>12, ThenTypes DEF SetPassword, Done, Works
  <2>2. work[t].id \in Users /\ work[t].hash = rows[work[t].id].login
    BY <1>12 DEF SetPassword, Pending, Remains
  <2>3. RowsType
    BY <1>1, <1>2, <1>12, <2>2, PasswordChanges DEF SetPassword
  <2> QED
    BY <1>12, <2>1, <2>3 DEF TypeOK, RowSet, SetPassword, caches, views, shown
<1>13. ASSUME NEW t \in Threads, ListRows(t)
       PROVE  Goal
  <2>1. [step |-> "list", ids |-> Users \ {me[t]}] \in Works
    BY RowTypes DEF Works
  <2>2. work' \in [Threads -> Works]
    BY <1>13, <2>1, ThenTypes DEF ListRows
  <2> QED
    BY <1>1, <1>13, <2>2 DEF TypeOK, RowSet, ListRows, table, caches, views, shown
<1>14. ASSUME NEW t \in Threads, ListReply(t)
       PROVE  Goal
  <2>1. work' \in [Threads -> Works]
    BY <1>14, ThenTypes DEF ListReply, Done, Works
  <2>2. work[t] \in [step : {"list"}, ids : SUBSET Ids]
    BY <1>14, WorkTypes DEF ListReply
  <2>3. roster' \in [Ids -> SUBSET Ids]
    BY <1>14, <2>2 DEF ListReply, TypeOK
  <2>4. listed' \subseteq connected /\ listed \subseteq listed'
    BY <1>14 DEF ListReply, TypeOK
  <2> QED
    BY <1>1, <1>14, <2>1, <2>3, <2>4 DEF TypeOK, RowSet, ListReply, table, caches
<1>15. ASSUME NEW t \in Threads, StartEnds(t)
       PROVE  Goal
  BY <1>1, <1>15 DEF TypeOK, RowSet, StartEnds, table, caches
<1>16. ASSUME NEW t \in Threads, NEW l \in Logins, LogIn(t, l)
       PROVE  Goal
  <2>1. loginToId[l] \in Ids /\ NothingShown(loginToId[l])
    BY <1>16 DEF LogIn, TypeOK
  <2>2. /\ roster' \in [Ids -> SUBSET Ids] /\ ignored' \in [Ids -> SUBSET Ids]
        /\ ready' \subseteq listed' /\ listed' \subseteq connected
    BY <2>1, ShownTypes
  <2> QED
    BY <1>1, <1>16, <2>1, <2>2 DEF TypeOK, RowSet, LogIn, table, caches
<1>17. ASSUME NEW t \in Threads, Close(t)
       PROVE  Goal
  <2>1. work' \in [Threads -> Works]
    BY <1>17, ThenTypes DEF Close, Works
  <2>2. /\ roster' \in [Ids -> SUBSET Ids] /\ ignored' \in [Ids -> SUBSET Ids]
        /\ ready' \subseteq listed' /\ listed' \subseteq connected \ {me[t]}
    BY <1>17, ShownTypes DEF Close
  <2> QED
    BY <1>1, <1>17, <2>1, <2>2 DEF TypeOK, RowSet, Close, table, caches
<1>18. ASSUME NEW t \in Threads, Offline(t)
       PROVE  Goal
  <2>1. work' \in [Threads -> Works]
    BY <1>18, ThenTypes DEF Offline, Done, Works
  <2> QED
    BY <1>1, <1>18, <2>1 DEF TypeOK, RowSet, Offline, table, caches, shown
<1>19. CASE Restart
  BY <1>1, <1>19, RestartTypes DEF Restart, table
<1>20. CASE UNCHANGED vars
  BY <1>1, <1>20 DEF TypeOK, RowSet, vars, table, caches, views, shown
<1> QED
  BY <1>3, <1>4, <1>5, <1>6, <1>7, <1>8, <1>9, <1>10, <1>11, <1>12, <1>13, <1>14, <1>15, <1>16,
     <1>17, <1>18, <1>19, <1>20
  DEF Next, Create, Rename, Password, List, ListCrash, Connection, LogInCrash

-----------------------------------------------------------------------------
(* What a step does to the users and to the requests under way *)

(* the steps that neither add a user nor change a cache *)
Elsewhere(t) ==
  \/ AnnounceBegin(t) \/ (\E u \in Ids : Announce(t, u)) \/ AnnounceEnd(t)
  \/ ChangePassword(t) \/ (\E l \in Logins : FindUser(t, l)) \/ SetPassword(t)
  \/ ListRows(t) \/ ListReply(t) \/ StartEnds(t)
  \/ (\E l \in Logins : LogIn(t, l)) \/ Close(t) \/ Offline(t)

LEMMA Kinds ==
  ASSUME [Next]_vars
  PROVE  \/ Restart \/ UNCHANGED vars
         \/ \E t \in Threads :
              \/ \E l \in NewLogins : CreateRow(t, l)
              \/ CacheUser(t)
              \/ \E n \in Nicknames : RenameRow(t, n)
              \/ RenameCached(t)
              \/ Elsewhere(t)
BY DEF Next, Create, Rename, Password, List, ListCrash, Connection, LogInCrash, Elsewhere

(* what happens to the requests of a step elsewhere *)
LEMMA ElsewhereKeeps ==
  ASSUME TypeOK, Serving, NEW t \in Threads, Elsewhere(t)
  PROVE  /\ UNCHANGED <<caches, overlapped>>
         /\ \A s \in Threads \ {t} : work'[s] = work[s] /\ me'[s] = me[s]
         /\ work[t].step \notin {"cache", "rename"} /\ work'[t].step \notin {"cache", "rename"}
<1> DEFINE Goal ==
             /\ UNCHANGED <<caches, overlapped>>
             /\ \A s \in Threads \ {t} : work'[s] = work[s] /\ me'[s] = me[s]
             /\ work[t].step \notin {"cache", "rename"} /\ work'[t].step \notin {"cache", "rename"}
<1>0. DOMAIN work = Threads /\ DOMAIN me = Threads
  BY DEF TypeOK
<1>1. CASE AnnounceBegin(t) \/ AnnounceEnd(t)
  BY <1>0, <1>1 DEF AnnounceBegin, AnnounceEnd, Step, Then, Done, NoWork
<1>2. ASSUME NEW u \in Ids, Announce(t, u)
      PROVE  Goal
  <2>1. work[t] \in [step : {"walk"}, id : Ids, left : SUBSET Ids]
    BY <1>2, WorkTypes DEF Announce
  <2> QED
    BY <1>0, <1>2, <2>1 DEF Announce, Then
<1>3. CASE ChangePassword(t) \/ StartEnds(t)
  BY <1>3 DEF ChangePassword, StartEnds, Step
<1>4. ASSUME NEW l \in Logins, FindUser(t, l)
      PROVE  Goal
  BY <1>0, <1>4 DEF FindUser, Step, Then
<1>5. CASE SetPassword(t) \/ ListRows(t)
  BY <1>0, <1>5 DEF SetPassword, ListRows, Step, Then, Done, NoWork
<1>6. CASE ListReply(t)
  BY <1>0, <1>6 DEF ListReply, Step, Then, Done, NoWork
<1>7. ASSUME NEW l \in Logins, LogIn(t, l)
      PROVE  Goal
  <2>1. work[t].step = "idle"
    BY <1>7 DEF LogIn, Serving, Step
  <2> QED
    BY <1>0, <1>7, <2>1 DEF LogIn
<1>8. CASE Close(t) \/ Offline(t)
  BY <1>0, <1>8 DEF Close, Offline, Step, Then, Done, NoWork
<1> QED
  BY <1>1, <1>2, <1>3, <1>4, <1>5, <1>6, <1>7, <1>8 DEF Elsewhere

(* the only step that adds a user *)
LEMMA NewRow ==
  ASSUME TypeOK, RowsOK, NEW t \in Threads, NEW l \in NewLogins, CreateRow(t, l)
  PROVE  /\ UNCHANGED <<caches, overlapped, me, views>> /\ work[t].step = "idle"
         /\ \/ UNCHANGED <<rows, work>>
            \/ /\ Users' = Users \cup {Len(rows) + 1} /\ Len(rows) + 1 \notin Users
               /\ \A i \in Users : rows'[i] = rows[i]
               /\ rows'[Len(rows) + 1].nickname = rows'[Len(rows) + 1].login
               /\ work' = [work EXCEPT ![t] = [step |-> "cache", id |-> Len(rows) + 1]]
               /\ work'[t] = [step |-> "cache", id |-> Len(rows) + 1]
               /\ \A s \in Threads \ {t} : work'[s] = work[s]
<1>1. UNCHANGED <<caches, overlapped, me, views>> /\ work[t].step = "idle"
  BY DEF CreateRow, Step
<1>2. CASE Added(l) /\ Then(t, [step |-> "cache", id |-> Len(rows) + 1])
  <2>1. l \in Logins /\ DOMAIN work = Threads
    BY DEF Logins, TypeOK
  <2>2. /\ Users' = Users \cup {Len(rows) + 1} /\ Len(rows) + 1 \notin Users
        /\ \A i \in Users : rows'[i] = rows[i]
        /\ rows'[Len(rows) + 1] = Row(l)
    BY <1>2, <2>1, AddedRow
  <2>3. rows'[Len(rows) + 1].nickname = rows'[Len(rows) + 1].login
    BY <2>2 DEF Row
  <2> QED
    BY <1>1, <1>2, <2>1, <2>2, <2>3 DEF Then
<1> QED
  BY <1>1, <1>2, CreateAdds

(* a nickname that changes *)
LEMMA NewName ==
  ASSUME TypeOK, RowsOK, Serving, NEW t \in Threads, NEW n \in Nicknames, RenameRow(t, n)
  PROVE  /\ UNCHANGED <<caches, me, views>> /\ work[t].step = "idle"
         /\ me[t] \in Users /\ ~Creating(me[t]) /\ Users' = Users
         /\ \A j \in Users : rows'[j].login = rows[j].login
         /\ \A j \in Users \ {me[t]} : rows'[j] = rows[j]
         /\ \/ UNCHANGED <<rows, overlapped, work>>
            \/ /\ rows'[me[t]].nickname = n
               /\ overlapped' = IF Renaming(me[t]) THEN overlapped \cup {me[t]}
                                                   ELSE overlapped \ {me[t]}
               /\ work'[t] = [step |-> "rename", name |-> n]
               /\ \A s \in Threads \ {t} : work'[s] = work[s]
<1>1. UNCHANGED <<clashing, caches, me, views>> /\ work[t].step = "idle"
  BY DEF RenameRow, Step
<1>2. me[t] \in Users /\ ~Creating(me[t]) /\ rows[me[t]] \in RowSet
  BY Served DEF RenameRow
<1>3. CASE UNCHANGED <<rows, overlapped, work>>
  BY <1>1, <1>2, <1>3 DEF Users
<1>4. CASE /\ rows' = [rows EXCEPT ![me[t]].nickname = n]
           /\ overlapped' = IF Renaming(me[t]) THEN overlapped \cup {me[t]}
                                               ELSE overlapped \ {me[t]}
           /\ Then(t, [step |-> "rename", name |-> n])
  <2> DEFINE r == [rows[me[t]] EXCEPT !.nickname = n]
  <2>1. Changed(me[t], r)
    BY <1>1, <1>2, <1>4, RenameChanges
  <2>2. r.login = rows[me[t]].login /\ r.nickname = n
    BY <1>2 DEF RowSet
  <2>3. Users' = Users /\ \A j \in Users : rows'[j] = IF j = me[t] THEN r ELSE rows[j]
    BY <1>2, <2>1, ChangedRow
  <2>4. /\ work'[t] = [step |-> "rename", name |-> n]
        /\ \A s \in Threads \ {t} : work'[s] = work[s]
    BY <1>4 DEF Then, TypeOK
  <2> HIDE DEF r
  <2>5. \A j \in Users : rows'[j].login = rows[j].login
    BY <2>2, <2>3
  <2>6. rows'[me[t]].nickname = n
    BY <1>2, <2>2, <2>3
  <2> QED
    BY <1>1, <1>2, <1>4, <2>3, <2>4, <2>5, <2>6
<1> QED
  BY <1>3, <1>4 DEF RenameRow

(* elsewhere at most passwords change in the table of users *)
LEMMA ElsewhereRows ==
  ASSUME TypeOK, RowsOK, Serving, Pending, NEW t \in Threads, Elsewhere(t)
  PROVE  /\ Users' = Users
         /\ \A i \in Users : rows'[i].login = rows[i].login /\ rows'[i].nickname = rows[i].nickname
<1> DEFINE Goal ==
             /\ Users' = Users
             /\ \A i \in Users : rows'[i].login = rows[i].login /\ rows'[i].nickname = rows[i].nickname
<1>1. CASE rows' = rows
  BY <1>1 DEF Users
<1>2. ASSUME NEW i \in Users, NEW h, h = rows[i].login,
             rows' = [rows EXCEPT ![i].password = h], clashing' = clashing
      PROVE  Goal
  <2> DEFINE r == [rows[i] EXCEPT !.password = h]
  <2>1. Changed(i, r) /\ rows[i] \in RowSet
    BY <1>2, PasswordChanges, RowTypes
  <2>2. r.login = rows[i].login /\ r.nickname = rows[i].nickname
    BY <2>1 DEF RowSet
  <2>3. Users' = Users /\ \A j \in Users : rows'[j] = IF j = i THEN r ELSE rows[j]
    BY <2>1, ChangedRow
  <2> HIDE DEF r
  <2> QED
    BY <2>2, <2>3
<1>3. CASE ChangePassword(t)
  <2>1. me[t] \in Users
    BY <1>3, Served DEF ChangePassword
  <2> QED
    BY <1>2, <1>3, <2>1 DEF ChangePassword
<1>4. CASE SetPassword(t)
  <2>1. work[t].id \in Users /\ work[t].hash = rows[work[t].id].login
    BY <1>4 DEF SetPassword, Pending, Remains
  <2> QED
    BY <1>1, <1>2, <1>4, <2>1 DEF SetPassword
<1>5. CASE ~ChangePassword(t) /\ ~SetPassword(t)
  BY <1>1, <1>5 DEF Elsewhere, AnnounceBegin, Announce, AnnounceEnd, FindUser, ListRows, ListReply,
                    StartEnds, LogIn, Close, Offline, table
<1> QED
  BY <1>3, <1>4, <1>5

(* users keep their ids and logins *)
LEMMA Grow ==
  ASSUME TypeOK, RowsOK, Serving, Pending, [Next]_vars
  PROVE  /\ Users \subseteq Users'
         /\ \A i \in Users : rows'[i].login = rows[i].login
<1>1. ASSUME NEW t \in Threads, NEW l \in NewLogins, CreateRow(t, l)
      PROVE  Users \subseteq Users' /\ \A i \in Users : rows'[i].login = rows[i].login
  BY <1>1, NewRow DEF Users
<1>2. ASSUME NEW t \in Threads, NEW n \in Nicknames, RenameRow(t, n)
      PROVE  Users \subseteq Users' /\ \A i \in Users : rows'[i].login = rows[i].login
  BY <1>2, NewName
<1>3. ASSUME NEW t \in Threads, CacheUser(t) \/ RenameCached(t)
      PROVE  rows' = rows
  BY <1>3 DEF CacheUser, RenameCached, table
<1>4. Restart \/ UNCHANGED vars => rows' = rows
  BY DEF Restart, vars, table
<1> QED
  BY Kinds, <1>1, <1>2, <1>3, <1>4, ElsewhereRows DEF Users

(* who is created was not there before *)
LEMMA CreatingOld ==
  ASSUME TypeOK, RowsOK, Serving, Pending, [Next]_vars, NEW i, Creating(i)'
  PROVE  /\ Creating(i) \/ i \in Users' \ Users
         /\ i \in Users' \ Users => rows'[i].nickname = rows'[i].login
<1> DEFINE Goal == /\ Creating(i) \/ i \in Users' \ Users
                   /\ i \in Users' \ Users => rows'[i].nickname = rows'[i].login
<1>0. DOMAIN work = Threads
  BY DEF TypeOK
<1>1. ASSUME NEW t \in Threads, NEW l \in NewLogins, CreateRow(t, l)
      PROVE  Goal
  BY <1>1, NewRow DEF Creating, Step, Users
<1>2. ASSUME NEW t \in Threads, CacheUser(t) \/ RenameCached(t)
      PROVE  Goal
  <2>1. Users' = Users
    BY <1>2 DEF CacheUser, RenameCached, table, Users
  <2>2. work'[t].step # "cache" /\ \A s \in Threads \ {t} : work'[s] = work[s]
    BY <1>0, <1>2 DEF CacheUser, RenameCached, Then, Done, NoWork
  <2> QED
    BY <2>1, <2>2 DEF Creating, Step
<1>3. ASSUME NEW t \in Threads, NEW n \in Nicknames, RenameRow(t, n)
      PROVE  Goal
  <2>1. Users' = Users /\ work[t].step = "idle"
    BY <1>3, NewName
  <2>2. CASE UNCHANGED work
    BY <2>1, <2>2 DEF Creating, Step
  <2>3. CASE /\ work'[t] = [step |-> "rename", name |-> n]
             /\ \A s \in Threads \ {t} : work'[s] = work[s]
    BY <2>1, <2>3 DEF Creating, Step
  <2> QED
    BY <1>3, <2>2, <2>3, NewName
<1>4. ASSUME NEW t \in Threads, Elsewhere(t)
      PROVE  Goal
  BY <1>4, ElsewhereKeeps, ElsewhereRows DEF Creating, Step
<1>5. Restart => ~Creating(i)'
  BY DEF Restart, NobodyConnected, Creating, Step, NoWork
<1>6. CASE UNCHANGED vars
  BY <1>6 DEF vars, table, Users, Creating, Step
<1> QED
  BY Kinds, <1>1, <1>2, <1>3, <1>4, <1>5, <1>6

(* a user of the tables remains one *)
LEMMA SettledStays ==
  ASSUME TypeOK, RowsOK, Serving, Pending, [Next]_vars, NEW i, Settled(i)
  PROVE  Settled(i)'
BY Grow, CreatingOld DEF Settled

LEMMA NotRenamedStep ==
  ASSUME TypeOK, RowsOK, Serving, Pending, NotRenamed, [Next]_vars
  PROVE  NotRenamed'
<1> SUFFICES ASSUME NEW i \in Users', Creating(i)'
             PROVE  rows'[i].nickname = rows'[i].login
  BY DEF NotRenamed
<1>1. CASE i \in Users' \ Users
  BY <1>1, CreatingOld
<1>2. CASE i \in Users
  <2>1. Creating(i) /\ rows[i].nickname = rows[i].login
    BY <1>2, CreatingOld DEF NotRenamed
  <2>2. rows'[i].login = rows[i].login
    BY <1>2, Grow
  <2>3. rows'[i].nickname = rows[i].nickname
    <3>1. ASSUME NEW t \in Threads, NEW n \in Nicknames, RenameRow(t, n)
          PROVE  rows'[i] = rows[i]
      BY <1>2, <2>1, <3>1, NewName
    <3>2. ASSUME NEW t \in Threads, NEW l \in NewLogins, CreateRow(t, l)
          PROVE  rows'[i] = rows[i]
      BY <1>2, <3>2, NewRow
    <3>3. ASSUME NEW t \in Threads, CacheUser(t) \/ RenameCached(t)
          PROVE  rows' = rows
      BY <3>3 DEF CacheUser, RenameCached, table
    <3>4. Restart \/ UNCHANGED vars => rows' = rows
      BY DEF Restart, vars, table
    <3> QED
      BY Kinds, <1>2, <3>1, <3>2, <3>3, <3>4, ElsewhereRows
  <2> QED
    BY <2>1, <2>2, <2>3
<1> QED
  BY <1>1, <1>2

LEMMA OneCreatorStep ==
  ASSUME TypeOK, RowsOK, Serving, Pending, OneCreator, [Next]_vars
  PROVE  OneCreator'
<1>0. DOMAIN work = Threads
  BY DEF TypeOK
<1>1. ASSUME NEW t \in Threads, work'[t].step # "cache", \A s \in Threads \ {t} : work'[s] = work[s]
      PROVE  OneCreator'
  BY <1>1 DEF OneCreator, Step
<1>2. ASSUME NEW t \in Threads, NEW l \in NewLogins, CreateRow(t, l)
      PROVE  OneCreator'
  <2>1. \A s \in Threads : Step(s, "cache") => work[s].id \in Users
    BY DEF Pending, Remains, Step
  <2>2. CASE UNCHANGED <<rows, work>>
    BY <2>2 DEF OneCreator, Step
  <2> QED
    BY <1>2, <2>1, <2>2, NewRow DEF OneCreator, Step
<1>3. ASSUME NEW t \in Threads, CacheUser(t) \/ RenameCached(t)
      PROVE  OneCreator'
  BY <1>0, <1>1, <1>3 DEF CacheUser, RenameCached, Then, Done, NoWork
<1>4. ASSUME NEW t \in Threads, NEW n \in Nicknames, RenameRow(t, n)
      PROVE  OneCreator'
  <2>1. CASE UNCHANGED work
    BY <2>1 DEF OneCreator, Step
  <2>2. CASE /\ work'[t] = [step |-> "rename", name |-> n]
             /\ \A s \in Threads \ {t} : work'[s] = work[s]
    <3>1. work'[t].step # "cache"
      BY <2>2
    <3> QED
      BY <1>1, <2>2, <3>1
  <2> QED
    BY <1>4, <2>1, <2>2, NewName
<1>5. ASSUME NEW t \in Threads, Elsewhere(t)
      PROVE  OneCreator'
  BY <1>1, <1>5, ElsewhereKeeps
<1>6. CASE Restart
  BY <1>6 DEF Restart, NobodyConnected, OneCreator, Step, NoWork
<1>7. CASE UNCHANGED vars
  BY <1>7 DEF vars, OneCreator, Step
<1> QED
  BY Kinds, <1>2, <1>3, <1>4, <1>5, <1>6, <1>7

LEMMA MappedStep ==
  ASSUME TypeOK, RowsOK, Serving, Pending, OneCreator, Mapped, [Next]_vars
  PROVE  Mapped'
<1>1. CASE loginToId' = loginToId
  BY <1>1, Grow, SettledStays DEF Mapped, Settled
<1>2. ASSUME NEW t \in Threads, CacheUser(t)
      PROVE  Mapped'
  <2>1. work[t].id \in Users /\ Step(t, "cache")
    BY <1>2 DEF CacheUser, Pending, Remains, Step
  <2>2. rows' = rows /\ Users' = Users
    BY <1>2 DEF CacheUser, Users, table
  <2>3. loginToId' = [loginToId EXCEPT ![rows[work[t].id].login] = work[t].id] /\ DOMAIN loginToId = Logins
    BY <1>2 DEF CacheUser, TypeOK
  <2>4. PICK i : i = work[t].id
    OBVIOUS
  <2>5. /\ work'[t].step # "cache"
        /\ \A s \in Threads \ {t} : work'[s] = work[s]
    BY <1>2 DEF CacheUser, Then, TypeOK
  <2>6. ~Creating(i)'
    BY <2>1, <2>4, <2>5 DEF Creating, OneCreator, Step
  <2>7. Settled(i)'
    BY <2>1, <2>2, <2>4, <2>6 DEF Settled
  <2>8. ASSUME NEW l \in Logins, loginToId'[l] # 0
        PROVE  Settled(loginToId[l])' /\ rows'[loginToId'[l]].login = l
    <3>1. CASE l = rows[i].login
      <4>1. loginToId'[l] = i
        BY <2>3, <2>4, <3>1
      <4> QED
        BY <2>2, <2>7, <3>1, <4>1 DEF Settled, Creating
    <3>2. CASE l # rows[i].login
      <4>1. loginToId'[l] = loginToId[l]
        BY <2>3, <2>4, <3>2
      <4>2. Settled(loginToId[l]) /\ rows[loginToId[l]].login = l
        BY <2>8, <4>1 DEF Mapped
      <4>3. PICK j : j = loginToId[l]
        OBVIOUS
      <4>4. Settled(j)'
        BY <4>2, <4>3, SettledStays
      <4> QED
        BY <2>2, <4>1, <4>2, <4>3, <4>4 DEF Settled, Creating
    <3> QED
      BY <3>1, <3>2
  <2> QED
    BY <2>8 DEF Mapped
<1>3. CASE Restart
  <2>1. rows \in Seq(RowSet) /\ rows' = rows /\ Load
    BY <1>3 DEF TypeOK, RowSet, Restart, table
  <2>2. \A i : ~Creating(i)'
    BY <1>3 DEF Restart, NobodyConnected, Creating, Step, NoWork
  <2> QED
    BY <2>1, <2>2, LoadTypes DEF Mapped, Settled, Users
<1>4. ASSUME NEW t \in Threads, Elsewhere(t)
      PROVE  loginToId' = loginToId
  BY <1>4, ElsewhereKeeps DEF caches
<1>5. ASSUME NEW t \in Threads,
             \/ \E l \in NewLogins : CreateRow(t, l)
             \/ \E n \in Nicknames : RenameRow(t, n)
             \/ RenameCached(t)
      PROVE  loginToId' = loginToId
  BY <1>5 DEF CreateRow, RenameRow, RenameCached, caches
<1>6. UNCHANGED vars => loginToId' = loginToId
  BY DEF vars, caches
<1> QED
  BY Kinds, <1>1, <1>2, <1>3, <1>4, <1>5, <1>6

LEMMA ServingStep ==
  ASSUME TypeOK, RowsOK, Serving, Pending, Mapped, [Next]_vars
  PROVE  Serving'
<1>0. DOMAIN work = Threads /\ DOMAIN me = Threads
  BY DEF TypeOK
<1>1. ASSUME NEW t \in Threads, me' = me, connected' \subseteq connected, ~Step(t, "idle") \/ me[t] # 0,
             \A s \in Threads \ {t} : work'[s] = work[s]
      PROVE  Serving'
  <2>1. ASSUME NEW s \in Threads, me'[s] = 0
        PROVE  Step(s, "idle")'
    BY <1>1, <2>1 DEF Serving, Step
  <2>2. ASSUME NEW s \in Threads, me'[s] # 0
        PROVE  Settled(me[s])'
    <3>1. PICK i : i = me[s]
      OBVIOUS
    <3>2. Settled(i)'
      BY <1>1, <2>2, <3>1, SettledStays DEF Serving
    <3> QED
      BY <1>1, <3>1, <3>2 DEF Settled, Creating
  <2>3. \A u \in connected' : Settled(u)'
    BY <1>1, SettledStays DEF Serving
  <2> QED
    BY <2>1, <2>2, <2>3 DEF Serving
<1>2. ASSUME NEW t \in Threads, NEW l \in Logins, LogIn(t, l)
      PROVE  Serving'
  <2>1. PICK u : u = loginToId[l]
    OBVIOUS
  <2>2. /\ u # 0 /\ me' = [me EXCEPT ![t] = u] /\ connected' = connected \cup {u} /\ work' = work
    BY <1>2, <2>1 DEF LogIn
  <2>3. Settled(u)'
    BY <2>1, <2>2, SettledStays DEF Mapped
  <2>4. ASSUME NEW s \in Threads
        PROVE  IF me'[s] = 0 THEN Step(s, "idle")' ELSE Settled(me[s])'
    <3>1. CASE s = t
      BY <1>0, <2>2, <2>3, <3>1 DEF Settled, Creating
    <3>2. CASE s # t
      <4>1. me'[s] = me[s] /\ work'[s] = work[s]
        BY <1>0, <2>2, <3>2
      <4>2. PICK i : i = me[s]
        OBVIOUS
      <4>3. i # 0 => Settled(i)'
        BY <4>2, SettledStays DEF Serving
      <4> QED
        BY <4>1, <4>2, <4>3 DEF Serving, Settled, Creating, Step
    <3> QED
      BY <3>1, <3>2
  <2>5. \A v \in connected' : Settled(v)'
    BY <2>2, <2>3, SettledStays DEF Serving
  <2> QED
    BY <2>4, <2>5 DEF Serving
<1>3. ASSUME NEW t \in Threads, Offline(t)
      PROVE  Serving'
  <2>1. /\ me' = [me EXCEPT ![t] = 0] /\ work' = [work EXCEPT ![t] = NoWork] /\ connected' = connected
    BY <1>3 DEF Offline, Done, Then
  <2>2. ASSUME NEW s \in Threads
        PROVE  IF me'[s] = 0 THEN Step(s, "idle")' ELSE Settled(me[s])'
    <3>1. CASE s = t
      BY <1>0, <2>1, <3>1 DEF Step, NoWork
    <3>2. CASE s # t
      <4>1. me'[s] = me[s] /\ work'[s] = work[s]
        BY <1>0, <2>1, <3>2
      <4>2. PICK i : i = me[s]
        OBVIOUS
      <4>3. i # 0 => Settled(i)'
        BY <4>2, SettledStays DEF Serving
      <4> QED
        BY <4>1, <4>2, <4>3 DEF Serving, Settled, Creating, Step
    <3> QED
      BY <3>1, <3>2
  <2>3. \A v \in connected' : Settled(v)'
    BY <2>1, SettledStays DEF Serving
  <2> QED
    BY <2>2, <2>3 DEF Serving
<1>4. ASSUME NEW t \in Threads, (\E l \in NewLogins : CreateRow(t, l)) \/ (\E n \in Nicknames : RenameRow(t, n))
      PROVE  Serving'
  <2>1. me[t] \in connected /\ me' = me /\ connected' = connected
    BY <1>4 DEF CreateRow, RenameRow, views
  <2>2. me[t] # 0
    BY <2>1, Served
  <2>3. \A s \in Threads \ {t} : work'[s] = work[s]
    BY <1>4, NewRow, NewName
  <2> QED
    BY <1>1, <2>1, <2>2, <2>3
<1>5. ASSUME NEW t \in Threads, CacheUser(t) \/ AnnounceBegin(t) \/ AnnounceEnd(t) \/ RenameCached(t)
                                  \/ SetPassword(t) \/ ListReply(t)
      PROVE  Serving'
  BY <1>0, <1>1, <1>5 DEF CacheUser, AnnounceBegin, AnnounceEnd, RenameCached, SetPassword, ListReply,
                          Then, Done, Step, views
<1>6. ASSUME NEW t \in Threads, NEW u \in Ids, Announce(t, u)
      PROVE  Serving'
  BY <1>0, <1>1, <1>6 DEF Announce, Then, Step
<1>7. ASSUME NEW t \in Threads, ChangePassword(t) \/ (\E l \in Logins : FindUser(t, l)) \/ ListRows(t)
                                  \/ StartEnds(t)
      PROVE  Serving'
  <2>1. me[t] \in connected /\ me' = me /\ connected' = connected
    BY <1>7 DEF ChangePassword, FindUser, ListRows, StartEnds, views, TypeOK
  <2>2. me[t] # 0
    BY <2>1, Served
  <2>3. \A s \in Threads \ {t} : work'[s] = work[s]
    BY <1>7, ElsewhereKeeps DEF Elsewhere
  <2> QED
    BY <1>1, <2>1, <2>2, <2>3
<1>8. ASSUME NEW t \in Threads, Close(t)
      PROVE  Serving'
  BY <1>0, <1>1, <1>8 DEF Close, Then
<1>9. CASE Restart
  BY <1>9 DEF Restart, NobodyConnected, Serving, Step, NoWork
<1>10. CASE UNCHANGED vars
  BY <1>10 DEF vars, table, views, Serving, Settled, Creating, Users, Step
<1> QED
  BY <1>2, <1>3, <1>4, <1>5, <1>6, <1>7, <1>8, <1>9, <1>10
  DEF Next, Create, Rename, Password, List, ListCrash, Connection, LogInCrash

(* a thread that does not act *)
LEMMA RemainsSame ==
  ASSUME TypeOK, RowsOK, Serving, Pending, [Next]_vars, NEW s \in Threads, work'[s] = work[s]
  PROVE  Remains(s)'
BY Grow DEF Pending, Remains, Step

LEMMA PendingStep ==
  ASSUME TypeOK, RowsOK, Serving, Mapped, Pending, [Next]_vars
  PROVE  Pending'
<1>0. DOMAIN work = Threads
  BY DEF TypeOK
<1>1. ASSUME NEW t \in Threads, Remains(t)', \A s \in Threads \ {t} : work'[s] = work[s]
      PROVE  Pending'
  BY <1>1, RemainsSame DEF Pending
<1>2. ASSUME NEW t \in Threads, NEW w, Then(t, w)
      PROVE  work'[t] = w /\ \A s \in Threads \ {t} : work'[s] = work[s]
  BY <1>0, <1>2 DEF Then
<1>3. ASSUME NEW t \in Threads, AnnounceEnd(t) \/ RenameCached(t) \/ SetPassword(t) \/ ListReply(t)
                                  \/ Close(t) \/ Offline(t) \/ ListRows(t)
      PROVE  Pending'
  <2>1. \E w : Then(t, w) /\ w.step \in {"idle", "leave", "list"}
    BY <1>3 DEF AnnounceEnd, RenameCached, SetPassword, ListReply, Close, Offline, ListRows, Done, NoWork
  <2>2. PICK w : Then(t, w) /\ w.step \in {"idle", "leave", "list"}
    BY <2>1
  <2>3. work'[t] = w /\ \A s \in Threads \ {t} : work'[s] = work[s]
    BY <1>2, <2>2
  <2>4. Remains(t)'
    BY <2>2, <2>3 DEF Remains, Step
  <2> QED
    BY <1>1, <2>3, <2>4
<1>4. ASSUME NEW t \in Threads, NEW l \in NewLogins, CreateRow(t, l)
      PROVE  Pending'
  <2>1. CASE UNCHANGED <<rows, work>>
    BY <2>1, RemainsSame DEF Pending
  <2>2. CASE /\ Users' = Users \cup {Len(rows) + 1}
             /\ work'[t] = [step |-> "cache", id |-> Len(rows) + 1]
             /\ \A s \in Threads \ {t} : work'[s] = work[s]
    <3>1. Remains(t)'
      BY <2>2 DEF Remains, Step
    <3> QED
      BY <1>1, <2>2, <3>1
  <2> QED
    BY <1>4, <2>1, <2>2, NewRow
<1>5. ASSUME NEW t \in Threads,
             CacheUser(t) \/ AnnounceBegin(t) \/ (\E u \in Ids : Announce(t, u))
      PROVE  Pending'
  <2>1. \E w : /\ Then(t, w) /\ w.id = work[t].id
               /\ w.step \in {"announce", "walk"} /\ work[t].step \in {"cache", "announce", "walk"}
    <3>1. CASE CacheUser(t)
      BY <3>1 DEF CacheUser, Step
    <3>2. CASE AnnounceBegin(t)
      BY <3>2 DEF AnnounceBegin, Step
    <3>3. ASSUME NEW u \in Ids, Announce(t, u)
          PROVE  Then(t, [work[t] EXCEPT !.left = @ \ {u}]) /\ Step(t, "walk")
                 /\ [work[t] EXCEPT !.left = @ \ {u}].id = work[t].id
                 /\ [work[t] EXCEPT !.left = @ \ {u}].step = work[t].step
      BY <3>3, WorkTypes DEF Announce
    <3> QED
      BY <1>5, <3>1, <3>2, <3>3 DEF Step
  <2>2. PICK w : /\ Then(t, w) /\ w.id = work[t].id
                 /\ w.step \in {"announce", "walk"} /\ work[t].step \in {"cache", "announce", "walk"}
    BY <2>1
  <2>3. work'[t] = w /\ \A s \in Threads \ {t} : work'[s] = work[s]
    BY <1>2, <2>2
  <2>4. Remains(t)'
    BY <2>2, <2>3, Grow DEF Pending, Remains, Step
  <2> QED
    BY <1>1, <2>3, <2>4
<1>6. ASSUME NEW t \in Threads, NEW n \in Nicknames, RenameRow(t, n)
      PROVE  Pending'
  <2>1. CASE UNCHANGED work
    BY <2>1, RemainsSame DEF Pending
  <2>2. CASE /\ work'[t] = [step |-> "rename", name |-> n]
             /\ \A s \in Threads \ {t} : work'[s] = work[s]
    <3>1. Remains(t)'
      BY <2>2 DEF Remains, Step
    <3> QED
      BY <1>1, <2>2, <3>1
  <2> QED
    BY <1>6, <2>1, <2>2, NewName
<1>7. ASSUME NEW t \in Threads, NEW l \in Logins, FindUser(t, l)
      PROVE  Pending'
  <2>1. /\ loginToId[l] \in Users /\ rows[loginToId[l]].login = l
        /\ Then(t, [step |-> "password", id |-> loginToId[l], hash |-> l])
    BY <1>7 DEF FindUser, Mapped, Settled
  <2>2. /\ work'[t] = [step |-> "password", id |-> loginToId[l], hash |-> l]
        /\ \A s \in Threads \ {t} : work'[s] = work[s]
    BY <1>2, <2>1
  <2>3. Remains(t)'
    BY <2>1, <2>2, Grow DEF Remains, Step
  <2> QED
    BY <1>1, <2>2, <2>3
<1>8. ASSUME NEW t \in Threads, ChangePassword(t) \/ StartEnds(t) \/ (\E l \in Logins : LogIn(t, l))
      PROVE  Pending'
  <2>1. work' = work
    BY <1>8 DEF ChangePassword, StartEnds, LogIn, views
  <2> QED
    BY <2>1, RemainsSame DEF Pending
<1>9. CASE Restart
  BY <1>9 DEF Restart, NobodyConnected, Pending, Remains, Step, NoWork
<1>10. CASE UNCHANGED vars
  BY <1>10, RemainsSame DEF vars, Pending
<1> QED
  BY <1>3, <1>4, <1>5, <1>6, <1>7, <1>8, <1>9, <1>10
  DEF Next, Create, Rename, Password, List, ListCrash, Connection, LogInCrash

(* who changes nicknames, after a step elsewhere or of a creation *)
LEMMA SinglesSame ==
  ASSUME TypeOK, Serving, Singles, NEW t \in Threads, overlapped' = overlapped,
         work[t].step # "rename" \/ work'[t] = NoWork, work'[t].step # "rename",
         \A s \in Threads \ {t} : work'[s] = work[s] /\ me'[s] = me[s],
         \A i \in Users : rows'[i].nickname = rows[i].nickname
  PROVE  Singles'
<1> SUFFICES ASSUME NEW s \in Threads, Step(s, "rename")', me'[s] \notin overlapped'
             PROVE  Single(s)'
  BY DEF Singles
<1>1. s # t /\ work'[s] = work[s] /\ me'[s] = me[s] /\ Step(s, "rename")
  BY DEF Step
<1>2. Single(s) /\ me[s] \in Users
  BY <1>1, Served DEF Singles, Step
<1>3. \A r \in Threads : Step(r, "rename")' /\ me'[r] = me[s] => r = s
  BY <1>1, <1>2 DEF Single, Step
<1> QED
  BY <1>1, <1>2, <1>3 DEF Single

LEMMA SinglesStep ==
  ASSUME TypeOK, RowsOK, Serving, Pending, Singles, [Next]_vars
  PROVE  Singles'
<1>0. DOMAIN work = Threads
  BY DEF TypeOK
<1>1. ASSUME NEW t \in Threads, Elsewhere(t)
      PROVE  Singles'
  BY <1>1, ElsewhereKeeps, ElsewhereRows, SinglesSame
<1>2. ASSUME NEW t \in Threads, CacheUser(t) \/ RenameCached(t)
      PROVE  Singles'
  <2>1. /\ rows' = rows /\ overlapped' = overlapped /\ me' = me
        /\ \A s \in Threads \ {t} : work'[s] = work[s]
    BY <1>0, <1>2 DEF CacheUser, RenameCached, table, Then, Done
  <2>2. /\ work[t].step # "rename" \/ work'[t] = NoWork
        /\ work'[t].step # "rename"
    BY <1>0, <1>2 DEF CacheUser, RenameCached, Then, Done, NoWork, Step
  <2> QED
    BY <2>1, <2>2, SinglesSame
<1>3. CASE UNCHANGED <<rows, work, me, overlapped>>
  BY <1>3 DEF Singles, Single, Step
<1>4. ASSUME NEW t \in Threads, NEW l \in NewLogins, CreateRow(t, l)
      PROVE  Singles'
  <2>1. me' = me /\ overlapped' = overlapped /\ work[t].step # "rename"
    BY <1>4, NewRow
  <2>2. CASE UNCHANGED <<rows, work>>
    BY <1>3, <2>1, <2>2
  <2>3. CASE /\ \A i \in Users : rows'[i] = rows[i]
             /\ work'[t] = [step |-> "cache", id |-> Len(rows) + 1]
             /\ \A s \in Threads \ {t} : work'[s] = work[s]
    BY <2>1, <2>3, SinglesSame
  <2> QED
    BY <1>4, <2>2, <2>3, NewRow
<1>5. ASSUME NEW t \in Threads, NEW n \in Nicknames, RenameRow(t, n)
      PROVE  Singles'
  <2>1. /\ me' = me /\ work[t].step = "idle"
        /\ \A j \in Users \ {me[t]} : rows'[j] = rows[j]
    BY <1>5, NewName
  <2>2. CASE UNCHANGED <<rows, overlapped, work>>
    BY <1>3, <2>1, <2>2
  <2>3. CASE /\ rows'[me[t]].nickname = n
             /\ overlapped' = IF Renaming(me[t]) THEN overlapped \cup {me[t]}
                                                 ELSE overlapped \ {me[t]}
             /\ work'[t] = [step |-> "rename", name |-> n]
             /\ \A s \in Threads \ {t} : work'[s] = work[s]
    <3> SUFFICES ASSUME NEW s \in Threads, Step(s, "rename")', me'[s] \notin overlapped'
                 PROVE  Single(s)'
      BY DEF Singles
    <3>1. CASE s = t
      <4>1. ~Renaming(me[t])
        BY <2>1, <2>3, <3>1
      <4>2. \A r \in Threads : Step(r, "rename")' /\ me'[r] = me'[t] => r = t
        BY <2>1, <2>3, <4>1 DEF Renaming, Step
      <4> QED
        BY <2>1, <2>3, <3>1, <4>2 DEF Single
    <3>2. CASE s # t
      <4>1. Step(s, "rename") /\ work'[s] = work[s] /\ me'[s] = me[s]
        BY <2>1, <2>3, <3>2 DEF Step
      <4>2. me[s] # me[t]
        BY <2>1, <2>3, <4>1 DEF Renaming
      <4>3. me[s] \notin overlapped
        BY <2>3, <4>1, <4>2
      <4>4. Single(s) /\ me[s] \in Users
        BY <4>1, <4>3, Served DEF Singles, Step
      <4>5. \A r \in Threads : Step(r, "rename")' /\ me'[r] = me'[s] => r = s
        BY <2>1, <2>3, <4>2, <4>4 DEF Single, Step
      <4> QED
        BY <2>1, <4>1, <4>2, <4>4, <4>5 DEF Single
    <3> QED
      BY <3>1, <3>2
  <2> QED
    BY <1>5, <2>2, <2>3, NewName
<1>6. CASE Restart
  BY <1>6 DEF Restart, NobodyConnected, Singles, Step, NoWork
<1>7. CASE UNCHANGED vars
  BY <1>3, <1>7 DEF vars, table
<1> QED
  BY Kinds, <1>1, <1>2, <1>4, <1>5, <1>6, <1>7

-----------------------------------------------------------------------------
(* The caches *)

(* the cache of one user *)
Cached(i) ==
  /\ clients[i] # None <=> i \in Users /\ ~Creating(i)
  /\ i \in Users /\ ~Creating(i) =>
       /\ loginToId[rows[i].login] = i
       /\ Renaming(i) \/ i \in overlapped \/ clients[i] = rows[i].nickname

LEMMA CachedAll == CachesMatchDb <=> \A i \in Ids : Cached(i)
BY DEF CachesMatchDb, Cached

LEMMA CachedSame ==
  ASSUME CachesMatchDb, NEW i \in Ids, clients'[i] = clients[i], loginToId' = loginToId,
         i \in Users <=> i \in Users', Creating(i) <=> Creating(i)',
         i \in Users => rows'[i].login = rows[i].login,
         i \in Users => \/ Renaming(i)' \/ i \in overlapped'
                        \/ /\ rows'[i].nickname = rows[i].nickname
                           /\ ~Renaming(i) /\ i \notin overlapped
  PROVE  Cached(i)'
BY CachedAll DEF Cached

LEMMA CachesStep ==
  ASSUME TypeOK, RowsOK, NotRenamed, Serving, Pending, Singles, OneCreator, CachesMatchDb,
         [Next]_vars, TypeOK'
  PROVE  CachesMatchDb'
<1>0. DOMAIN work = Threads
  BY DEF TypeOK
<1>1. ASSUME NEW t \in Threads, NEW l \in NewLogins, CreateRow(t, l), NEW i \in Ids
      PROVE  Cached(i)'
  <2>1. UNCHANGED <<caches, overlapped, me>> /\ work[t].step = "idle"
    BY <1>1, NewRow
  <2>2. CASE UNCHANGED <<rows, work>>
    <3>1. (Creating(i) <=> Creating(i)') /\ (Renaming(i) <=> Renaming(i)') /\ Users' = Users
      BY <2>1, <2>2 DEF Users, Creating, Renaming, Step
    <3> QED
      BY <2>1, <2>2, <3>1, CachedSame DEF caches
  <2>3. CASE /\ Users' = Users \cup {Len(rows) + 1} /\ Len(rows) + 1 \notin Users
             /\ \A j \in Users : rows'[j] = rows[j]
             /\ work'[t] = [step |-> "cache", id |-> Len(rows) + 1]
             /\ \A s \in Threads \ {t} : work'[s] = work[s]
    <3>1. CASE i = Len(rows) + 1
      <4>1. Creating(i)' /\ i \notin Users
        BY <2>3, <3>1 DEF Creating, Step
      <4>2. clients'[i] = None
        BY <2>1, <4>1, CachedAll DEF Cached, caches
      <4> QED
        BY <4>1, <4>2 DEF Cached
    <3>2. CASE i # Len(rows) + 1
      <4>1. (Creating(i) <=> Creating(i)') /\ (Renaming(i) <=> Renaming(i)')
        BY <2>1, <2>3, <3>2 DEF Creating, Renaming, Step
      <4> QED
        BY <2>1, <2>3, <3>2, <4>1, CachedSame DEF caches
    <3> QED
      BY <3>1, <3>2
  <2> QED
    BY <1>1, <2>2, <2>3, NewRow
<1>2. ASSUME NEW t \in Threads, CacheUser(t), NEW i \in Ids
      PROVE  Cached(i)'
  <2> DEFINE c == work[t].id
  <2>1. c \in Users /\ c \in Ids /\ rows[c] \in RowSet /\ Creating(c)
    BY <1>2, RowTypes DEF CacheUser, Pending, Remains, Step, Creating
  <2>2. /\ clients' = [clients EXCEPT ![c] = rows[c].login] /\ DOMAIN clients = Ids
        /\ loginToId' = [loginToId EXCEPT ![rows[c].login] = c] /\ DOMAIN loginToId = Logins
        /\ rows' = rows /\ Users' = Users /\ me' = me /\ overlapped' = overlapped
        /\ work' = [work EXCEPT ![t] = [step |-> "announce", id |-> c]]
    BY <1>2 DEF CacheUser, TypeOK, Then, Users, table
  <2>3. CASE i = c
    <3>1. ~Creating(i)'
      BY <1>0, <1>2, <2>2, <2>3 DEF Creating, Step, OneCreator, CacheUser
    <3>2. rows[c].nickname = rows[c].login /\ rows[c].login # None
      BY <2>1, AccountsAssumption DEF NotRenamed, RowSet
    <3> QED
      BY <2>1, <2>2, <2>3, <3>1, <3>2 DEF Cached, RowSet
  <2>4. CASE i # c
    <3>1. (Creating(i)' <=> Creating(i)) /\ (Renaming(i)' <=> Renaming(i))
      BY <1>0, <1>2, <2>2, <2>4 DEF Creating, Renaming, Step, CacheUser
    <3>2. i \in Users => rows[i].login # rows[c].login
      BY <2>1, <2>4 DEF RowsOK, Distinct
    <3>3. i \in Users => rows[i] \in RowSet
      BY RowTypes
    <3>4. Cached(i)
      BY CachedAll
    <3> QED
      BY <2>2, <2>4, <3>1, <3>2, <3>3, <3>4 DEF Cached, RowSet
  <2> QED
    BY <2>3, <2>4
<1>3. ASSUME NEW t \in Threads, NEW n \in Nicknames, RenameRow(t, n), NEW i \in Ids
      PROVE  Cached(i)'
  <2>1. /\ UNCHANGED <<caches, me>> /\ work[t].step = "idle" /\ Users' = Users
        /\ \A j \in Users : rows'[j].login = rows[j].login
        /\ \A j \in Users \ {me[t]} : rows'[j] = rows[j]
    BY <1>3, NewName
  <2>2. CASE UNCHANGED <<rows, overlapped, work>>
    <3>1. (Creating(i) <=> Creating(i)') /\ (Renaming(i) <=> Renaming(i)')
      BY <2>1, <2>2 DEF Creating, Renaming, Step
    <3> QED
      BY <2>1, <2>2, <3>1, CachedSame DEF caches
  <2>3. CASE /\ overlapped' = IF Renaming(me[t]) THEN overlapped \cup {me[t]}
                                                 ELSE overlapped \ {me[t]}
             /\ work'[t] = [step |-> "rename", name |-> n]
             /\ \A s \in Threads \ {t} : work'[s] = work[s]
    <3>1. Creating(i) <=> Creating(i)'
      BY <2>1, <2>3 DEF Creating, Step
    <3>2. Renaming(i)' <=> Renaming(i) \/ i = me[t]
      BY <2>1, <2>3 DEF Renaming, Step
    <3>3. i # me[t] => (i \in overlapped' <=> i \in overlapped)
      BY <2>3
    <3> QED
      BY <2>1, <3>1, <3>2, <3>3, CachedSame DEF caches
  <2> QED
    BY <1>3, <2>2, <2>3, NewName
<1>4. ASSUME NEW t \in Threads, RenameCached(t), NEW i \in Ids
      PROVE  Cached(i)'
  <2>1. /\ clients' = [clients EXCEPT ![me[t]] = work[t].name] /\ DOMAIN clients = Ids
        /\ loginToId' = loginToId /\ rows' = rows /\ Users' = Users
        /\ me' = me /\ overlapped' = overlapped
        /\ work' = [work EXCEPT ![t] = NoWork] /\ work[t].step = "rename"
    BY <1>4 DEF RenameCached, TypeOK, Then, Done, Users, Step, table
  <2>2. Creating(i) <=> Creating(i)'
    BY <1>0, <2>1 DEF Creating, Step, NoWork
  <2>3. CASE i = me[t]
    <3>1. i \in Users /\ ~Creating(i)
      BY <2>1, <2>3, Served DEF Step
    <3>2. clients'[i] = work[t].name /\ work[t].name \in Nicknames
      BY <2>1, <2>3, WorkTypes DEF Step
    <3>3. clients'[i] # None
      BY <3>2, AccountsAssumption
    <3>4. i \in overlapped \/ rows[i].nickname = work[t].name
      BY <2>1, <2>3 DEF Singles, Single, Step
    <3> QED
      BY <2>1, <2>2, <3>1, <3>2, <3>3, <3>4, CachedAll DEF Cached
  <2>4. CASE i # me[t]
    <3>1. Renaming(i) <=> Renaming(i)'
      BY <1>0, <2>1, <2>4 DEF Renaming, Step, NoWork
    <3> QED
      BY <2>1, <2>2, <2>4, <3>1, CachedSame
  <2> QED
    BY <2>3, <2>4
<1>5. ASSUME NEW t \in Threads, Elsewhere(t), NEW i \in Ids
      PROVE  Cached(i)'
  <2>1. (Creating(i) <=> Creating(i)') /\ (Renaming(i) <=> Renaming(i)')
    BY <1>5, ElsewhereKeeps DEF Creating, Renaming, Step
  <2>2. UNCHANGED <<caches, overlapped>>
    BY <1>5, ElsewhereKeeps
  <2>3. /\ Users' = Users
        /\ i \in Users => rows'[i].login = rows[i].login /\ rows'[i].nickname = rows[i].nickname
    BY <1>5, ElsewhereRows
  <2> QED
    BY <2>1, <2>2, <2>3, CachedSame DEF caches
<1>6. ASSUME Restart, NEW i \in Ids
      PROVE  Cached(i)'
  <2>1. rows \in Seq(RowSet) /\ rows' = rows /\ Load /\ Users' = Users
    BY <1>6 DEF TypeOK, RowSet, Restart, Users, table
  <2>2. ~Creating(i)'
    BY <1>6 DEF Restart, NobodyConnected, Creating, Step, NoWork
  <2>3. clients'[i] = IF i \in Users THEN rows[i].nickname ELSE None
    BY <2>1 DEF Load, Users
  <2>4. i \in Users => rows[i] \in RowSet /\ rows[i].nickname # None
    BY RowTypes, AccountsAssumption DEF RowSet
  <2>5. i \in Users => loginToId'[rows[i].login] = i
    BY <2>1, <2>4, LoadTypes DEF RowsOK, Distinct, RowSet, Users
  <2> QED
    BY <2>1, <2>2, <2>3, <2>4, <2>5 DEF Cached
<1>7. ASSUME UNCHANGED vars, NEW i \in Ids
      PROVE  Cached(i)'
  <2>1. (Creating(i) <=> Creating(i)') /\ (Renaming(i) <=> Renaming(i)') /\ Users' = Users
    BY <1>7 DEF vars, table, Users, Creating, Renaming, Step
  <2> QED
    BY <1>7, <2>1, CachedSame DEF vars, table, caches
<1>8. \A i \in Ids : Cached(i)'
  BY Kinds, <1>1, <1>2, <1>3, <1>4, <1>5, <1>6, <1>7
<1> QED
  BY <1>8 DEF CachesMatchDb, Cached

-----------------------------------------------------------------------------
(* Who knows of whom *)

(* user u logs in again *)
Returns(u) == \E t \in Threads, l \in Logins : LogIn(t, l) /\ loginToId[l] = u

(* Nobody comes to be served by one thread alone but by logging in.        *)
LEMMA AloneStays ==
  ASSUME TypeOK, [Next]_vars, ~Restart, NEW u, Alone(u)', ~Returns(u)
  PROVE  Alone(u)
<1>0. DOMAIN me = Threads
  BY DEF TypeOK
<1>1. CASE UNCHANGED <<me, connected, online>>
  BY <1>1 DEF Alone
<1>2. ASSUME NEW t \in Threads, NEW l \in Logins, LogIn(t, l)
      PROVE  Alone(u)
  <2>1. /\ me' = [me EXCEPT ![t] = loginToId[l]] /\ me[t] = 0 /\ loginToId[l] # u
        /\ connected' = connected \cup {loginToId[l]} /\ online' = online \cup {loginToId[l]}
    BY <1>2 DEF LogIn, Returns
  <2>2. u \in connected \cap online
    BY <2>1 DEF Alone
  <2>3. u # 0
    BY <2>2 DEF TypeOK, Ids
  <2>4. \A s \in Threads : me[s] = u => me'[s] = u
    BY <1>0, <2>1, <2>3
  <2> QED
    BY <2>2, <2>4 DEF Alone
<1>3. ASSUME NEW t \in Threads, Close(t) \/ Offline(t)
      PROVE  Alone(u)
  <2>1. u \in connected \cap online /\ \A s \in Threads : me[s] = u => me'[s] = u
    BY <1>0, <1>3 DEF Close, Offline, Alone
  <2> QED
    BY <2>1 DEF Alone
<1>4. ASSUME NEW t \in Threads,
             \/ (\E l \in NewLogins : CreateRow(t, l)) \/ CacheUser(t)
             \/ (\E n \in Nicknames : RenameRow(t, n)) \/ RenameCached(t)
             \/ AnnounceBegin(t) \/ (\E v \in Ids : Announce(t, v)) \/ AnnounceEnd(t)
             \/ ChangePassword(t) \/ (\E l \in Logins : FindUser(t, l)) \/ SetPassword(t)
             \/ ListRows(t) \/ ListReply(t) \/ StartEnds(t)
      PROVE  UNCHANGED <<me, connected, online>>
  BY <1>4 DEF CreateRow, CacheUser, RenameRow, RenameCached, AnnounceBegin, Announce, AnnounceEnd,
              ChangePassword, FindUser, SetPassword, ListRows, ListReply, StartEnds, views
<1>5. UNCHANGED vars => UNCHANGED <<me, connected, online>>
  BY DEF vars, views
<1> QED
  BY Kinds, <1>1, <1>2, <1>3, <1>4, <1>5 DEF Elsewhere

(* A client that shows or will be told of a user goes on doing so, until   *)
(* it leaves or the server is restarted.                                   *)
LEMMA Remembers ==
  ASSUME TypeOK, Serving, CachesMatchDb, [Next]_vars, ~Restart,
         NEW u, Alone(u), Alone(u)', ~Returns(u), NEW i, Knows(u, i)
  PROVE  Knows(u, i)'
<1>0. /\ DOMAIN work = Threads /\ DOMAIN me = Threads /\ DOMAIN roster = Ids /\ DOMAIN ignored = Ids
      /\ u \in Ids /\ u \in connected /\ u \in online
  BY DEF TypeOK, Alone
<1>1. ASSUME NEW t \in Threads, roster[u] \subseteq roster'[u], ignored[u] \subseteq ignored'[u],
             \A s \in Threads \ {t} : work'[s] = work[s] /\ me'[s] = me[s],
             work[t].step \in {"cache", "announce", "walk"} =>
               /\ work'[t].step \in {"cache", "announce", "walk"} /\ work'[t].id = work[t].id
               /\ me'[t] = me[t]
               /\ work[t].step = "walk" => work'[t].step = "walk" /\ work[t].left \subseteq work'[t].left
               /\ work'[t].step = "walk" => u \in work'[t].left \cup {me[t]}
                                         \/ work[t].step = "walk"
      PROVE  Knows(u, i)'
  <2>1. CASE i \in roster[u] \cup ignored[u]
    BY <1>1, <2>1 DEF Knows
  <2>2. ASSUME NEW s \in Threads, work[s].step \in {"cache", "announce", "walk"}, work[s].id = i,
               Step(s, "walk") => u \in work[s].left \cup {me[s]}
        PROVE  ToBeTold(i, u)'
    BY <1>1, <2>2 DEF ToBeTold, Step
  <2> QED
    BY <2>1, <2>2 DEF ToBeTold, Knows
<1>2. ASSUME NEW t \in Threads, CacheUser(t)
      PROVE  Knows(u, i)'
  BY <1>0, <1>1, <1>2 DEF CacheUser, Then, Step, views, shown
<1>3. ASSUME NEW t \in Threads, AnnounceBegin(t)
      PROVE  Knows(u, i)'
  <2>1. clients[u] # None
    BY <1>0 DEF Serving, Settled, CachesMatchDb
  <2> QED
    BY <1>0, <1>1, <1>3, <2>1 DEF AnnounceBegin, Then, Step, views, shown
<1>4. ASSUME NEW t \in Threads, NEW v \in Ids, Announce(t, v)
      PROVE  Knows(u, i)'
  <2>1. /\ work[t] \in [step : {"walk"}, id : Ids, left : SUBSET Ids]
        /\ work' = [work EXCEPT ![t] = [work[t] EXCEPT !.left = @ \ {v}]]
    BY <1>4, WorkTypes DEF Announce, Then
  <2>2. /\ work'[t].step = "walk" /\ work'[t].id = work[t].id /\ work'[t].left = work[t].left \ {v}
        /\ \A s \in Threads \ {t} : work'[s] = work[s]
    BY <1>0, <2>1
  <2>3. /\ roster[u] \subseteq roster'[u] /\ (u = v => work[t].id \in roster'[u])
        /\ ignored' = ignored /\ me' = me
    BY <1>0, <1>4 DEF Announce
  <2>4. CASE i \in roster[u] \cup ignored[u]
    BY <2>3, <2>4 DEF Knows
  <2>5. ASSUME NEW s \in Threads, work[s].step \in {"cache", "announce", "walk"}, work[s].id = i,
               Step(s, "walk") => u \in work[s].left \cup {me[s]}
        PROVE  Knows(u, i)'
    <3>1. CASE s = t /\ u = v
      BY <2>3, <2>5, <3>1 DEF Knows
    <3>2. CASE s = t /\ u # v
      BY <2>1, <2>2, <2>3, <2>5, <3>2 DEF ToBeTold, Step, Knows
    <3>3. CASE s # t
      BY <2>2, <2>3, <2>5, <3>3 DEF ToBeTold, Step, Knows
    <3> QED
      BY <3>1, <3>2, <3>3
  <2> QED
    BY <2>4, <2>5 DEF ToBeTold, Knows
<1>5. ASSUME NEW t \in Threads, AnnounceEnd(t)
      PROVE  Knows(u, i)'
  <2>1. /\ work[t].left = {} /\ work[t].step = "walk" /\ me' = me
        /\ \A s \in Threads \ {t} : work'[s] = work[s]
    BY <1>0, <1>5 DEF AnnounceEnd, Done, Then, Step
  <2>2. roster[u] \subseteq roster'[u] /\ ignored[u] \subseteq ignored'[u]
    BY <1>0, <1>5 DEF AnnounceEnd
  <2>3. u = me[t] => work[t].id \in roster'[u] \cup ignored'[u]
    BY <1>0, <1>5 DEF AnnounceEnd
  <2>4. CASE i \in roster[u] \cup ignored[u]
    BY <2>2, <2>4 DEF Knows
  <2>5. ASSUME NEW s \in Threads, work[s].step \in {"cache", "announce", "walk"}, work[s].id = i,
               Step(s, "walk") => u \in work[s].left \cup {me[s]}
        PROVE  Knows(u, i)'
    BY <2>1, <2>3, <2>5 DEF ToBeTold, Step, Knows
  <2> QED
    BY <2>4, <2>5 DEF ToBeTold, Knows
<1>6. ASSUME NEW t \in Threads,
             \/ (\E l \in NewLogins : CreateRow(t, l))
             \/ (\E n \in Nicknames : RenameRow(t, n)) \/ RenameCached(t)
             \/ ChangePassword(t) \/ (\E l \in Logins : FindUser(t, l)) \/ SetPassword(t)
             \/ ListRows(t) \/ ListReply(t) \/ StartEnds(t)
      PROVE  Knows(u, i)'
  <2>1. /\ me' = me /\ work[t].step \in {"idle", "rename", "password", "list"}
        /\ \A s \in Threads \ {t} : work'[s] = work[s]
    BY <1>0, <1>6 DEF CreateRow, RenameRow, RenameCached, ChangePassword, FindUser, SetPassword,
                      ListRows, ListReply, StartEnds, Then, Done, Step
  <2>2. roster[u] \subseteq roster'[u] /\ ignored[u] \subseteq ignored'[u]
    BY <1>0, <1>6 DEF CreateRow, RenameRow, RenameCached, ChangePassword, FindUser, SetPassword,
                      ListRows, ListReply, StartEnds, views, shown
  <2> QED
    BY <1>1, <2>1, <2>2
<1>7. ASSUME NEW t \in Threads, NEW l \in Logins, LogIn(t, l)
      PROVE  Knows(u, i)'
  <2>1. loginToId[l] # u /\ work[t].step = "idle"
    BY <1>7 DEF Returns, LogIn, Serving, Step
  <2>2. roster'[u] = roster[u] /\ ignored'[u] = ignored[u]
    BY <1>0, <1>7, <2>1 DEF LogIn, NothingShown
  <2>3. \A s \in Threads \ {t} : work'[s] = work[s] /\ me'[s] = me[s]
    BY <1>0, <1>7 DEF LogIn
  <2> QED
    BY <1>1, <2>1, <2>2, <2>3
<1>8. ASSUME NEW t \in Threads, Close(t)
      PROVE  Knows(u, i)'
  <2>1. me[t] # u /\ work[t].step = "idle" /\ me' = me
    BY <1>8 DEF Close, Alone, Step
  <2>2. roster'[u] = roster[u] /\ ignored'[u] = ignored[u]
    BY <1>0, <1>8, <2>1 DEF Close, NothingShown
  <2>3. \A s \in Threads \ {t} : work'[s] = work[s]
    BY <1>0, <1>8 DEF Close, Then
  <2> QED
    BY <1>1, <2>1, <2>2, <2>3
<1>9. ASSUME NEW t \in Threads, Offline(t)
      PROVE  Knows(u, i)'
  BY <1>0, <1>1, <1>9 DEF Offline, Then, Done, Step, shown
<1>10. CASE UNCHANGED vars
  BY <1>10 DEF vars, views, shown, ToBeTold, Step, Knows
<1> QED
  BY Kinds, <1>2, <1>3, <1>4, <1>5, <1>6, <1>7, <1>8, <1>9, <1>10 DEF Elsewhere

LEMMA NewIsTold ==
  ASSUME TypeOK, RowsOK, Serving, Pending, [Next]_vars, NEW i \in Users' \ Users, NEW u
  PROVE  Knows(u, i)'
<1>1. ASSUME NEW t \in Threads, NEW l \in NewLogins, CreateRow(t, l)
      PROVE  Knows(u, i)'
  <2>1. work'[t] = [step |-> "cache", id |-> i]
    BY <1>1, NewRow DEF Users
  <2> QED
    BY <2>1 DEF Knows, ToBeTold, Step
<1>2. ASSUME NEW t \in Threads, NEW n \in Nicknames, RenameRow(t, n)
      PROVE  FALSE
  BY <1>2, NewName
<1>3. ASSUME NEW t \in Threads, CacheUser(t) \/ RenameCached(t)
      PROVE  FALSE
  BY <1>3 DEF CacheUser, RenameCached, table, Users
<1>4. ~(Restart \/ UNCHANGED vars)
  BY DEF Restart, vars, table, Users
<1> QED
  BY Kinds, <1>1, <1>2, <1>3, <1>4, ElsewhereRows

LEMMA RestartTold == ASSUME Restart PROVE Told'
BY DEF Restart, NobodyConnected, Told, Listing, NobodyMissing, Step, NoWork

(* who makes out a list, and who has just got one                          *)
LEMMA ListBegins ==
  ASSUME TypeOK, Serving, [Next]_vars, ~Restart, NEW t \in Threads, Step(t, "list")'
  PROVE  /\ me'[t] = me[t]
         /\ \/ Step(t, "list") /\ work'[t].ids = work[t].ids
            \/ work'[t].ids = Users \ {me[t]} /\ rows' = rows
<1>0. DOMAIN work = Threads /\ DOMAIN me = Threads
  BY DEF TypeOK
<1> DEFINE Goal == /\ me'[t] = me[t]
                   /\ \/ Step(t, "list") /\ work'[t].ids = work[t].ids
                      \/ work'[t].ids = Users \ {me[t]} /\ rows' = rows
<1>1. CASE work'[t] = work[t] /\ me'[t] = me[t]
  BY <1>1 DEF Step
<1>2. ASSUME NEW s \in Threads, NEW w, Then(s, w), w.step # "list"
      PROVE  work'[t] = work[t] /\ s # t
  BY <1>0, <1>2 DEF Then, Step
<1>3. ASSUME NEW s \in Threads,
             \/ (\E l \in NewLogins : CreateRow(s, l)) \/ CacheUser(s)
             \/ AnnounceBegin(s) \/ AnnounceEnd(s)
             \/ (\E n \in Nicknames : RenameRow(s, n)) \/ RenameCached(s)
             \/ ChangePassword(s) \/ (\E l \in Logins : FindUser(s, l)) \/ SetPassword(s)
             \/ ListReply(s) \/ StartEnds(s) \/ Close(s)
      PROVE  Goal
  <2>1. me' = me
    BY <1>3 DEF CreateRow, CacheUser, AnnounceBegin, AnnounceEnd, RenameRow, RenameCached,
                ChangePassword, FindUser, SetPassword, ListReply, StartEnds, Close
  <2>2. UNCHANGED work \/ \E w : Then(s, w) /\ w.step # "list"
    <3> DEFINE w1 == [step |-> "cache", id |-> Len(rows) + 1]
               w2(n) == [step |-> "rename", name |-> n]
               w3 == [step |-> "announce", id |-> work[s].id]
               w4 == [step |-> "walk", id |-> work[s].id,
                      left |-> {u \in Ids : clients[u] # None} \ {me[s]}]
               w5(l) == [step |-> "password", id |-> loginToId[l], hash |-> l]
               w6 == [step |-> "leave"]
    <3>0. w1.step # "list" /\ w3.step # "list" /\ w4.step # "list" /\ w6.step # "list"
      OBVIOUS
    <3>5. ASSUME NEW l \in NewLogins, CreateRow(s, l)
          PROVE  UNCHANGED work \/ Then(s, w1)
      BY <3>5, CreateAdds
    <3>6. ASSUME NEW n \in Nicknames, RenameRow(s, n)
          PROVE  UNCHANGED work \/ (Then(s, w2(n)) /\ w2(n).step # "list")
      BY <3>6 DEF RenameRow
    <3>7. ASSUME NEW l \in Logins, FindUser(s, l)
          PROVE  Then(s, w5(l)) /\ w5(l).step # "list"
      BY <3>7 DEF FindUser
    <3>8. /\ CacheUser(s) => Then(s, w3)
          /\ AnnounceBegin(s) => Then(s, w4)
          /\ Close(s) => Then(s, w6)
      BY DEF CacheUser, AnnounceBegin, Close
    <3> HIDE DEF w1, w2, w3, w4, w5, w6
    <3>1. CASE (\E l \in NewLogins : CreateRow(s, l)) \/ (\E n \in Nicknames : RenameRow(s, n))
      BY <3>0, <3>1, <3>5, <3>6
    <3>2. CASE CacheUser(s) \/ AnnounceBegin(s) \/ (\E l \in Logins : FindUser(s, l)) \/ Close(s)
      BY <3>0, <3>2, <3>7, <3>8
    <3>3. CASE AnnounceEnd(s) \/ RenameCached(s) \/ SetPassword(s) \/ ListReply(s)
      BY <3>3 DEF AnnounceEnd, RenameCached, SetPassword, ListReply, Done, NoWork
    <3>4. CASE ChangePassword(s) \/ StartEnds(s)
      BY <3>4 DEF ChangePassword, StartEnds
    <3> QED
      BY <1>3, <3>1, <3>2, <3>3, <3>4
  <2> QED
    BY <1>1, <1>2, <2>1, <2>2
<1>4. ASSUME NEW s \in Threads, NEW v \in Ids, Announce(s, v)
      PROVE  Goal
  <2>1. [work[s] EXCEPT !.left = @ \ {v}].step # "list" /\ me' = me
    BY <1>4, WorkTypes DEF Announce
  <2> QED
    BY <1>1, <1>2, <1>4, <2>1 DEF Announce
<1>5. ASSUME NEW s \in Threads, ListRows(s)
      PROVE  Goal
  <2>1. CASE s = t
    BY <1>0, <1>5, <2>1 DEF ListRows, Then, table
  <2>2. CASE s # t
    BY <1>0, <1>1, <1>5, <2>2 DEF ListRows, Then
  <2> QED
    BY <2>1, <2>2
<1>6. ASSUME NEW s \in Threads, NEW l \in Logins, LogIn(s, l)
      PROVE  Goal
  <2>1. s # t /\ work' = work
    BY <1>6 DEF LogIn, Serving, Step
  <2> QED
    BY <1>0, <1>1, <1>6, <2>1 DEF LogIn
<1>7. ASSUME NEW s \in Threads, Offline(s)
      PROVE  Goal
  <2>1. work'[t] = work[t] /\ s # t
    BY <1>2, <1>7 DEF Offline, Done, NoWork
  <2> QED
    BY <1>0, <1>1, <1>7, <2>1 DEF Offline
<1>8. CASE UNCHANGED vars
  BY <1>1, <1>8 DEF vars
<1> QED
  BY Kinds, <1>3, <1>4, <1>5, <1>6, <1>7, <1>8 DEF Elsewhere

LEMMA ListArrives ==
  ASSUME [Next]_vars, ~Restart, NEW u \in listed'
  PROVE  u \in listed \/ \E t \in Threads : me[t] = u /\ ListReply(t)
<1>1. ASSUME NEW t \in Threads, ListReply(t)
      PROVE  u \in listed \/ \E s \in Threads : me[s] = u /\ ListReply(s)
  BY <1>1 DEF ListReply
<1>2. ASSUME NEW t \in Threads, (\E l \in Logins : LogIn(t, l)) \/ Close(t)
      PROVE  u \in listed
  BY <1>2 DEF LogIn, Close, NothingShown
<1>3. ASSUME NEW t \in Threads,
             \/ (\E l \in NewLogins : CreateRow(t, l)) \/ CacheUser(t)
             \/ AnnounceBegin(t) \/ (\E v \in Ids : Announce(t, v)) \/ AnnounceEnd(t)
             \/ (\E n \in Nicknames : RenameRow(t, n)) \/ RenameCached(t)
             \/ ChangePassword(t) \/ (\E l \in Logins : FindUser(t, l)) \/ SetPassword(t)
             \/ ListRows(t) \/ StartEnds(t) \/ Offline(t)
      PROVE  listed' = listed
  BY <1>3 DEF CreateRow, CacheUser, AnnounceBegin, Announce, AnnounceEnd, RenameRow, RenameCached,
              ChangePassword, FindUser, SetPassword, ListRows, StartEnds, Offline, views, shown
<1>4. UNCHANGED vars => listed' = listed
  BY DEF vars, views, shown
<1> QED
  BY Kinds, <1>1, <1>2, <1>3, <1>4 DEF Elsewhere

(* who logs in has no list, and nobody makes one out for him               *)
LEMMA ReturnsBare ==
  ASSUME TypeOK, Serving, NEW u, Returns(u), Alone(u)'
  PROVE  u \notin listed' /\ \A t \in Threads : ~(Step(t, "list")' /\ me'[t] = u)
<1>1. PICK t \in Threads, l \in Logins : LogIn(t, l) /\ loginToId[l] = u
  BY DEF Returns
<1>2. me' = [me EXCEPT ![t] = u] /\ work' = work /\ NothingShown(u) /\ me[t] = 0
  BY <1>1 DEF LogIn
<1>3. me'[t] = u /\ Step(t, "idle")
  BY <1>2 DEF TypeOK, Serving
<1>4. \A s \in Threads : me'[s] = u => s = t
  BY <1>3 DEF Alone
<1>5. \A s \in Threads : Step(s, "list")' /\ me'[s] = u => FALSE
  BY <1>2, <1>3, <1>4 DEF Step
<1> QED
  BY <1>2, <1>5 DEF NothingShown

LEMMA ToldStep ==
  ASSUME TypeOK, RowsOK, Serving, Pending, CachesMatchDb, Told, [Next]_vars
  PROVE  Told'
<1>1. CASE Restart
  BY <1>1, RestartTold
<1>2. CASE ~Restart
  <2>1. ASSUME NEW t \in Threads, Step(t, "list")', NEW u, u = me'[t], Alone(u)', NEW i \in Users' \ {u}
        PROVE  i \in work'[t].ids \/ Knows(u, i)'
    <3>0. me'[t] = me[t] /\ u = me[t] /\ ~Returns(u) /\ Alone(u)
      BY <1>2, <2>1, ListBegins, ReturnsBare, AloneStays
    <3>1. CASE i \notin Users
      BY <3>1, NewIsTold
    <3>2. CASE i \in Users /\ work'[t].ids = Users \ {me[t]}
      BY <3>0, <3>2
    <3>3. CASE i \in Users /\ Step(t, "list") /\ work'[t].ids = work[t].ids
      <4>1. i \in work[t].ids \/ Knows(u, i)
        BY <3>0, <3>3 DEF Told, Listing
      <4> QED
        BY <1>2, <2>1, <3>0, <3>3, <4>1, Remembers
    <3> QED
      BY <1>2, <2>1, <3>1, <3>2, <3>3, ListBegins
  <2>2. ASSUME NEW u \in listed', Alone(u)', NEW i \in Users' \ {u}
        PROVE  Knows(u, i)'
    <3>0. ~Returns(u) /\ Alone(u)
      BY <1>2, <2>2, ReturnsBare, AloneStays
    <3>1. CASE i \notin Users
      BY <3>1, NewIsTold
    <3>2. CASE i \in Users /\ u \in listed
      <4>1. Knows(u, i)
        BY <2>2, <3>0, <3>2 DEF Told, NobodyMissing, Knows
      <4> QED
        BY <1>2, <2>2, <3>0, <4>1, Remembers
    <3>3. CASE i \in Users /\ u \notin listed
      <4>1. PICK t \in Threads : me[t] = u /\ ListReply(t)
        BY <1>2, <2>2, <3>3, ListArrives
      <4>2. (Step(t, "list") /\ i \in work[t].ids) \/ Knows(u, i)
        BY <2>2, <3>0, <3>3, <4>1 DEF Told, Listing, ListReply
      <4>3. u \in connected \ ready
        BY <3>0, <3>3 DEF TypeOK, Alone
      <4>4. work[t].ids \subseteq roster'[u]
        BY <4>1, <4>3 DEF ListReply, TypeOK
      <4>5. Knows(u, i) => Knows(u, i)'
        BY <1>2, <2>2, <3>0, Remembers
      <4> QED
        BY <4>2, <4>4, <4>5 DEF Knows
    <3> QED
      BY <3>1, <3>2, <3>3
  <2>3. Listing'
    BY <2>1 DEF Listing, Knows, ToBeTold, Alone, Step
  <2>4. NobodyMissing'
    BY <2>2 DEF NobodyMissing, Knows
  <2> QED
    BY <2>3, <2>4 DEF Told
<1> QED
  BY <1>1, <1>2

-----------------------------------------------------------------------------
(* The theorems *)

LEMMA InitRows ==
  ASSUME Init, NEW n, n = Len(Initial)
  PROVE  /\ n \in Nat \ {0} /\ n <= MaxUsers /\ DOMAIN Initial = 1..n
         /\ \A i, j \in 1..n : <<Initial[i], Initial[j]>> \in Like => i <= j
         /\ \A i, j \in 1..n : Initial[i] = Initial[j] => i = j
         /\ \A i \in 1..n : Initial[i] \in Logins /\ Initial[i] # None
         /\ rows \in Seq(RowSet) /\ Len(rows) = n /\ Users = 1..n
         /\ \A i \in 1..n : /\ rows[i].login = Initial[i] /\ rows[i].nickname = Initial[i]
                            /\ rows[i].password = Initial[i]
<1>1. n \in Nat \ {0} /\ DOMAIN Initial = 1..n /\ n <= MaxUsers
  BY Basics
<1>2. \A i \in 1..n : Initial[i] \in Logins /\ Initial[i] # None
  BY <1>1, Basics, AccountsAssumption
<1>3. \A i, j \in 1..n : <<Initial[i], Initial[j]>> \in Like => i <= j
  BY <1>1, LikeAssumption
<1>4. \A i, j \in 1..n : Initial[i] = Initial[j] => i = j
  <2> SUFFICES ASSUME NEW i \in 1..n, NEW j \in 1..n, Initial[i] = Initial[j]
               PROVE  i = j
    OBVIOUS
  <2>1. <<Initial[i], Initial[j]>> \in Like /\ <<Initial[j], Initial[i]>> \in Like
    BY <1>2, LikeAssumption
  <2>2. i <= j /\ j <= i
    BY <1>3, <2>1
  <2> QED
    BY <1>1, <2>2
<1>6. rows = [i \in 1..n |-> Row(Initial[i])]
  BY <1>1 DEF Init
<1>7. \A i \in 1..n : rows[i] = Row(Initial[i]) /\ Row(Initial[i]) \in RowSet
  BY <1>2, <1>6 DEF Row, RowSet
<1>8. rows \in [1..n -> RowSet]
  BY <1>6, <1>7
<1>9. rows \in Seq(RowSet) /\ Len(rows) = n /\ Users = 1..n
  <2>1. rows \in Seq(RowSet) /\ DOMAIN rows = 1..n
    BY <1>1, <1>8
  <2>2. Len(rows) \in Nat /\ DOMAIN rows = 1..Len(rows)
    BY <2>1, LenProperties
  <2> QED
    BY <1>1, <2>1, <2>2 DEF Users
<1>10. \A i \in 1..n : /\ rows[i].login = Initial[i] /\ rows[i].nickname = Initial[i]
                       /\ rows[i].password = Initial[i]
  <2> SUFFICES ASSUME NEW i \in 1..n
               PROVE  /\ rows[i].login = Initial[i] /\ rows[i].nickname = Initial[i]
                      /\ rows[i].password = Initial[i]
    OBVIOUS
  <2>1. rows[i] = [login |-> Initial[i], nickname |-> Initial[i], password |-> Initial[i]]
    BY <1>7 DEF Row
  <2> QED
    BY <2>1
<1> QED
  BY <1>1, <1>2, <1>3, <1>4, <1>9, <1>10

LEMMA InvInit == ASSUME Init PROVE Inv
<1> DEFINE n == Len(Initial)
<1>1. /\ n \in Nat \ {0} /\ n <= MaxUsers /\ DOMAIN Initial = 1..n
      /\ \A i, j \in 1..n : <<Initial[i], Initial[j]>> \in Like => i <= j
      /\ \A i, j \in 1..n : Initial[i] = Initial[j] => i = j
      /\ \A i \in 1..n : Initial[i] \in Logins /\ Initial[i] # None
  BY InitRows
<1>2. rows \in Seq(RowSet) /\ Len(rows) = n /\ Users = 1..n
  BY InitRows
<1>3. \A i \in 1..n : /\ rows[i].login = Initial[i] /\ rows[i].nickname = Initial[i]
                      /\ rows[i].password = Initial[i]
  BY InitRows
<1>4. OwnRows
  BY <1>1, <1>2, <1>3 DEF OwnRows
<1>5. Distinct
  BY <1>1, <1>2, <1>3 DEF Distinct
<1>8. clients \in [Ids -> Logins \cup Nicknames \cup {None}]
  BY <1>1 DEF Init
<1>9. ASSUME NEW l \in Logins
      PROVE  /\ loginToId[l] \in {0} \cup 1..n
             /\ loginToId[l] # 0 => Initial[loginToId[l]] = l
             /\ loginToId[l] = 0 => \A i \in 1..n : Initial[i] # l
  <2>1. loginToId[l] = IF \E i \in 1..n : Initial[i] = l THEN CHOOSE i \in 1..n : Initial[i] = l ELSE 0
    BY <1>1 DEF Init
  <2>2. CASE \E i \in 1..n : Initial[i] = l
    BY <2>1, <2>2
  <2>3. CASE ~ \E i \in 1..n : Initial[i] = l
    BY <2>1, <2>3
  <2> QED
    BY <2>2, <2>3
<1>10. loginToId \in [Logins -> {0} \cup Ids]
  BY <1>1, <1>9, Basics DEF Init, Ids
<1>11. work = [t \in Threads |-> NoWork] /\ work \in [Threads -> Works]
  BY DEF Init, Works
<1>12. TypeOK
  BY <1>1, <1>2, <1>8, <1>10, <1>11, Basics DEF TypeOK, RowSet, Init
<1>13. \A i : ~Creating(i)
  BY <1>11 DEF Creating, Step, NoWork
<1>14. Mapped
  BY <1>2, <1>3, <1>9, <1>13 DEF Mapped, Settled
<1>15. NotRenamed /\ Serving
  BY <1>11, <1>13 DEF NotRenamed, Serving, Init, Step, NoWork
<1>16. Pending /\ Singles /\ OneCreator /\ Told
  BY <1>11 DEF Pending, Remains, Singles, OneCreator, Told, Listing, NobodyMissing, Init, Step, NoWork
<1>17. ASSUME NEW i \in Ids
       PROVE  Cached(i)
  <2>2. clients[i] = IF i \in 1..n THEN Initial[i] ELSE None
    BY <1>1 DEF Init
  <2>3. CASE i \in 1..n
    <3>1. Initial[i] # None /\ rows[i].login = Initial[i] /\ rows[i].nickname = Initial[i]
      BY <1>1, <1>3, <2>3
    <3>2. loginToId[Initial[i]] = i
      <4>1. Initial[i] \in Logins
        BY <1>1, <2>3
      <4>2. loginToId[Initial[i]] \in 1..n /\ Initial[loginToId[Initial[i]]] = Initial[i]
        BY <1>9, <2>3, <4>1
      <4> QED
        BY <1>1, <2>3, <4>2
    <3> QED
      BY <1>2, <1>13, <2>2, <2>3, <3>1, <3>2 DEF Cached
  <2>4. CASE i \notin 1..n
    BY <1>2, <1>13, <2>2, <2>4 DEF Cached
  <2> QED
    BY <2>3, <2>4
<1> QED
  BY <1>4, <1>5, <1>12, <1>14, <1>15, <1>16, <1>17, CachedAll DEF Inv, RowsOK

LEMMA InvStep == Inv /\ [Next]_vars => Inv'
BY TypeStep, NotRenamedStep, MappedStep, ServingStep, PendingStep, SinglesStep, OneCreatorStep,
   CachesStep, ToldStep DEF Inv

LEMMA Invariance == Spec => []Inv
BY InvInit, InvStep, PTL DEF Spec

(* Every variable keeps its type; who has received the list of users is    *)
(* connected, and whose start is over has received it.                     *)
THEOREM TypeCorrect == Spec => []TypeOK
<1>1. Inv => TypeOK
  BY DEF Inv
<1> QED
  BY <1>1, Invariance, PTL

(* The first row that LIKE finds for a user's login is his own: he is      *)
(* never checked against the password of another (find_and_validate_user), *)
(* unless the look-up of his login had failed when he was created.         *)
THEOREM OwnPasswords == Spec => []OwnPassword
<1>1. Inv => OwnPassword
  <2> SUFFICES ASSUME Inv, NEW i \in Users
               PROVE  /\ i \notin clashing => FirstAlike(rows[i].login) = i
                      /\ rows[i].password = rows[i].login
    BY DEF OwnPassword
  <2>1. rows[i].login \in Logins /\ Users \subseteq Nat
    BY RowTypes DEF Inv, RowSet
  <2>2. ASSUME i \notin clashing
        PROVE  FirstAlike(rows[i].login) = i
    <3>1. i \in Alike(rows[i].login) /\ \A j \in Alike(rows[i].login) : i <= j
      BY <2>1, <2>2, LikeAssumption DEF Alike, Inv, RowsOK, OwnRows
    <3>2. \A k \in Alike(rows[i].login) : (\A j \in Alike(rows[i].login) : k <= j) => k = i
      BY <2>1, <3>1 DEF Alike
    <3> QED
      BY <3>1, <3>2 DEF FirstAlike
  <2> QED
    BY <2>2 DEF Inv, RowsOK, OwnRows
<1> QED
  BY <1>1, Invariance, PTL

(* The tables of the server hold what the database holds, but for a user   *)
(* or a nickname whose request is still under way, and for a nickname that *)
(* two threads of the user changed at the same time.                       *)
THEOREM CachesAgree == Spec => []CachesMatchDb
<1>1. Inv => CachesMatchDb
  BY DEF Inv
<1> QED
  BY <1>1, Invariance, PTL

(* Whoever has the list of users, and one thread that serves him, shows    *)
(* every user, did not look at the answer about him, or will be told.      *)
THEOREM NobodyMissed == Spec => []NobodyMissing
<1>1. Inv => NobodyMissing
  BY DEF Inv, Told
<1> QED
  BY <1>1, Invariance, PTL
=============================================================================
