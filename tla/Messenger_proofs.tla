--------------------------- MODULE Messenger_proofs ---------------------------
(***************************************************************************)
(* Proofs about Messenger, for any number of peers, messages, changes and  *)
(* requests and any size of a page.                                        *)
(***************************************************************************)
EXTENDS Messenger, FiniteSetTheorems, SequenceTheorems, TLAPS

-----------------------------------------------------------------------------
(* Numbers                                                                 *)

Before(S, R, x) == {y \in S : <<y, x>> \in R}
Rank(S, R, x) == Cardinality(Before(S, R, x))

(* The members of a finite set are numbered by how many are before them.   *)
LEMMA Numbering ==
  ASSUME NEW S, IsFiniteSet(S), NEW R,
         \A x \in S : <<x, x>> \notin R,
         \A x, y, z \in S : <<x, y>> \in R /\ <<y, z>> \in R => <<x, z>> \in R,
         \A x, y \in S : x # y => <<x, y>> \in R \/ <<y, x>> \in R
  PROVE  /\ Cardinality(S) \in Nat
         /\ \A x \in S : Rank(S, R, x) \in 0..Cardinality(S)-1
         /\ \A x, y \in S : Rank(S, R, x) = Rank(S, R, y) => x = y
         /\ \A n \in 1..Cardinality(S) : \E x \in S : Rank(S, R, x) = n - 1
         /\ \A x, y \in S : <<x, y>> \in R => Rank(S, R, x) < Rank(S, R, y)
<1>0. Cardinality(S) \in Nat
  BY FS_CardinalityType
<1>1. \A x \in S : IsFiniteSet(Before(S, R, x)) /\ Rank(S, R, x) \in Nat /\ Rank(S, R, x) < Cardinality(S)
  <2> SUFFICES ASSUME NEW x \in S
               PROVE  IsFiniteSet(Before(S, R, x)) /\ Rank(S, R, x) \in Nat /\ Rank(S, R, x) < Cardinality(S)
    OBVIOUS
  <2>1. Before(S, R, x) \in SUBSET S /\ Before(S, R, x) # S
    BY DEF Before
  <2>2. IsFiniteSet(Before(S, R, x)) /\ Cardinality(Before(S, R, x)) <= Cardinality(S) /\ Cardinality(Before(S, R, x)) # Cardinality(S)
    BY <2>1, FS_Subset
  <2>3. Cardinality(Before(S, R, x)) \in Nat
    BY <2>2, FS_CardinalityType
  <2> QED
    BY <1>0, <2>2, <2>3 DEF Rank
<1>2. \A x, y \in S : <<x, y>> \in R => Rank(S, R, x) < Rank(S, R, y)
  <2> SUFFICES ASSUME NEW x \in S, NEW y \in S, <<x, y>> \in R
               PROVE  Rank(S, R, x) < Rank(S, R, y)
    OBVIOUS
  <2>1. Before(S, R, x) \in SUBSET Before(S, R, y) /\ Before(S, R, x) # Before(S, R, y)
    BY DEF Before
  <2>2. Cardinality(Before(S, R, x)) <= Cardinality(Before(S, R, y)) /\ Cardinality(Before(S, R, x)) # Cardinality(Before(S, R, y))
    BY <1>1, <2>1, FS_Subset
  <2> QED
    BY <1>1, <2>2 DEF Rank
<1>3. \A x, y \in S : Rank(S, R, x) = Rank(S, R, y) => x = y
  <2> SUFFICES ASSUME NEW x \in S, NEW y \in S, x # y
               PROVE  Rank(S, R, x) # Rank(S, R, y)
    OBVIOUS
  <2>1. Rank(S, R, x) < Rank(S, R, y) \/ Rank(S, R, y) < Rank(S, R, x)
    BY <1>2
  <2> QED
    BY <1>1, <2>1
<1>4. \A n \in 1..Cardinality(S) : \E x \in S : Rank(S, R, x) = n - 1
  <2> DEFINE T == 0..Cardinality(S)-1
             f == [x \in S |-> Rank(S, R, x)]
  <2>1. f \in [S -> T]
    BY <1>0, <1>1
  <2>0. \A x \in S : f[x] = Rank(S, R, x)
    OBVIOUS
  <2> HIDE DEF f, T
  <2>2. f \in Injection(S, T)
    BY <2>0, <2>1, <1>3 DEF Injection, IsInjective
  <2>3. IsFiniteSet(T) /\ Cardinality(T) = Cardinality(S)
    <3> DEFINE c == Cardinality(S)
    <3> HIDE DEF c
    <3>1. c \in Nat
      BY <1>0 DEF c
    <3>2. 0 \in Int /\ c - 1 \in Int
      BY <3>1
    <3>3. IsFiniteSet(0..c-1) /\ Cardinality(0..c-1) = IF 0 > c - 1 THEN 0 ELSE c - 1 - 0 + 1
      BY <3>2, FS_Interval
    <3>4. Cardinality(0..c-1) = c
      BY <3>1, <3>3
    <3> QED
      BY <3>3, <3>4 DEF c, T
  <2>4. f \in Surjection(S, T)
    BY <2>2, <2>3, FS_Injection
  <2>5. \A m \in T : \E x \in S : f[x] = m
    BY <2>4 DEF Surjection
  <2>6. \A n \in 1..Cardinality(S) : n - 1 \in T
    BY <1>0 DEF T
  <2> QED
    BY <2>0, <2>5, <2>6
<1> QED
  BY <1>0, <1>1, <1>2, <1>3, <1>4


-----------------------------------------------------------------------------
(* Types, and what refers to a message refers to one of the right users    *)

Is(i, u, v, R)  == i \in DOMAIN R /\ R[i].from = u /\ R[i].to = v
Among(i, p, R)  == Is(i, Me, p, R) \/ Is(i, p, Me, R)
AllAmong(s, p, R) == \A k \in DOMAIN s : Among(s[k].id, p, R)

RowsOK ==
  /\ rows \in Seq([from : Users, to : Users, text : Texts \cup {Gone}])
  /\ Len(rows) <= MaxMessages
  /\ \A i \in DOMAIN rows : rows[i].from # rows[i].to

ContactsOK == contacts \in [Users -> SUBSET Users]

WorkFits(u, w, R) ==
  /\ w \in Works
  /\ w.step \in {"contacts", "deliver"} => w.id \in DOMAIN R /\ R[w.id].from = u
  /\ w.step = "notify" => Is(w.id, u, Me, R)
  /\ w.step = "history" => u = Me /\ AllAmong(w.messages, w.peer, R)

WorkOK == DOMAIN work = Users /\ \A u \in Users : WorkFits(u, work[u], rows)

FrameFits(f, R) ==
  /\ f \in Frames
  /\ f.code = "history" => AllAmong(f.messages, f.peer, R)
  /\ f.code \in {"message", "changed", "deleted"} => Is(f.id, f.peer, Me, R)
  /\ f.code = "sent" => Is(f.id, Me, f.peer, R)

ChannelOK == channel \in Seq(Frames) /\ \A n \in DOMAIN channel : FrameFits(channel[n], rows)

RequestsOK == requests \in Seq(Requests)

ShownEntries == [id : Ids, text : Texts \cup {Gone}, by : {"list", "event"}, live : BOOLEAN]

ViewOK == view \in [Peers -> Seq(ShownEntries)] /\ \A p \in Peers : AllAmong(view[p], p, rows)

(* The client knows nothing before it has the list of users.               *)
ClientOK ==
  /\ phase \in {"off", "users", "histories", "groups", "ready"}
  /\ counter \in 0..Cardinality(Peers)
  /\ phase = "histories" => counter < Cardinality(Peers)
  /\ cursor \in [Peers -> 0..MaxMessages] /\ overlap \subseteq Peers
  /\ phase \in {"off", "users"} =>
       counter = 0 /\ overlap = {} /\ \A p \in Peers : view[p] = <<>> /\ cursor[p] = 0

(* Nothing is left of a connection when the next one begins.               *)
SessionOK ==
  /\ online \in BOOLEAN
  /\ phase # "off" => online = TRUE
  /\ phase = "off" => channel = <<>>
  /\ online = FALSE => requests = <<>> /\ Idle(Me)

TInv ==
  /\ RowsOK /\ ContactsOK /\ WorkOK /\ ChannelOK /\ RequestsOK /\ ViewOK /\ ClientOK /\ SessionOK

Grows(R, Q) == \A i \in DOMAIN R : i \in DOMAIN Q /\ Q[i].from = R[i].from /\ Q[i].to = R[i].to

LEMMA AmongLater ==
  ASSUME NEW R, NEW Q, Grows(R, Q)
  PROVE  /\ \A i, u, v : Is(i, u, v, R) => Is(i, u, v, Q)
         /\ \A s, p : AllAmong(s, p, R) => AllAmong(s, p, Q)
BY DEF Grows, Is, Among, AllAmong

LEMMA FitsLater ==
  ASSUME NEW R, NEW Q, Grows(R, Q)
  PROVE  /\ \A u, w : WorkFits(u, w, R) => WorkFits(u, w, Q)
         /\ \A f : FrameFits(f, R) => FrameFits(f, Q)
<1>1. \A u, w : WorkFits(u, w, R) => WorkFits(u, w, Q)
  <2> SUFFICES ASSUME NEW u, NEW w, WorkFits(u, w, R) PROVE WorkFits(u, w, Q)
    OBVIOUS
  <2> QED
    BY AmongLater DEF WorkFits, Grows
<1>2. \A f : FrameFits(f, R) => FrameFits(f, Q)
  <2> SUFFICES ASSUME NEW f, FrameFits(f, R) PROVE FrameFits(f, Q)
    OBVIOUS
  <2> QED
    BY AmongLater DEF FrameFits
<1> QED
  BY <1>1, <1>2

LEMMA WorkTypes ==
  ASSUME NEW w \in Works
  PROVE  /\ w.step \in {"idle", "contacts", "deliver", "notify", "history"}
         /\ w.step \in {"contacts", "deliver", "notify"} => w.id \in Ids
         /\ w.step = "notify" => w.text \in 1..Gone
         /\ w.step = "history" => w.peer \in Peers /\ w.messages \in MessageSeqs
BY DEF Works, NoWork

LEMMA FrameTypes ==
  ASSUME NEW f \in Frames
  PROVE  /\ f.code \in {"users", "error", "groups", "history", "sent", "message", "changed", "deleted"}
         /\ f.code = "history" => f.peer \in Peers /\ f.messages \in MessageSeqs
         /\ f.code \in {"sent", "message", "changed", "deleted"} =>
              f.peer \in Peers /\ f.id \in Ids /\ f.text \in Texts \cup {Gone}
BY DEF Frames

LEMMA RequestTypes ==
  ASSUME NEW r \in Requests
  PROVE  /\ r.code \in {"users", "groups", "send", "update", "delete", "history"}
         /\ r.code = "history" => r.peer \in Peers /\ r.before \in 0..MaxMessages /\ r.qty \in FirstPages \cup {Page}
BY DEF Requests

(* The steps, whoever makes them                                           *)
LEMMA Steps ==
  ASSUME Next
  PROVE  \/ \E u \in Users :
              \/ (\E v \in Users \ {u} : Insert(u, v)) \/ AddContacts(u) \/ Deliver(u)
              \/ (\E i \in Ids : Update(u, i) \/ Delete(u, i)) \/ Notify(u)
         \/ GetUsers \/ GetGroups \/ SendHistory
         \/ \E p \in Peers, b \in 0..MaxMessages, q \in FirstPages \cup {Page} : GetLastMsgs(p, b, q)
         \/ LogOut \/ Restart \/ LogIn \/ (phase # "off" /\ Quit)
         \/ \E p \in Peers :
              \/ UserSends(p) \/ UserScrollsUp(p)
              \/ \E k \in DOMAIN view[p] : UserChanges(p, k) \/ UserDeletes(p, k)
         \/ \E first \in [Peers -> FirstPages] : RecvUsers(first)
         \/ RecvHistory \/ RecvGroups \/ RecvSent \/ RecvMessage \/ RecvChange
<1> USE DEF Next, Serve, SendToUser, ChangeMessage, Lists, User, Receive, Users
<1>1. CASE Serve
  BY <1>1
<1>2. CASE \E p \in Peers : SendToUser(p) \/ ChangeMessage(p)
  BY <1>2
<1>3. CASE User
  BY <1>3
<1>4. CASE Receive
  BY <1>4 DEF RecvUnexpected
<1>5. CASE LogOut \/ Restart \/ LogIn \/ (phase # "off" /\ Quit)
  BY <1>5
<1> QED
  BY <1>1, <1>2, <1>3, <1>4, <1>5

-----------------------------------------------------------------------------
(* The rows                                                                *)

Rows == [from : Users, to : Users, text : Texts \cup {Gone}]

LEMMA RowTypes ==
  ASSUME RowsOK
  PROVE  /\ rows \in Seq(Rows) /\ Len(rows) \in Nat /\ Len(rows) <= MaxMessages /\ DOMAIN rows = 1..Len(rows)
         /\ DOMAIN rows \subseteq Ids
         /\ \A i \in DOMAIN rows : /\ rows[i] \in Rows /\ rows[i].from \in Users /\ rows[i].to \in Users
                                   /\ rows[i].from # rows[i].to /\ rows[i].text \in Texts \cup {Gone}
<1>1. rows \in Seq(Rows)
  BY DEF RowsOK, Rows
<1>2. Len(rows) \in Nat /\ DOMAIN rows = 1..Len(rows) /\ \A i \in DOMAIN rows : rows[i] \in Rows
  BY <1>1, LenProperties
<1>3. DOMAIN rows \subseteq Ids
  BY <1>2, MessengerAssumption DEF RowsOK, Ids
<1> QED
  BY <1>1, <1>2, <1>3 DEF RowsOK, Rows

LEMMA StoredTypes ==
  ASSUME RowsOK, NEW i \in Stored
  PROVE  i \in DOMAIN rows /\ i \in Ids /\ i \in Nat /\ rows[i].text \in Texts
<1>1. i \in DOMAIN rows /\ rows[i].text # Gone
  BY DEF Stored
<1>2. i \in Ids /\ rows[i].text \in Texts \cup {Gone}
  BY <1>1, RowTypes
<1> QED
  BY <1>1, <1>2 DEF Ids

LEMMA RowsStep ==
  ASSUME RowsOK, [Next]_vars
  PROVE  RowsOK' /\ Grows(rows, rows')
<1>0. ASSUME rows' = rows PROVE RowsOK' /\ Grows(rows, rows')
  BY <1>0 DEF RowsOK, Grows
<1>1. ASSUME NEW u \in Users, NEW v \in Users \ {u}, Insert(u, v)
      PROVE  RowsOK' /\ Grows(rows, rows')
  <2>1. CASE Len(rows) < MaxMessages
    <3> DEFINE e == Row(u, v)
    <3>1. e \in Rows /\ e.from # e.to
      BY MessengerAssumption DEF Row, Rows, Texts
    <3> HIDE DEF e
    <3>2. rows' = Append(rows, e)
      BY <1>1, <2>1 DEF Insert, e
    <3>3. /\ rows' \in Seq(Rows)
          /\ Len(rows') = Len(rows) + 1 /\ \A i \in 1..Len(rows) : rows'[i] = rows[i]
          /\ rows'[Len(rows) + 1] = e
          /\ Len(rows) \in Nat /\ DOMAIN rows = 1..Len(rows) /\ DOMAIN rows' = 1..Len(rows')
      BY <3>1, <3>2, AppendProperties, RowTypes, LenProperties
    <3> QED
      BY <2>1, <3>1, <3>3, MessengerAssumption DEF RowsOK, Rows, Grows
  <2>2. CASE ~(Len(rows) < MaxMessages)
    BY <1>0, <1>1, <2>2 DEF Insert
  <2> QED
    BY <2>1, <2>2
<1>2. ASSUME NEW i \in DOMAIN rows, NEW t \in Texts \cup {Gone}, rows' = [rows EXCEPT ![i].text = t]
      PROVE  RowsOK' /\ Grows(rows, rows')
  <2>1. rows[i] \in Rows /\ rows \in Seq(Rows) /\ i \in 1..Len(rows) /\ DOMAIN rows = 1..Len(rows)
    BY RowTypes
  <2> DEFINE e == [rows[i] EXCEPT !.text = t]
  <2>2. e \in Rows /\ e.from = rows[i].from /\ e.to = rows[i].to
    BY <2>1 DEF Rows
  <2>3. rows' = [rows EXCEPT ![i] = e]
    BY <1>2
  <2> HIDE DEF e
  <2>4. rows' \in Seq(Rows) /\ Len(rows') = Len(rows) /\ DOMAIN rows' = 1..Len(rows)
    BY <2>1, <2>2, <2>3, ExceptSeq, LenProperties
  <2>5. \A j \in DOMAIN rows : rows'[j].from = rows[j].from /\ rows'[j].to = rows[j].to
    BY <2>1, <2>2, <2>3
  <2> QED
    BY <2>1, <2>4, <2>5 DEF RowsOK, Grows, Rows
<1>3. ASSUME NEW u \in Users, NEW i \in Ids, Update(u, i) \/ Delete(u, i)
      PROVE  RowsOK' /\ Grows(rows, rows')
  <2>1. CASE UNCHANGED rows
    BY <1>0, <2>1
  <2>2. CASE Update(u, i) /\ ~UNCHANGED rows
    <3>1. i \in Stored /\ rows[i].text < MaxChanges /\ rows' = [rows EXCEPT ![i].text = @ + 1]
      BY <2>2 DEF Update
    <3>2. i \in DOMAIN rows /\ rows[i].text \in Texts
      BY <3>1, StoredTypes
    <3>3. rows[i].text + 1 \in Texts
      BY <3>1, <3>2, MessengerAssumption DEF Texts
    <3>4. rows' = [rows EXCEPT ![i].text = rows[i].text + 1]
      BY <3>1
    <3> QED
      BY <1>2, <3>2, <3>3, <3>4
  <2>3. CASE Delete(u, i) /\ ~UNCHANGED rows
    BY <1>2, <2>3 DEF Delete, Stored
  <2> QED
    BY <1>3, <2>1, <2>2, <2>3
<1>4. CASE UNCHANGED vars
  BY <1>0, <1>4 DEF vars
<1>5. CASE Next
  <2>1. CASE \/ \E u \in Users : AddContacts(u) \/ Deliver(u) \/ Notify(u)
             \/ GetUsers \/ GetGroups \/ SendHistory
             \/ \E p \in Peers, b \in 0..MaxMessages, q \in FirstPages \cup {Page} : GetLastMsgs(p, b, q)
    BY <1>0, <2>1 DEF AddContacts, Deliver, Notify, GetUsers, GetGroups, SendHistory, GetLastMsgs, server
  <2>2. CASE \/ LogOut \/ Restart \/ LogIn \/ Quit
             \/ \E p \in Peers :
                  \/ UserSends(p) \/ UserScrollsUp(p)
                  \/ \E k \in DOMAIN view[p] : UserChanges(p, k) \/ UserDeletes(p, k)
    BY <1>0, <2>2 DEF LogOut, Restart, LogIn, Quit, UserSends, UserScrollsUp, UserChanges, UserDeletes, server
  <2>3. CASE \/ \E first \in [Peers -> FirstPages] : RecvUsers(first)
             \/ RecvHistory \/ RecvGroups \/ RecvSent \/ RecvMessage \/ RecvChange
    BY <1>0, <2>3 DEF RecvUsers, RecvHistory, RecvGroups, RecvSent, RecvMessage, RecvChange, server
  <2> QED
    BY <1>1, <1>3, <1>5, <2>1, <2>2, <2>3, Steps
<1> QED
  BY <1>4, <1>5

-----------------------------------------------------------------------------
(* The types                                                               *)

LEMMA Apart == Me \in Users /\ Users \ {Me} = Peers /\ Peers \subseteq Users
BY MessengerAssumption DEF Users

LEMMA IdleFits == ASSUME NEW u, NEW R PROVE WorkFits(u, NoWork, R)
BY DEF WorkFits, Works, NoWork

(* the thread of u begins or goes on with w, the others stay               *)
LEMMA ThenOK ==
  ASSUME WorkOK, Grows(rows, rows'), NEW u \in Users, NEW w, work' = [work EXCEPT ![u] = w], WorkFits(u, w, rows')
  PROVE  WorkOK'
BY FitsLater DEF WorkOK

LEMMA WorkKept ==
  ASSUME WorkOK, Grows(rows, rows'), work' = work
  PROVE  WorkOK'
BY FitsLater DEF WorkOK

LEMMA PageFits ==
  ASSUME RowsOK, NEW p \in Peers, NEW S \in SUBSET (Conversation(Me, p) \cap Stored)
  PROVE  LET s == InOrderOfIds(S) IN
         /\ s \in MessageSeqs /\ AllAmong(s, p, rows) /\ IsFiniteSet(S) /\ Cardinality(S) \in Nat
         /\ DOMAIN s = 1..Cardinality(S)
         /\ \A k \in DOMAIN s : s[k].id \in S /\ s[k].text = rows[s[k].id].text
         /\ \A i \in S : \E k \in DOMAIN s : s[k].id = i
         /\ \A j, k \in DOMAIN s : j < k => s[j].id < s[k].id
<1> DEFINE At(k) == CHOOSE i \in S : Cardinality({j \in S : j < i}) = k - 1
           N == Cardinality(S)
           R == {r \in S \X S : r[1] < r[2]}
           s == InOrderOfIds(S)
<1>1. S \subseteq Ids /\ S \subseteq Nat /\ \A i \in S : i \in DOMAIN rows /\ rows[i].text \in Texts /\ Among(i, p, rows)
  <2> SUFFICES ASSUME NEW i \in S
               PROVE  i \in Ids /\ i \in Nat /\ i \in DOMAIN rows /\ rows[i].text \in Texts /\ Among(i, p, rows)
    OBVIOUS
  <2>1. i \in Stored /\ i \in DOMAIN rows /\ {rows[i].from, rows[i].to} = {Me, p}
    BY DEF Conversation
  <2>2. i \in Ids /\ rows[i].text \in Texts
    BY <2>1, StoredTypes
  <2>3. (rows[i].from = Me /\ rows[i].to = p) \/ (rows[i].from = p /\ rows[i].to = Me)
    BY <2>1
  <2> QED
    BY <2>1, <2>2, <2>3 DEF Ids, Among, Is
<1>2. IsFiniteSet(S)
  <2>1. IsFiniteSet(1..MaxMessages)
    BY FS_Interval, MessengerAssumption
  <2> QED
    BY <1>1, <2>1, FS_Subset DEF Ids
<1>3. \A i, j \in S : <<i, j>> \in R <=> i < j
  OBVIOUS
<1> HIDE DEF R
<1>4. /\ \A i \in S : <<i, i>> \notin R
      /\ \A i, j, k \in S : <<i, j>> \in R /\ <<j, k>> \in R => <<i, k>> \in R
      /\ \A i, j \in S : i # j => <<i, j>> \in R \/ <<j, i>> \in R
  BY <1>1, <1>3
<1>5. /\ N \in Nat
      /\ \A i \in S : Rank(S, R, i) \in 0..N-1
      /\ \A i, j \in S : Rank(S, R, i) = Rank(S, R, j) => i = j
      /\ \A n \in 1..N : \E i \in S : Rank(S, R, i) = n - 1
      /\ \A i, j \in S : <<i, j>> \in R => Rank(S, R, i) < Rank(S, R, j)
  BY <1>2, <1>4, Numbering
<1>6. \A i \in S : Cardinality({j \in S : j < i}) = Rank(S, R, i)
  <2> SUFFICES ASSUME NEW i \in S PROVE {j \in S : j < i} = Before(S, R, i)
    BY DEF Rank
  <2> QED
    BY <1>3 DEF Before
<1>7. \A n \in 1..N : At(n) \in S /\ Rank(S, R, At(n)) = n - 1
  <2> SUFFICES ASSUME NEW n \in 1..N
               PROVE  At(n) \in S /\ Rank(S, R, At(n)) = n - 1
    OBVIOUS
  <2>1. \E i \in S : Cardinality({j \in S : j < i}) = n - 1
    BY <1>5, <1>6
  <2>2. At(n) \in S /\ Cardinality({j \in S : j < At(n)}) = n - 1
    BY <2>1
  <2> QED
    BY <1>6, <2>2
<1>8. s = [k \in 1..N |-> [id |-> At(k), text |-> rows[At(k)].text]]
  BY DEF InOrderOfIds
<1> HIDE DEF At, N, s
<1>9. DOMAIN s = 1..N /\ \A k \in 1..N : s[k] = [id |-> At(k), text |-> rows[At(k)].text] /\ s[k].id = At(k)
  BY <1>8
<1>10. s \in MessageSeqs
  <2> SUFFICES ASSUME NEW k \in 1..N PROVE s[k] \in [id : Ids, text : Texts]
    BY <1>5, <1>8, SeqDef DEF MessageSeqs
  <2>1. At(k) \in S
    BY <1>7
  <2>2. At(k) \in Ids
    BY <1>1, <2>1
  <2>3. rows[At(k)].text \in Texts
    BY <1>1, <2>1
  <2> QED
    BY <1>9, <2>2, <2>3
<1>11. \A k \in DOMAIN s : s[k].id \in S /\ s[k].text = rows[s[k].id].text
  BY <1>7, <1>9
<1>12. AllAmong(s, p, rows)
  BY <1>1, <1>11 DEF AllAmong
<1>13. \A i \in S : \E k \in DOMAIN s : s[k].id = i
  <2> SUFFICES ASSUME NEW i \in S PROVE \E k \in 1..N : At(k) = i
    BY <1>9
  <2>1. Rank(S, R, i) + 1 \in 1..N /\ Rank(S, R, i) + 1 - 1 = Rank(S, R, i)
    BY <1>5
  <2>2. At(Rank(S, R, i) + 1) = i
    BY <1>5, <1>7, <2>1
  <2> QED
    BY <2>1, <2>2
<1>14. \A j, k \in DOMAIN s : j < k => s[j].id < s[k].id
  <2> SUFFICES ASSUME NEW j \in 1..N, NEW k \in 1..N, j < k PROVE At(j) < At(k)
    BY <1>9
  <2>1. At(j) \in S /\ At(k) \in S /\ Rank(S, R, At(j)) < Rank(S, R, At(k))
    BY <1>5, <1>7
  <2>2. ~(At(k) < At(j)) /\ At(j) # At(k)
    <3>1. CASE <<At(k), At(j)>> \in R
      BY <1>5, <2>1, <3>1
    <3>2. CASE <<At(k), At(j)>> \notin R
      BY <1>3, <1>5, <2>1, <3>2
    <3> QED
      BY <3>1, <3>2
  <2>3. At(j) \in Nat /\ At(k) \in Nat
    BY <1>1, <2>1
  <2> QED
    BY <2>2, <2>3
<1> QED
  BY <1>2, <1>5, <1>9, <1>10, <1>11, <1>12, <1>13, <1>14 DEF s, N

LEMMA ContactsStep ==
  ASSUME TInv, [Next]_vars
  PROVE  ContactsOK'
<1>0. ASSUME contacts' = contacts PROVE ContactsOK'
  BY <1>0 DEF TInv, ContactsOK
<1>1. ASSUME NEW u \in Users, AddContacts(u) PROVE ContactsOK'
  <2> DEFINE v == rows[work[u].id].to
  <2>1. work[u].step = "contacts" /\ contacts' = [contacts EXCEPT ![u] = @ \cup {v}, ![v] = @ \cup {u}]
    BY <1>1 DEF AddContacts
  <2>2. work[u].id \in DOMAIN rows
    BY <2>1 DEF TInv, WorkOK, WorkFits
  <2>3. v \in Users
    BY <2>2, RowTypes DEF TInv
  <2> HIDE DEF v
  <2> QED
    BY <2>1, <2>3 DEF TInv, ContactsOK
<1>2. CASE Restart
  BY <1>2 DEF Restart, ContactsOK
<1>3. CASE UNCHANGED vars
  BY <1>0, <1>3 DEF vars
<1>4. CASE Next
  <2>0. ASSUME NEW u \in Users,
               \/ \E v \in Users \ {u} : Insert(u, v)
               \/ \E i \in Ids : Update(u, i) \/ Delete(u, i)
               \/ Deliver(u) \/ Notify(u)
        PROVE  ContactsOK'
    BY <1>0, <2>0 DEF Insert, Update, Delete, Deliver, Notify
  <2>1. CASE \/ GetUsers \/ GetGroups \/ SendHistory
             \/ \E p \in Peers, b \in 0..MaxMessages, q \in FirstPages \cup {Page} : GetLastMsgs(p, b, q)
    BY <1>0, <2>1 DEF GetUsers, GetGroups, SendHistory, GetLastMsgs, server
  <2>2. CASE \/ LogOut \/ LogIn \/ Quit
             \/ \E p \in Peers :
                  \/ UserSends(p) \/ UserScrollsUp(p)
                  \/ \E k \in DOMAIN view[p] : UserChanges(p, k) \/ UserDeletes(p, k)
    BY <1>0, <2>2 DEF LogOut, LogIn, Quit, UserSends, UserScrollsUp, UserChanges, UserDeletes, server
  <2>3. CASE \/ \E first \in [Peers -> FirstPages] : RecvUsers(first)
             \/ RecvHistory \/ RecvGroups \/ RecvSent \/ RecvMessage \/ RecvChange
    BY <1>0, <2>3 DEF RecvUsers, RecvHistory, RecvGroups, RecvSent, RecvMessage, RecvChange, server
  <2> QED
    BY <1>1, <1>2, <1>4, <2>0, <2>1, <2>2, <2>3, Steps
<1> QED
  BY <1>3, <1>4

(* what a thread that has taken up a request fits, too                     *)
LEMMA WorkStep ==
  ASSUME TInv, [Next]_vars
  PROVE  WorkOK'
<1>0. RowsOK' /\ Grows(rows, rows') /\ WorkOK /\ RowsOK
  BY RowsStep DEF TInv
<1>a. ASSUME work' = work PROVE WorkOK'
  BY <1>0, <1>a, WorkKept
<1>b. ASSUME NEW u \in Users, NEW w, work' = [work EXCEPT ![u] = w], WorkFits(u, w, rows') PROVE WorkOK'
  BY <1>0, <1>b, ThenOK
<1>c. ASSUME NEW u \in Users, work' = [work EXCEPT ![u] = NoWork] PROVE WorkOK'
  BY <1>b, <1>c, IdleFits
<1>1. ASSUME NEW u \in Users, NEW v \in Users \ {u}, Insert(u, v) PROVE WorkOK'
  <2>1. CASE Len(rows) < MaxMessages
    <3> DEFINE w == [step |-> "contacts", id |-> Len(rows) + 1]
    <3>1. rows' = Append(rows, Row(u, v)) /\ work' = [work EXCEPT ![u] = w]
      BY <1>1, <2>1 DEF Insert, Then
    <3>2. Len(rows) \in Nat /\ Len(rows) + 1 \in DOMAIN rows' /\ rows'[Len(rows) + 1] = Row(u, v)
      BY <1>0, <3>1, RowTypes, AppendProperties
    <3>3. Len(rows) + 1 \in Ids
      BY <2>1, <3>2, MessengerAssumption DEF Ids
    <3>4. WorkFits(u, w, rows')
      BY <3>2, <3>3 DEF WorkFits, Works, Row
    <3> QED
      BY <1>b, <3>1, <3>4
  <2>2. CASE ~(Len(rows) < MaxMessages)
    BY <1>a, <1>1, <2>2 DEF Insert
  <2> QED
    BY <2>1, <2>2
<1>2. ASSUME NEW u \in Users, AddContacts(u) PROVE WorkOK'
  <2> DEFINE w == [work[u] EXCEPT !.step = "deliver"]
  <2>1. WorkFits(u, work[u], rows') /\ work[u].step = "contacts"
    BY <1>0, <1>2, FitsLater DEF WorkOK, AddContacts
  <2>2. work[u] \in [step : {"contacts", "deliver"}, id : Ids]
    BY <2>1 DEF WorkFits, Works, NoWork
  <2>3. w \in [step : {"contacts", "deliver"}, id : Ids] /\ w.id = work[u].id /\ w.step = "deliver"
    BY <2>2
  <2>4. WorkFits(u, w, rows')
    <3> HIDE DEF w
    <3> QED
      BY <2>1, <2>3 DEF WorkFits, Works
  <2>5. work' = [work EXCEPT ![u] = w]
    BY <1>2 DEF AddContacts, Then
  <2> HIDE DEF w
  <2> QED
    BY <1>b, <2>4, <2>5
<1>3. ASSUME NEW u \in Users, Deliver(u) \/ Notify(u) PROVE WorkOK'
  BY <1>c, <1>3 DEF Deliver, Notify, Then
<1>n. ASSUME NEW u \in Users, NEW i \in DOMAIN rows', rows'[i].from = u, NEW t \in 1..Gone,
             work' = [work EXCEPT ![u] = IF rows[i].to = Me THEN [step |-> "notify", id |-> i, text |-> t] ELSE NoWork],
             i \in DOMAIN rows
      PROVE  WorkOK'
  <2>1. CASE rows[i].to = Me
    <3> DEFINE w == [step |-> "notify", id |-> i, text |-> t]
    <3>0. i \in Ids /\ rows'[i].to = Me
      BY <1>0, <1>n, <2>1, RowTypes DEF Grows
    <3>1. WorkFits(u, w, rows')
      BY <1>n, <3>0 DEF WorkFits, Works, Is
    <3>2. work' = [work EXCEPT ![u] = w]
      BY <1>n, <2>1
    <3> HIDE DEF w
    <3> QED
      BY <1>b, <3>1, <3>2
  <2>2. CASE rows[i].to # Me
    BY <1>c, <1>n, <2>2
  <2> QED
    BY <2>1, <2>2
<1>4. ASSUME NEW u \in Users, NEW i \in Ids, Update(u, i) PROVE WorkOK'
  <2>1. CASE i \in Stored /\ rows[i].from = u /\ rows[i].text < MaxChanges
    <3> DEFINE t == rows[i].text + 1
    <3>1. i \in DOMAIN rows /\ i \in DOMAIN rows' /\ rows'[i].from = u
      BY <1>0, <2>1 DEF Stored, Grows
    <3>2. rows[i].text \in Texts
      BY <1>0, <2>1, StoredTypes
    <3>3. t \in 1..Gone
      BY <2>1, <3>2, MessengerAssumption DEF Texts, Gone
    <3>4. work' = [work EXCEPT ![u] = IF rows[i].to = Me THEN [step |-> "notify", id |-> i, text |-> t] ELSE NoWork]
      BY <1>4, <2>1 DEF Update, Then, Notifying
    <3> HIDE DEF t
    <3> QED
      BY <1>n, <3>1, <3>3, <3>4
  <2>2. CASE ~(i \in Stored /\ rows[i].from = u /\ rows[i].text < MaxChanges)
    BY <1>a, <1>4, <2>2 DEF Update
  <2> QED
    BY <2>1, <2>2
<1>5. ASSUME NEW u \in Users, NEW i \in Ids, Delete(u, i) PROVE WorkOK'
  <2>1. CASE i \in Stored /\ rows[i].from = u
    <3>1. i \in DOMAIN rows /\ i \in DOMAIN rows' /\ rows'[i].from = u
      BY <1>0, <2>1 DEF Stored, Grows
    <3>3. Gone \in 1..Gone
      BY MessengerAssumption DEF Gone
    <3>4. work' = [work EXCEPT ![u] = IF rows[i].to = Me THEN [step |-> "notify", id |-> i, text |-> Gone] ELSE NoWork]
      BY <1>5, <2>1 DEF Delete, Then, Notifying
    <3> QED
      BY <1>n, <3>1, <3>3, <3>4
  <2>2. CASE ~(i \in Stored /\ rows[i].from = u)
    BY <1>a, <1>5, <2>2 DEF Delete
  <2> QED
    BY <2>1, <2>2
<1>6. ASSUME NEW p \in Peers, NEW b, NEW q, GetLastMsgs(p, b, q) PROVE WorkOK'
  <2> DEFINE s == LastMessages(Me, p, b, q)
             w == [step |-> "history", peer |-> p, messages |-> s]
  <2>1. s \in MessageSeqs /\ AllAmong(s, p, rows)
    BY <1>0, PageFits DEF LastMessages
  <2>2. rows' = rows /\ work' = [work EXCEPT ![Me] = w]
    BY <1>6 DEF GetLastMsgs, Then
  <2> HIDE DEF s
  <2>3. WorkFits(Me, w, rows)
    BY <2>1 DEF WorkFits, Works
  <2> HIDE DEF w
  <2> QED
    BY <1>b, <2>2, <2>3, Apart
<1>7. CASE SendHistory
  BY <1>c, <1>7, Apart DEF SendHistory, Then
<1>8. CASE Restart
  BY <1>8, IdleFits DEF Restart, WorkOK
<1>9. CASE UNCHANGED vars
  BY <1>a, <1>9 DEF vars
<1>10. CASE Next
  <2>1. CASE GetUsers \/ GetGroups
    BY <1>a, <2>1 DEF GetUsers, GetGroups, server
  <2>2. CASE \/ LogOut \/ LogIn \/ Quit
             \/ \E p \in Peers :
                  \/ UserSends(p) \/ UserScrollsUp(p)
                  \/ \E k \in DOMAIN view[p] : UserChanges(p, k) \/ UserDeletes(p, k)
    BY <1>a, <2>2 DEF LogOut, LogIn, Quit, UserSends, UserScrollsUp, UserChanges, UserDeletes, server
  <2>3. CASE \/ \E first \in [Peers -> FirstPages] : RecvUsers(first)
             \/ RecvHistory \/ RecvGroups \/ RecvSent \/ RecvMessage \/ RecvChange
    BY <1>a, <2>3 DEF RecvUsers, RecvHistory, RecvGroups, RecvSent, RecvMessage, RecvChange, server
  <2> QED
    BY <1>1, <1>2, <1>3, <1>4, <1>5, <1>6, <1>7, <1>8, <1>10, <2>1, <2>2, <2>3, Steps
<1> QED
  BY <1>9, <1>10

(* what is written, or not, and what is taken from the connection          *)
LEMMA WriteOK ==
  ASSUME ChannelOK, Grows(rows, rows'), NEW f, FrameFits(f, rows'), Write(f)
  PROVE  ChannelOK'
<1>1. \A n \in DOMAIN channel : FrameFits(channel[n], rows')
  BY FitsLater DEF ChannelOK
<1>2. CASE channel' = channel
  BY <1>1, <1>2 DEF ChannelOK
<1>3. CASE channel' = Append(channel, f)
  <2>1. f \in Frames
    BY DEF FrameFits
  <2>2. /\ channel' \in Seq(Frames) /\ DOMAIN channel' = 1..Len(channel) + 1 /\ DOMAIN channel = 1..Len(channel)
        /\ \A n \in 1..Len(channel) : channel'[n] = channel[n]
        /\ channel'[Len(channel) + 1] = f /\ Len(channel) \in Nat
    BY <1>3, <2>1, AppendProperties, LenProperties DEF ChannelOK
  <2>3. \A n \in DOMAIN channel' : n \in DOMAIN channel \/ n = Len(channel) + 1
    BY <2>2
  <2> QED
    BY <1>1, <2>2, <2>3 DEF ChannelOK
<1> QED
  BY <1>2, <1>3 DEF Write

LEMMA TakenOK ==
  ASSUME ChannelOK, Grows(rows, rows'), channel # <<>>, Taken
  PROVE  ChannelOK'
<1>1. \A n \in DOMAIN channel : FrameFits(channel[n], rows')
  BY FitsLater DEF ChannelOK
<1>2. /\ channel' \in Seq(Frames) /\ DOMAIN channel' = 1..Len(channel) - 1 /\ DOMAIN channel = 1..Len(channel)
      /\ Len(channel) \in Nat /\ \A n \in 1..Len(channel) - 1 : channel'[n] = channel[n + 1]
  BY HeadTailProperties, LenProperties DEF ChannelOK, Taken
<1>3. \A n \in DOMAIN channel' : n + 1 \in DOMAIN channel /\ channel'[n] = channel[n + 1]
  BY <1>2
<1> QED
  BY <1>1, <1>2, <1>3 DEF ChannelOK

LEMMA NothingLeftOK == ASSUME channel' = <<>> PROVE ChannelOK'
BY DEF ChannelOK

LEMMA FirstFrame ==
  ASSUME ChannelOK, channel # <<>>
  PROVE  /\ Head(channel) = channel[1] /\ 1 \in DOMAIN channel
         /\ Head(channel) \in Frames /\ FrameFits(Head(channel), rows)
<1>1. channel \in Seq(Frames)
  BY DEF ChannelOK
<1>2. Head(channel) = channel[1] /\ 1 \in DOMAIN channel
  BY <1>1, HeadTailProperties, LenProperties, EmptySeq
<1> QED
  BY <1>2 DEF ChannelOK, FrameFits

LEMMA ChannelStep ==
  ASSUME TInv, [Next]_vars
  PROVE  ChannelOK'
<1>0. RowsOK' /\ Grows(rows, rows') /\ ChannelOK /\ RowsOK /\ WorkOK
  BY RowsStep DEF TInv
<1>a. ASSUME channel' = channel PROVE ChannelOK'
  BY <1>0, <1>a, FitsLater DEF ChannelOK
<1>w. ASSUME NEW f, FrameFits(f, rows'), Write(f) PROVE ChannelOK'
  BY <1>0, <1>w, WriteOK
<1>1. ASSUME NEW u \in Users, Deliver(u) PROVE ChannelOK'
  <2> DEFINE i == work[u].id
  <2>1. work[u].step = "deliver" /\ rows' = rows
    BY <1>1 DEF Deliver
  <2>2. i \in DOMAIN rows /\ rows[i].from = u /\ i \in Ids
    BY <1>0, <2>1, RowTypes DEF WorkOK, WorkFits
  <2>3. rows[i].to \in Users /\ rows[i].to # u /\ 0 \in Texts
    BY <1>0, <2>2, RowTypes, MessengerAssumption DEF Texts
  <2>4. CASE u = Me
    <3> DEFINE f == [code |-> "sent", peer |-> rows[i].to, id |-> i, text |-> 0]
    <3>0. rows[i].to \in Peers
      BY <2>3, <2>4, Apart
    <3>1. f \in Frames
      BY <2>2, <2>3, <3>0 DEF Frames
    <3>2. FrameFits(f, rows)
      BY <2>2, <2>4, <3>1 DEF FrameFits, Is
    <3>3. Write(f)
      BY <1>1, <2>4 DEF Deliver
    <3> HIDE DEF f
    <3> QED
      BY <1>w, <2>1, <3>2, <3>3
  <2>5. CASE u # Me /\ rows[i].to = Me
    <3> DEFINE f == [code |-> "message", peer |-> u, id |-> i, text |-> 0]
    <3>0. u \in Peers
      BY <2>5, Apart
    <3>1. f \in Frames
      BY <2>2, <2>3, <3>0 DEF Frames
    <3>2. FrameFits(f, rows)
      BY <2>2, <2>5, <3>1 DEF FrameFits, Is
    <3>3. Write(f)
      BY <1>1, <2>5 DEF Deliver
    <3> HIDE DEF f
    <3> QED
      BY <1>w, <2>1, <3>2, <3>3
  <2>6. CASE u # Me /\ rows[i].to # Me
    BY <1>1, <1>a, <2>6 DEF Deliver
  <2> QED
    BY <2>4, <2>5, <2>6
<1>2. ASSUME NEW u \in Users, Notify(u) PROVE ChannelOK'
  <2> DEFINE f == [code |-> IF work[u].text = Gone THEN "deleted" ELSE "changed",
                   peer |-> u, id |-> work[u].id, text |-> work[u].text]
  <2>1. work[u].step = "notify" /\ rows' = rows /\ Write(f)
    BY <1>2 DEF Notify
  <2>2. Is(work[u].id, u, Me, rows) /\ work[u] \in Works
    BY <1>0, <2>1 DEF WorkOK, WorkFits
  <2>3. work[u].id \in Ids /\ work[u].text \in 1..Gone
    BY <2>1, <2>2, WorkTypes
  <2>4. u \in Peers
    BY <1>0, <2>2, RowTypes, Apart DEF Is
  <2>5. f \in Frames
    BY <2>3, <2>4, MessengerAssumption DEF Frames, Texts, Gone
  <2>6. FrameFits(f, rows)
    BY <2>2, <2>5 DEF FrameFits
  <2> HIDE DEF f
  <2> QED
    BY <1>w, <2>1, <2>6
<1>3. CASE GetUsers \/ GetGroups
  <2>1. \A c \in {"users", "error", "groups"} : FrameFits([code |-> c], rows)
    BY DEF FrameFits, Frames
  <2> QED
    BY <1>w, <1>3, <2>1 DEF GetUsers, GetGroups, server
<1>4. CASE SendHistory
  <2> DEFINE f == [code |-> "history", peer |-> work[Me].peer, messages |-> work[Me].messages]
  <2>1. work[Me].step = "history" /\ rows' = rows /\ Write(f)
    BY <1>4 DEF SendHistory
  <2>2. work[Me] \in Works /\ AllAmong(work[Me].messages, work[Me].peer, rows)
    BY <1>0, <2>1, Apart DEF WorkOK, WorkFits
  <2>3. f \in Frames
    BY <2>1, <2>2, WorkTypes DEF Frames
  <2>4. FrameFits(f, rows)
    BY <2>2, <2>3 DEF FrameFits
  <2> HIDE DEF f
  <2> QED
    BY <1>w, <2>1, <2>4
<1>5. CASE \/ \E first \in [Peers -> FirstPages] : RecvUsers(first)
           \/ RecvHistory \/ RecvGroups \/ RecvSent \/ RecvMessage \/ RecvChange
  BY <1>0, <1>5, TakenOK DEF RecvUsers, RecvHistory, RecvGroups, RecvSent, RecvMessage, RecvChange, Reads
<1>6. CASE Restart \/ Quit
  BY <1>6, NothingLeftOK DEF Restart, Quit
<1>9. CASE UNCHANGED vars
  BY <1>a, <1>9 DEF vars
<1>10. CASE Next
  <2>1. ASSUME NEW u \in Users,
               \/ \E v \in Users \ {u} : Insert(u, v)
               \/ \E i \in Ids : Update(u, i) \/ Delete(u, i)
               \/ AddContacts(u)
        PROVE  ChannelOK'
    BY <1>a, <2>1 DEF Insert, Update, Delete, AddContacts
  <2>2. CASE \/ LogOut \/ LogIn
             \/ \E p \in Peers, b \in 0..MaxMessages, q \in FirstPages \cup {Page} : GetLastMsgs(p, b, q)
             \/ \E p \in Peers :
                  \/ UserSends(p) \/ UserScrollsUp(p)
                  \/ \E k \in DOMAIN view[p] : UserChanges(p, k) \/ UserDeletes(p, k)
    BY <1>a, <2>2 DEF LogOut, LogIn, GetLastMsgs, UserSends, UserScrollsUp, UserChanges, UserDeletes
  <2> QED
    BY <1>1, <1>2, <1>3, <1>4, <1>5, <1>6, <1>10, <2>1, <2>2, Steps
<1> QED
  BY <1>9, <1>10

-----------------------------------------------------------------------------
(* requests: what is read, and what the client adds                        *)

LEMMA ReadKeeps ==
  ASSUME RequestsOK, NEW u, NEW r, Read(u, r)
  PROVE  RequestsOK'
<1>1. CASE u = Me
  <2>1. requests # <<>> /\ requests' = Tail(requests) /\ requests \in Seq(Requests)
    BY <1>1 DEF Read, RequestsOK
  <2> QED
    BY <2>1, HeadTailProperties DEF RequestsOK
<1>2. CASE u # Me
  BY <1>2 DEF Read, RequestsOK
<1> QED
  BY <1>1, <1>2

LEMMA AskKeeps ==
  ASSUME RequestsOK, NEW s \in Seq(Requests), Ask(s)
  PROVE  RequestsOK'
BY ConcatProperties DEF RequestsOK, Ask

LEMMA AskOne ==
  ASSUME RequestsOK, NEW r \in Requests, Ask(<<r>>)
  PROVE  RequestsOK'
<1>1. <<r>> \in Seq(Requests)
  OBVIOUS
<1> QED
  BY <1>1, AskKeeps

(* a finite set has a sequence of its members, each of them once           *)
LEMMA SetToSeqOf ==
  ASSUME NEW S, IsFiniteSet(S)
  PROVE  /\ SetToSeq(S) \in Seq(S)
         /\ Len(SetToSeq(S)) = Cardinality(S) /\ Cardinality(S) \in Nat
         /\ DOMAIN SetToSeq(S) = 1..Cardinality(S)
         /\ \A x \in S : \E k \in 1..Cardinality(S) : SetToSeq(S)[k] = x
         /\ \A j, k \in 1..Cardinality(S) : SetToSeq(S)[j] = SetToSeq(S)[k] => j = k
<1> DEFINE N == Cardinality(S)
           g == SetToSeq(S)
<1>1. N \in Nat /\ ExistsBijection(1..N, S)
  BY FS_CardinalityType
<1>2. PICK f : f \in Bijection(1..N, S)
  BY <1>1 DEF ExistsBijection
<1>3. f \in [1..N -> S] /\ IsInjective(f)
  BY <1>2 DEF Bijection, Injection
<1>4. g = CHOOSE h \in [1..N -> S] : IsInjective(h)
  BY DEF SetToSeq
<1> HIDE DEF g, N
<1>5. g \in [1..N -> S] /\ IsInjective(g)
  BY <1>3, <1>4
<1>6. IsFiniteSet(1..N) /\ Cardinality(1..N) = N
  <2>1. 1 \in Int /\ N \in Int
    BY <1>1
  <2>2. IsFiniteSet(1..N) /\ Cardinality(1..N) = IF 1 > N THEN 0 ELSE N - 1 + 1
    BY <2>1, FS_Interval
  <2> QED
    BY <1>1, <2>2
<1>7. g \in Injection(1..N, S)
  BY <1>5 DEF Injection
<1>8. g \in Surjection(1..N, S)
  BY <1>6, <1>7, FS_Injection DEF N
<1>9. \A x \in S : \E k \in 1..N : g[k] = x
  BY <1>8 DEF Surjection
<1>10. g \in Seq(S) /\ Len(g) = N /\ DOMAIN g = 1..N
  BY <1>1, <1>5, SeqDef
<1> QED
  BY <1>1, <1>5, <1>9, <1>10 DEF g, N, IsInjective

LEMMA RequestsStep ==
  ASSUME TInv, [Next]_vars
  PROVE  RequestsOK'
<1>0. RequestsOK /\ RowsOK /\ ViewOK /\ ClientOK
  BY DEF TInv
<1>a. ASSUME requests' = requests PROVE RequestsOK'
  BY <1>0, <1>a DEF RequestsOK
<1>r. ASSUME NEW u, NEW r, Read(u, r) PROVE RequestsOK'
  BY <1>0, <1>r, ReadKeeps
<1>s. ASSUME NEW r \in Requests, Ask(<<r>>) PROVE RequestsOK'
  BY <1>0, <1>s, AskOne
<1>1. ASSUME NEW u \in Users,
             \/ \E v \in Users \ {u} : Insert(u, v)
             \/ \E i \in Ids : Update(u, i) \/ Delete(u, i)
      PROVE  RequestsOK'
  BY <1>r, <1>1 DEF Insert, Update, Delete
<1>2. CASE \/ GetUsers \/ GetGroups
           \/ \E p \in Peers, b \in 0..MaxMessages, q \in FirstPages \cup {Page} : GetLastMsgs(p, b, q)
  BY <1>r, <1>2 DEF GetUsers, GetGroups, GetLastMsgs
<1>3. CASE Restart
  BY <1>3 DEF Restart, RequestsOK
<1>4. CASE LogIn
  <2>1. [code |-> "users"] \in Requests
    BY DEF Requests
  <2> QED
    BY <1>s, <1>4, <2>1 DEF LogIn
<1>5. ASSUME NEW p \in Peers, UserSends(p) PROVE RequestsOK'
  <2>1. [code |-> "send", peer |-> p] \in Requests
    BY Apart DEF Requests
  <2> QED
    BY <1>s, <1>5, <2>1 DEF UserSends
<1>6. ASSUME NEW p \in Peers, UserScrollsUp(p) PROVE RequestsOK'
  <2>1. cursor[p] \in 0..MaxMessages
    BY <1>0 DEF ClientOK
  <2>2. [code |-> "history", peer |-> p, before |-> cursor[p], qty |-> Page] \in Requests
    BY <2>1 DEF Requests
  <2> QED
    BY <1>s, <1>6, <2>2 DEF UserScrollsUp
<1>7. ASSUME NEW p \in Peers, NEW k \in DOMAIN view[p], UserChanges(p, k) \/ UserDeletes(p, k) PROVE RequestsOK'
  <2>1. PICK c \in {"update", "delete"}, q \in Peers : \E l \in DOMAIN view[q] : Ask(<<[code |-> c, id |-> view[q][l].id]>>)
    BY <1>7 DEF UserChanges, UserDeletes
  <2>2. PICK l \in DOMAIN view[q] : Ask(<<[code |-> c, id |-> view[q][l].id]>>)
    BY <2>1
  <2>3. view[q][l] \in ShownEntries
    BY <1>0, ElementOfSeq, LenProperties DEF ViewOK
  <2>4. [code |-> c, id |-> view[q][l].id] \in Requests
    BY <2>3 DEF ShownEntries, Requests
  <2>5. channel' = channel /\ rows' = rows
    BY <1>7 DEF UserChanges, UserDeletes, server
  <2> QED
    BY <1>s, <2>2, <2>4, <2>5
<1>8. ASSUME NEW first \in [Peers -> FirstPages], RecvUsers(first) PROVE RequestsOK'
  <2> DEFINE S == {[code |-> "history", peer |-> p, before |-> 0, qty |-> first[p]] : p \in Peers}
  <2>1. IsFiniteSet(S)
    <3> DEFINE f == [p \in Peers |-> [code |-> "history", peer |-> p, before |-> 0, qty |-> first[p]]]
    <3>1. f \in Surjection(Peers, S)
      BY DEF Surjection
    <3> HIDE DEF f, S
    <3> QED
      BY <3>1, MessengerAssumption, FS_Surjection
  <2>2. S \subseteq Requests
    <3> SUFFICES ASSUME NEW p \in Peers
                 PROVE  [code |-> "history", peer |-> p, before |-> 0, qty |-> first[p]] \in Requests
      OBVIOUS
    <3>1. first[p] \in FirstPages /\ 0 \in 0..MaxMessages
      BY MessengerAssumption
    <3> QED
      BY <3>1 DEF Requests
  <2>3. Ask(SetToSeq(S))
    BY <1>8 DEF RecvUsers
  <2> HIDE DEF S
  <2>4. SetToSeq(S) \in Seq(Requests)
    BY <2>1, <2>2, SetToSeqOf, SeqDef
  <2> QED
    BY <1>0, <2>3, <2>4, AskKeeps
<1>9. CASE RecvHistory
  <2>1. [code |-> "groups"] \in Requests
    BY DEF Requests
  <2> QED
    BY <1>a, <1>s, <1>9, <2>1 DEF RecvHistory
<1>10. CASE UNCHANGED vars
  BY <1>a, <1>10 DEF vars
<1>11. CASE Next
  <2>1. ASSUME NEW u \in Users, AddContacts(u) \/ Deliver(u) \/ Notify(u) PROVE RequestsOK'
    BY <1>a, <2>1 DEF AddContacts, Deliver, Notify
  <2>2. CASE SendHistory \/ LogOut \/ Quit \/ RecvGroups \/ RecvSent \/ RecvMessage \/ RecvChange
    BY <1>a, <2>2 DEF SendHistory, LogOut, Quit, RecvGroups, RecvSent, RecvMessage, RecvChange
  <2> QED
    BY <1>1, <1>2, <1>3, <1>4, <1>5, <1>6, <1>7, <1>8, <1>9, <1>11, <2>1, <2>2, Steps
<1> QED
  BY <1>10, <1>11

-----------------------------------------------------------------------------
(* The view                                                                *)

(* messages that can be shown: those of a list, or the one of an event     *)
Showable(ms, p, R) ==
  /\ \E n \in Nat : DOMAIN ms = 1..n
  /\ \A k \in DOMAIN ms : ms[k].id \in Ids /\ ms[k].text \in Texts \cup {Gone}
  /\ AllAmong(ms, p, R)

LEMMA ListShowable ==
  ASSUME NEW f, NEW R, FrameFits(f, R), f.code = "history"
  PROVE  f.peer \in Peers /\ Showable(f.messages, f.peer, R)
<1>1. f.peer \in Peers /\ f.messages \in MessageSeqs /\ AllAmong(f.messages, f.peer, R)
  BY FrameTypes DEF FrameFits
<1>2. \A k \in DOMAIN f.messages : f.messages[k] \in [id : Ids, text : Texts]
  BY <1>1, ElementOfSeq, LenProperties DEF MessageSeqs
<1>3. Len(f.messages) \in Nat /\ DOMAIN f.messages = 1..Len(f.messages)
  BY <1>1, LenProperties DEF MessageSeqs
<1> QED
  BY <1>1, <1>2, <1>3 DEF Showable

LEMMA EventShowable ==
  ASSUME NEW f, NEW R, FrameFits(f, R), f.code \in {"sent", "message"}
  PROVE  f.peer \in Peers /\ Showable(<<f>>, f.peer, R)
<1>1. f.peer \in Peers /\ f.id \in Ids /\ f.text \in Texts \cup {Gone} /\ Among(f.id, f.peer, R)
  BY FrameTypes DEF FrameFits, Among
<1>2. DOMAIN <<f>> = 1..1 /\ \A k \in DOMAIN <<f>> : <<f>>[k] = f
  OBVIOUS
<1> DEFINE s == <<f>>
<1> HIDE DEF s
<1>3. DOMAIN s = 1..1 /\ \A k \in DOMAIN s : s[k] = f
  BY <1>2 DEF s
<1>4. Showable(s, f.peer, R)
  BY <1>1, <1>3 DEF Showable, AllAmong
<1> QED
  BY <1>1, <1>4 DEF s

LEMMA EntriesOK ==
  ASSUME NEW ms, NEW p, NEW R, Showable(ms, p, R), NEW by \in {"list", "event"}
  PROVE  /\ Entries(ms, by) \in Seq(ShownEntries) /\ DOMAIN Entries(ms, by) = DOMAIN ms
         /\ AllAmong(Entries(ms, by), p, R)
         /\ \A k \in DOMAIN ms : Entries(ms, by)[k] = [id |-> ms[k].id, text |-> ms[k].text, by |-> by, live |-> TRUE]
<1> DEFINE e == Entries(ms, by)
<1>1. e = [k \in DOMAIN ms |-> [id |-> ms[k].id, text |-> ms[k].text, by |-> by, live |-> TRUE]]
  BY DEF Entries
<1> HIDE DEF e
<1>2. /\ DOMAIN e = DOMAIN ms
      /\ \A k \in DOMAIN ms : e[k] = [id |-> ms[k].id, text |-> ms[k].text, by |-> by, live |-> TRUE]
  BY <1>1
<1>3. \A k \in DOMAIN ms : e[k] \in ShownEntries /\ e[k].id = ms[k].id
  <2> SUFFICES ASSUME NEW k \in DOMAIN ms PROVE e[k] \in ShownEntries /\ e[k].id = ms[k].id
    OBVIOUS
  <2>1. ms[k].id \in Ids /\ ms[k].text \in Texts \cup {Gone}
    BY DEF Showable
  <2>2. e[k] = [id |-> ms[k].id, text |-> ms[k].text, by |-> by, live |-> TRUE]
    BY <1>2
  <2> QED
    BY <2>1, <2>2 DEF ShownEntries
<1>4. PICK n \in Nat : DOMAIN ms = 1..n
  BY DEF Showable
<1>5. e \in Seq(ShownEntries)
  BY <1>1, <1>3, <1>4, SeqDef
<1> QED
  BY <1>2, <1>3, <1>5 DEF e, Showable, AllAmong

(* the same messages, of which something else may have changed             *)
SameIds(s, t) == t \in Seq(ShownEntries) /\ DOMAIN t = DOMAIN s /\ \A k \in DOMAIN s : t[k].id = s[k].id

LEMMA SupersededOK ==
  ASSUME NEW s \in Seq(ShownEntries), NEW ids, NEW t, t = Superseded(s, ids)
  PROVE  SameIds(s, t)
<1>1. t = [k \in DOMAIN s |-> IF s[k].id \in ids THEN [s[k] EXCEPT !.live = FALSE] ELSE s[k]]
  BY DEF Superseded
<1>2. DOMAIN s = 1..Len(s) /\ Len(s) \in Nat /\ \A k \in DOMAIN s : s[k] \in ShownEntries
  BY LenProperties, ElementOfSeq
<1>3. ASSUME NEW k \in DOMAIN s PROVE t[k] \in ShownEntries /\ t[k].id = s[k].id
  <2>1. s[k] \in ShownEntries
    BY <1>2
  <2>2. CASE s[k].id \in ids
    <3>1. t[k] = [s[k] EXCEPT !.live = FALSE]
      BY <1>1, <2>2
    <3> QED
      BY <2>1, <3>1 DEF ShownEntries
  <2>3. CASE s[k].id \notin ids
    BY <1>1, <2>1, <2>3
  <2> QED
    BY <2>2, <2>3
<1>4. t \in Seq(ShownEntries) /\ DOMAIN t = DOMAIN s
  <2>1. t \in [1..Len(s) -> ShownEntries]
    BY <1>1, <1>2, <1>3
  <2> QED
    BY <1>2, <2>1, SeqDef
<1> QED
  BY <1>3, <1>4 DEF SameIds

(* two sequences of entries, one after the other                           *)
LEMMA Joined ==
  ASSUME NEW s \in Seq(ShownEntries), NEW t \in Seq(ShownEntries), NEW p, NEW R, AllAmong(s, p, R), AllAmong(t, p, R)
  PROVE  /\ s \o t \in Seq(ShownEntries) /\ AllAmong(s \o t, p, R)
         /\ DOMAIN (s \o t) = 1..(Len(s) + Len(t)) /\ Len(s) \in Nat /\ Len(t) \in Nat
         /\ DOMAIN s = 1..Len(s) /\ DOMAIN t = 1..Len(t)
         /\ \A k \in DOMAIN s : k \in DOMAIN (s \o t) /\ (s \o t)[k] = s[k]
         /\ \A k \in DOMAIN t : Len(s) + k \in DOMAIN (s \o t) /\ (s \o t)[Len(s) + k] = t[k]
         /\ \A k \in DOMAIN (s \o t) : k \in DOMAIN s \/ k - Len(s) \in DOMAIN t
<1> DEFINE c == s \o t
<1>1. /\ c \in Seq(ShownEntries) /\ Len(c) = Len(s) + Len(t)
      /\ \A k \in 1..Len(s) : c[k] = s[k]
      /\ \A k \in Len(s)+1..Len(s)+Len(t) : c[k] = t[k - Len(s)]
  BY ConcatProperties
<1>2. /\ Len(s) \in Nat /\ Len(t) \in Nat
      /\ DOMAIN s = 1..Len(s) /\ DOMAIN t = 1..Len(t) /\ DOMAIN c = 1..(Len(s) + Len(t))
  BY <1>1, LenProperties
<1> HIDE DEF c
<1>3. \A k \in DOMAIN s : k \in DOMAIN c /\ c[k] = s[k]
  BY <1>1, <1>2
<1>4. ASSUME NEW k \in DOMAIN t PROVE Len(s) + k \in DOMAIN c /\ c[Len(s) + k] = t[k]
  <2>1. Len(s) + k \in Len(s)+1..Len(s)+Len(t) /\ (Len(s) + k) - Len(s) = k /\ Len(s) + k \in DOMAIN c
    BY <1>2
  <2> QED
    BY <1>1, <2>1
<1>5. \A k \in DOMAIN c : k \in DOMAIN s \/ k - Len(s) \in DOMAIN t
  BY <1>2
<1>6. AllAmong(c, p, R)
  <2> SUFFICES ASSUME NEW k \in DOMAIN c PROVE Among(c[k].id, p, R)
    BY DEF AllAmong
  <2>1. CASE k \in DOMAIN s
    BY <1>3, <2>1 DEF AllAmong
  <2>2. CASE k - Len(s) \in DOMAIN t
    <3>1. Len(s) + (k - Len(s)) = k
      BY <1>2
    <3>2. c[k] = t[k - Len(s)]
      BY <1>4, <2>2, <3>1
    <3> QED
      BY <2>2, <3>2 DEF AllAmong
  <2> QED
    BY <1>5, <2>1, <2>2
<1> QED
  BY <1>1, <1>2, <1>3, <1>4, <1>5, <1>6 DEF c

LEMMA ShownIds ==
  /\ \A p : Shown(p) = IdsOf(view[p])
  /\ \A p : Shown(p)' = IdsOf(view'[p])
BY DEF Shown, IdsOf

(* what is shown of one chat when messages are put below or above          *)
LEMMA Showing ==
  ASSUME ViewOK, rows' = rows, NEW p \in Peers, NEW ms, Showable(ms, p, rows),
         (\E by \in {"list", "event"} : Below(p, ms, by)) \/ Above(p, ms)
  PROVE  ViewOK' /\ Shown(p)' = Shown(p) \cup IdsOf(ms) /\ \A q \in Peers \ {p} : view'[q] = view[q]
<1> DEFINE s == Superseded(view[p], IdsOf(ms))
<1>0. view[p] \in Seq(ShownEntries) /\ AllAmong(view[p], p, rows)
  BY DEF ViewOK
<1>1. /\ s \in Seq(ShownEntries) /\ DOMAIN s = DOMAIN view[p]
      /\ \A k \in DOMAIN view[p] : s[k].id = view[p][k].id
  <2>1. SameIds(view[p], s)
    BY <1>0, SupersededOK
  <2> HIDE DEF s
  <2> QED
    BY <2>1 DEF SameIds
<1> HIDE DEF s
<1>2. AllAmong(s, p, rows)
  BY <1>0, <1>1 DEF AllAmong
<1>3. ASSUME NEW a \in Seq(ShownEntries), NEW b \in Seq(ShownEntries), AllAmong(a, p, rows), AllAmong(b, p, rows),
             view' = [view EXCEPT ![p] = a \o b],
             IdsOf(a) \cup IdsOf(b) = Shown(p) \cup IdsOf(ms)
      PROVE  ViewOK' /\ Shown(p)' = Shown(p) \cup IdsOf(ms) /\ \A q \in Peers \ {p} : view'[q] = view[q]
  <2> DEFINE c == a \o b
  <2>1. /\ c \in Seq(ShownEntries) /\ AllAmong(c, p, rows) /\ Len(a) \in Nat
        /\ DOMAIN a = 1..Len(a) /\ DOMAIN b = 1..Len(b) /\ DOMAIN c = 1..(Len(a) + Len(b)) /\ Len(b) \in Nat
        /\ \A k \in DOMAIN a : k \in DOMAIN c /\ c[k] = a[k]
        /\ \A k \in DOMAIN b : Len(a) + k \in DOMAIN c /\ c[Len(a) + k] = b[k]
        /\ \A k \in DOMAIN c : k \in DOMAIN a \/ k - Len(a) \in DOMAIN b
    BY <1>3, Joined
  <2> HIDE DEF c
  <2>2. view' = [view EXCEPT ![p] = c] /\ view \in [Peers -> Seq(ShownEntries)]
    BY <1>3 DEF c, ViewOK
  <2>3. view'[p] = c /\ \A q \in Peers \ {p} : view'[q] = view[q]
    BY <2>2
  <2>4. view' \in [Peers -> Seq(ShownEntries)]
    BY <2>1, <2>2
  <2>5. \A q \in Peers : AllAmong(view'[q], q, rows)
    BY <2>1, <2>3 DEF ViewOK
  <2>6. IdsOf(c) = IdsOf(a) \cup IdsOf(b)
    <3>1. ASSUME NEW k \in DOMAIN c
          PROVE  c[k].id \in IdsOf(a) \cup IdsOf(b)
      <4>1. CASE k \in DOMAIN a
        BY <2>1, <4>1 DEF IdsOf
      <4>2. CASE k - Len(a) \in DOMAIN b
        <5>1. Len(a) + (k - Len(a)) = k
          BY <2>1
        <5>2. c[k] = b[k - Len(a)]
          BY <2>1, <4>2, <5>1
        <5> QED
          BY <4>2, <5>2 DEF IdsOf
      <4> QED
        BY <2>1, <4>1, <4>2
    <3>2. ASSUME NEW k \in DOMAIN a PROVE a[k].id \in IdsOf(c)
      <4>1. k \in DOMAIN c /\ c[k] = a[k]
        BY <2>1
      <4> QED
        BY <4>1 DEF IdsOf
    <3>3. ASSUME NEW k \in DOMAIN b PROVE b[k].id \in IdsOf(c)
      <4>1. Len(a) + k \in DOMAIN c /\ c[Len(a) + k] = b[k]
        BY <2>1
      <4> QED
        BY <4>1 DEF IdsOf
    <3> QED
      BY <3>1, <3>2, <3>3 DEF IdsOf
  <2>7. Shown(p)' = IdsOf(c)
    BY <2>3, ShownIds
  <2> QED
    BY <1>3, <2>3, <2>4, <2>5, <2>6, <2>7 DEF ViewOK
<1>4. IdsOf(s) = Shown(p)
  BY <1>1 DEF Shown, IdsOf
<1>5. ASSUME NEW by \in {"list", "event"}
      PROVE  /\ Entries(ms, by) \in Seq(ShownEntries) /\ AllAmong(Entries(ms, by), p, rows)
             /\ IdsOf(Entries(ms, by)) = IdsOf(ms)
  <2> DEFINE e == Entries(ms, by)
  <2>1. /\ e \in Seq(ShownEntries) /\ DOMAIN e = DOMAIN ms /\ AllAmong(e, p, rows)
        /\ \A k \in DOMAIN ms : e[k] = [id |-> ms[k].id, text |-> ms[k].text, by |-> by, live |-> TRUE]
    BY EntriesOK
  <2> HIDE DEF e
  <2>2. \A k \in DOMAIN ms : e[k].id = ms[k].id
    BY <2>1
  <2>3. IdsOf(e) = IdsOf(ms)
    BY <2>1, <2>2 DEF IdsOf
  <2> QED
    BY <2>1, <2>3 DEF e
<1>6. ASSUME NEW by \in {"list", "event"}, Below(p, ms, by)
      PROVE  ViewOK' /\ Shown(p)' = Shown(p) \cup IdsOf(ms) /\ \A q \in Peers \ {p} : view'[q] = view[q]
  <2> DEFINE e == Entries(ms, by)
  <2>1. view' = [view EXCEPT ![p] = s \o e]
    BY <1>6 DEF Below, s
  <2>2. e \in Seq(ShownEntries) /\ AllAmong(e, p, rows) /\ IdsOf(e) = IdsOf(ms)
    BY <1>5
  <2> HIDE DEF e
  <2>3. IdsOf(s) \cup IdsOf(e) = Shown(p) \cup IdsOf(ms)
    BY <1>4, <2>2
  <2> QED
    BY <1>1, <1>2, <1>3, <2>1, <2>2, <2>3
<1>7. CASE Above(p, ms)
  <2> DEFINE e == Entries(ms, "list")
  <2>1. view' = [view EXCEPT ![p] = e \o s]
    BY <1>7 DEF Above, s
  <2>2. e \in Seq(ShownEntries) /\ AllAmong(e, p, rows) /\ IdsOf(e) = IdsOf(ms)
    BY <1>5
  <2> HIDE DEF e
  <2>3. IdsOf(e) \cup IdsOf(s) = Shown(p) \cup IdsOf(ms)
    BY <1>4, <2>2
  <2> QED
    BY <1>1, <1>2, <1>3, <2>1, <2>2, <2>3
<1> QED
  BY <1>6, <1>7

LEMMA Retexted ==
  ASSUME ViewOK, rows' = rows, NEW p \in Peers, NEW t, view' = [view EXCEPT ![p] = t], SameIds(view[p], t)
  PROVE  ViewOK' /\ \A q \in Peers : Shown(q)' = Shown(q)
<1>1. view \in [Peers -> Seq(ShownEntries)] /\ \A q \in Peers : AllAmong(view[q], q, rows)
  BY DEF ViewOK
<1>2. view' \in [Peers -> Seq(ShownEntries)] /\ view'[p] = t /\ \A q \in Peers \ {p} : view'[q] = view[q]
  BY <1>1 DEF SameIds
<1>3. AllAmong(t, p, rows)
  BY <1>1 DEF AllAmong, SameIds
<1>4. \A q \in Peers : AllAmong(view'[q], q, rows)
  BY <1>1, <1>2, <1>3
<1>5. IdsOf(t) = IdsOf(view[p])
  BY DEF SameIds, IdsOf
<1> QED
  <2>1. \A q \in Peers : Shown(q)' = Shown(q)
    <3> SUFFICES ASSUME NEW q \in Peers PROVE IdsOf(view'[q]) = IdsOf(view[q])
      BY ShownIds
    <3>1. CASE q = p
      BY <1>2, <1>5, <3>1
    <3>2. CASE q # p
      BY <1>2, <3>2
    <3> QED
      BY <3>1, <3>2
  <2> QED
    BY <1>2, <1>4, <2>1 DEF ViewOK

LEMMA OneText ==
  ASSUME ViewOK, NEW p \in Peers, NEW k \in DOMAIN view[p], NEW x \in Texts \cup {Gone}
  PROVE  SameIds(view[p], [view[p] EXCEPT ![k].text = x])
<1> DEFINE s == view[p]
           e == [s[k] EXCEPT !.text = x]
<1>1. s \in Seq(ShownEntries) /\ DOMAIN s = 1..Len(s) /\ k \in 1..Len(s)
  BY LenProperties DEF ViewOK
<1>2. s[k] \in ShownEntries
  BY <1>1, ElementOfSeq
<1>3. e \in ShownEntries /\ e.id = s[k].id
  BY <1>2 DEF ShownEntries
<1> HIDE DEF s, e
<1>4. [s EXCEPT ![k] = e] \in Seq(ShownEntries)
  BY <1>1, <1>3, ExceptSeq
<1>5. SameIds(s, [s EXCEPT ![k] = e])
  BY <1>3, <1>4 DEF SameIds
<1> QED
  BY <1>5 DEF s, e

LEMMA ChangedText ==
  ASSUME ViewOK, NEW p \in Peers, NEW i, NEW x \in Texts \cup {Gone}
  PROVE  SameIds(view[p], [k \in DOMAIN view[p] |->
           IF view[p][k].id = i /\ view[p][k].live THEN [view[p][k] EXCEPT !.text = x] ELSE view[p][k]])
<1> DEFINE s == view[p]
           t == [k \in DOMAIN s |-> IF s[k].id = i /\ s[k].live THEN [s[k] EXCEPT !.text = x] ELSE s[k]]
<1>1. s \in Seq(ShownEntries) /\ DOMAIN s = 1..Len(s) /\ Len(s) \in Nat /\ \A k \in DOMAIN s : s[k] \in ShownEntries
  BY LenProperties, ElementOfSeq DEF ViewOK
<1> HIDE DEF s
<1>2. ASSUME NEW k \in DOMAIN s PROVE t[k] \in ShownEntries /\ t[k].id = s[k].id
  BY <1>1 DEF ShownEntries
<1>3. DOMAIN t = DOMAIN s /\ t = [k \in 1..Len(s) |-> t[k]]
  BY <1>1
<1> HIDE DEF t
<1>4. t \in Seq(ShownEntries)
  BY <1>1, <1>2, <1>3, SeqDef
<1>5. SameIds(s, t)
  BY <1>2, <1>3, <1>4 DEF SameIds
<1> QED
  BY <1>5 DEF s, t

LEMMA EndedOK == ASSUME Ended PROVE ViewOK' /\ ClientOK'
<1>1. view' = [p \in Peers |-> <<>>] /\ cursor' = [p \in Peers |-> 0] /\ phase' = "off" /\ counter' = 0 /\ overlap' = {}
  BY DEF Ended
<1>2. <<>> \in Seq(ShownEntries) /\ DOMAIN <<>> = {}
  OBVIOUS
<1>3. view' \in [Peers -> Seq(ShownEntries)] /\ \A p \in Peers : view'[p] = <<>> /\ DOMAIN view'[p] = {}
  BY <1>1, <1>2
<1>4. ViewOK'
  BY <1>3 DEF ViewOK, AllAmong
<1>5. Cardinality(Peers) \in Nat
  BY MessengerAssumption, FS_CardinalityType
<1> QED
  BY <1>1, <1>3, <1>4, <1>5, MessengerAssumption DEF ClientOK

LEMMA ViewStep ==
  ASSUME TInv, [Next]_vars
  PROVE  ViewOK'
<1>0. ViewOK /\ RowsOK' /\ Grows(rows, rows') /\ ChannelOK /\ RowsOK
  BY RowsStep DEF TInv
<1>a. ASSUME view' = view PROVE ViewOK'
  <2> SUFFICES ASSUME NEW p \in Peers PROVE AllAmong(view[p], p, rows')
    BY <1>0, <1>a DEF ViewOK
  <2> QED
    BY <1>0, AmongLater DEF ViewOK
<1>1. ASSUME NEW p \in Peers, NEW k \in DOMAIN view[p], UserChanges(p, k) \/ UserDeletes(p, k) PROVE ViewOK'
  <2>1. view[p] \in Seq(ShownEntries) /\ rows' = rows
    BY <1>0, <1>1 DEF ViewOK, UserChanges, UserDeletes, server
  <2>2. view[p][k] \in ShownEntries
    BY <2>1, ElementOfSeq, LenProperties
  <2>3. CASE UserChanges(p, k)
    <3> DEFINE x == view[p][k].text + 1
    <3>1. view[p][k].text < MaxChanges /\ view' = [view EXCEPT ![p][k].text = x]
      BY <2>3 DEF UserChanges
    <3>2. x \in Texts \cup {Gone}
      BY <2>2, <3>1, MessengerAssumption DEF ShownEntries, Texts, Gone
    <3>3. view' = [view EXCEPT ![p] = [view[p] EXCEPT ![k].text = x]]
      BY <1>0, <3>1 DEF ViewOK
    <3> HIDE DEF x
    <3>4. SameIds(view[p], [view[p] EXCEPT ![k].text = x])
      BY <1>0, <3>2, OneText
    <3> QED
      BY <1>0, <2>1, <3>3, <3>4, Retexted
  <2>4. CASE UserDeletes(p, k)
    <3>3. view' = [view EXCEPT ![p] = [view[p] EXCEPT ![k].text = Gone]]
      BY <1>0, <2>4 DEF ViewOK, UserDeletes
    <3>4. SameIds(view[p], [view[p] EXCEPT ![k].text = Gone])
      BY <1>0, OneText
    <3> QED
      BY <1>0, <2>1, <3>3, <3>4, Retexted
  <2> QED
    BY <1>1, <2>3, <2>4
<1>2. CASE RecvHistory
  <2> DEFINE f == Head(channel)
  <2>1. f.code = "history" /\ FrameFits(f, rows) /\ rows' = rows
    BY <1>0, <1>2, FirstFrame DEF RecvHistory, Reads, server
  <2>2. f.peer \in Peers /\ Showable(f.messages, f.peer, rows)
    BY <2>1, ListShowable
  <2>3. \/ Below(f.peer, f.messages, "list") \/ Above(f.peer, f.messages) \/ view' = view
    BY <1>2 DEF RecvHistory
  <2> HIDE DEF f
  <2> QED
    BY <1>0, <1>a, <2>1, <2>2, <2>3, Showing
<1>3. CASE RecvSent \/ RecvMessage
  <2> DEFINE f == Head(channel)
  <2>1. f.code \in {"sent", "message"} /\ FrameFits(f, rows) /\ rows' = rows
    BY <1>0, <1>3, FirstFrame DEF RecvSent, RecvMessage, Reads, server
  <2>2. f.peer \in Peers /\ Showable(<<f>>, f.peer, rows)
    BY <2>1, EventShowable
  <2>3. Below(f.peer, <<f>>, "event") \/ view' = view
    BY <1>3 DEF RecvSent, RecvMessage
  <2> HIDE DEF f
  <2> QED
    BY <1>0, <1>a, <2>1, <2>2, <2>3, Showing
<1>4. CASE RecvChange
  <2> DEFINE f == Head(channel)
  <2>1. f \in Frames /\ f.code \in {"changed", "deleted"} /\ rows' = rows
    BY <1>0, <1>4, FirstFrame DEF RecvChange, Reads, server
  <2>2. f.peer \in Peers /\ f.text \in Texts \cup {Gone}
    BY <2>1, FrameTypes
  <2> DEFINE t == [k \in DOMAIN view[f.peer] |->
                     IF view[f.peer][k].id = f.id /\ view[f.peer][k].live THEN [view[f.peer][k] EXCEPT !.text = f.text] ELSE view[f.peer][k]]
  <2>3. view' = [view EXCEPT ![f.peer] = t]
    BY <1>4 DEF RecvChange
  <2>4. SameIds(view[f.peer], t)
    BY <1>0, <2>2, ChangedText
  <2> HIDE DEF f, t
  <2> QED
    BY <1>0, <2>1, <2>2, <2>3, <2>4, Retexted
<1>5. CASE Restart \/ Quit
  BY <1>5, EndedOK DEF Restart, Quit
<1>6. CASE UNCHANGED vars
  BY <1>a, <1>6 DEF vars, client
<1>7. CASE Next
  <2>1. ASSUME NEW u \in Users,
               \/ (\E v \in Users \ {u} : Insert(u, v)) \/ AddContacts(u) \/ Deliver(u)
               \/ (\E i \in Ids : Update(u, i) \/ Delete(u, i)) \/ Notify(u)
        PROVE  ViewOK'
    BY <1>a, <2>1 DEF Insert, AddContacts, Deliver, Update, Delete, Notify, client
  <2>2. CASE \/ GetUsers \/ GetGroups \/ SendHistory
             \/ \E p \in Peers, b \in 0..MaxMessages, q \in FirstPages \cup {Page} : GetLastMsgs(p, b, q)
             \/ LogOut
    BY <1>a, <2>2 DEF GetUsers, GetGroups, SendHistory, GetLastMsgs, LogOut, client
  <2>3. CASE \/ LogIn \/ (\E p \in Peers : UserSends(p) \/ UserScrollsUp(p))
             \/ (\E first \in [Peers -> FirstPages] : RecvUsers(first)) \/ RecvGroups
    BY <1>a, <2>3 DEF LogIn, UserSends, UserScrollsUp, RecvUsers, RecvGroups, client
  <2> QED
    BY <1>1, <1>2, <1>3, <1>4, <1>5, <1>7, <2>1, <2>2, <2>3, Steps
<1> QED
  BY <1>6, <1>7

LEMMA FirstMessage ==
  ASSUME NEW ms \in MessageSeqs, ms # <<>>
  PROVE  /\ 1 \in DOMAIN ms /\ DOMAIN ms = 1..Len(ms) /\ Len(ms) \in Nat
         /\ ms[1] \in [id : Ids, text : Texts]
<1>1. Len(ms) \in Nat /\ DOMAIN ms = 1..Len(ms) /\ Len(ms) # 0
  BY LenProperties, EmptySeq DEF MessageSeqs
<1>2. 1 \in 1..Len(ms)
  BY <1>1
<1> QED
  BY <1>1, <1>2, ElementOfSeq DEF MessageSeqs

LEMMA ClientStep ==
  ASSUME TInv, [Next]_vars
  PROVE  ClientOK'
<1>0. ClientOK /\ ChannelOK /\ RowsOK /\ Cardinality(Peers) \in Nat /\ Cardinality(Peers) # 0
  BY MessengerAssumption, FS_CardinalityType, FS_EmptySet DEF TInv
<1>a. ASSUME UNCHANGED client PROVE ClientOK'
  BY <1>0, <1>a DEF ClientOK, client
<1>1. CASE LogIn
  BY <1>0, <1>1 DEF LogIn, ClientOK
<1>2. CASE Restart \/ Quit
  BY <1>2, EndedOK DEF Restart, Quit
<1>3. ASSUME NEW p \in Peers,
             \/ UserSends(p) \/ UserScrollsUp(p)
             \/ \E k \in DOMAIN view[p] : UserChanges(p, k) \/ UserDeletes(p, k)
      PROVE  ClientOK'
  <2>1. UNCHANGED <<phase, counter, cursor>> /\ phase \notin {"off", "users"} /\ overlap' \in {overlap, overlap \cup {p}}
    BY <1>3 DEF UserSends, UserScrollsUp, UserChanges, UserDeletes, MayAsk, client
  <2> QED
    BY <1>0, <2>1 DEF ClientOK
<1>4. ASSUME NEW first \in [Peers -> FirstPages], RecvUsers(first) PROVE ClientOK'
  BY <1>0, <1>4 DEF RecvUsers, ClientOK
<1>5. CASE RecvHistory
  <2> DEFINE f == Head(channel)
  <2>1. f.code = "history" /\ FrameFits(f, rows) /\ phase # "off"
    BY <1>0, <1>5, FirstFrame DEF RecvHistory, Reads
  <2>2. f.peer \in Peers /\ f.messages \in MessageSeqs
    BY <2>1, FrameTypes DEF FrameFits
  <2>3. cursor' \in [Peers -> 0..MaxMessages]
    <3>1. CASE f.messages # <<>> /\ phase \in {"histories", "ready"}
      <4>1. f.messages[1] \in [id : Ids, text : Texts]
        BY <2>2, <3>1, FirstMessage
      <4>2. f.messages[1].id \in 0..MaxMessages
        BY <4>1, MessengerAssumption DEF Ids
      <4>3. cursor' = [cursor EXCEPT ![f.peer] = f.messages[1].id]
        BY <1>5, <3>1 DEF RecvHistory
      <4> HIDE DEF f
      <4> QED
        BY <1>0, <2>2, <4>2, <4>3 DEF ClientOK
    <3>2. CASE ~(f.messages # <<>> /\ phase \in {"histories", "ready"})
      BY <1>0, <1>5, <3>2 DEF RecvHistory, ClientOK
    <3> QED
      BY <3>1, <3>2
  <2>4. phase' \in {"off", "users", "histories", "groups", "ready"} /\ counter' \in 0..Cardinality(Peers)
        /\ (phase' = "histories" => counter' < Cardinality(Peers)) /\ overlap' = overlap
    <3>1. CASE phase = "histories"
      <4>1. counter \in Nat /\ counter < Cardinality(Peers) /\ counter' = counter + 1 /\ overlap' = overlap
        BY <1>0, <1>5, <3>1 DEF RecvHistory, ClientOK
      <4>2. IF counter' = Cardinality(Peers) THEN phase' = "groups" ELSE phase' = phase
        BY <1>5, <3>1 DEF RecvHistory
      <4> QED
        BY <1>0, <3>1, <4>1, <4>2
    <3>2. CASE phase # "histories"
      BY <1>0, <1>5, <3>2 DEF RecvHistory, ClientOK
    <3> QED
      BY <3>1, <3>2
  <2>5. phase = "users" => phase' = "users" /\ counter' = counter /\ view' = view /\ cursor' = cursor
    BY <1>5 DEF RecvHistory
  <2>6. phase # "users" => phase' \notin {"off", "users"}
    <3>1. CASE phase = "histories"
      BY <1>5, <3>1 DEF RecvHistory
    <3>2. CASE phase # "histories"
      BY <1>5, <2>1, <3>2 DEF RecvHistory
    <3> QED
      BY <3>1, <3>2
  <2> HIDE DEF f
  <2> QED
    BY <1>0, <2>3, <2>4, <2>5, <2>6 DEF ClientOK
<1>6. CASE RecvGroups
  BY <1>0, <1>6 DEF RecvGroups, ClientOK, Reads
<1>7. CASE RecvSent \/ RecvMessage \/ RecvChange
  <2>1. UNCHANGED <<phase, counter, cursor, overlap>> /\ phase # "off"
    BY <1>7 DEF RecvSent, RecvMessage, RecvChange, Reads
  <2>2. phase = "users" => view' = view
    <3>1. ASSUME phase = "users", RecvSent PROVE view' = view
      BY <3>1 DEF RecvSent
    <3>2. ASSUME phase = "users", RecvMessage PROVE FALSE
      BY <3>2 DEF RecvMessage, Reads, Unexpected
    <3>3. ASSUME phase = "users", RecvChange PROVE FALSE
      BY <3>3 DEF RecvChange, Reads, Unexpected
    <3> QED
      BY <1>7, <3>1, <3>2, <3>3
  <2> QED
    BY <1>0, <2>1, <2>2 DEF ClientOK
<1>8. CASE UNCHANGED vars
  BY <1>a, <1>8 DEF vars
<1>9. CASE Next
  <2>1. ASSUME NEW u \in Users,
               \/ (\E v \in Users \ {u} : Insert(u, v)) \/ AddContacts(u) \/ Deliver(u)
               \/ (\E i \in Ids : Update(u, i) \/ Delete(u, i)) \/ Notify(u)
        PROVE  ClientOK'
    BY <1>a, <2>1 DEF Insert, AddContacts, Deliver, Update, Delete, Notify
  <2>2. CASE \/ GetUsers \/ GetGroups \/ SendHistory
             \/ \E p \in Peers, b \in 0..MaxMessages, q \in FirstPages \cup {Page} : GetLastMsgs(p, b, q)
             \/ LogOut
    BY <1>a, <2>2 DEF GetUsers, GetGroups, SendHistory, GetLastMsgs, LogOut
  <2> QED
    BY <1>1, <1>2, <1>3, <1>4, <1>5, <1>6, <1>7, <1>9, <2>1, <2>2, Steps
<1> QED
  BY <1>8, <1>9

LEMMA SessionStep ==
  ASSUME TInv, [Next]_vars
  PROVE  SessionOK'
<1>0. SessionOK /\ ClientOK /\ WorkOK /\ Me \in Users /\ ChannelOK
  BY Apart DEF TInv
<1>i. NoWork.step = "idle" /\ DOMAIN work = Users
  BY <1>0 DEF NoWork, WorkOK
<1>1. ASSUME NEW u \in Users,
             \/ (\E v \in Users \ {u} : Insert(u, v)) \/ AddContacts(u) \/ Deliver(u)
             \/ (\E i \in Ids : Update(u, i) \/ Delete(u, i)) \/ Notify(u)
      PROVE  SessionOK'
  <2>1. UNCHANGED <<online, phase>> /\ (phase = "off" => channel' = channel)
    BY <1>1 DEF Insert, AddContacts, Deliver, Update, Delete, Notify, client, Write
  <2>2. online = FALSE => requests' = requests /\ work'[Me] = work[Me]
    <3>1. CASE u = Me
      BY <1>0, <1>1, <3>1 DEF Insert, AddContacts, Deliver, Update, Delete, Notify, Read, SessionOK, Idle
    <3>2. CASE u # Me
      <4>1. requests' = requests
        BY <1>1, <3>2 DEF Insert, AddContacts, Deliver, Update, Delete, Notify, Read
      <4>2. work' = work \/ \E w : work' = [work EXCEPT ![u] = w]
        BY <1>1 DEF Insert, AddContacts, Deliver, Update, Delete, Notify, Then
      <4> QED
        BY <1>0, <1>i, <3>2, <4>1, <4>2
    <3> QED
      BY <3>1, <3>2
  <2> QED
    BY <1>0, <2>1, <2>2 DEF SessionOK, Idle
<1>2. CASE \/ GetUsers \/ GetGroups \/ SendHistory
           \/ \E p \in Peers, b \in 0..MaxMessages, q \in FirstPages \cup {Page} : GetLastMsgs(p, b, q)
  <2>1. UNCHANGED <<online, phase>> /\ (phase = "off" => channel' = channel)
    BY <1>2 DEF GetUsers, GetGroups, SendHistory, GetLastMsgs, client, server, Write
  <2>2. online = TRUE
    BY <1>0, <1>2 DEF GetUsers, GetGroups, SendHistory, GetLastMsgs, Read, SessionOK, Idle
  <2> QED
    BY <1>0, <2>1, <2>2 DEF SessionOK
<1>3. CASE LogOut
  BY <1>0, <1>3 DEF LogOut, SessionOK, client, Idle
<1>4. CASE Restart
  <2>1. work'[Me] = NoWork
    BY <1>0, <1>4 DEF Restart
  <2> QED
    BY <1>i, <1>4, <2>1 DEF Restart, Ended, SessionOK, Idle
<1>5. CASE LogIn
  BY <1>0, <1>5 DEF LogIn, SessionOK
<1>6. CASE Quit
  BY <1>0, <1>6 DEF Quit, Ended, SessionOK, server, Idle
<1>7. CASE \/ \E p \in Peers :
                \/ UserSends(p) \/ UserScrollsUp(p)
                \/ \E k \in DOMAIN view[p] : UserChanges(p, k) \/ UserDeletes(p, k)
           \/ \E first \in [Peers -> FirstPages] : RecvUsers(first)
           \/ RecvHistory \/ RecvGroups \/ RecvSent \/ RecvMessage \/ RecvChange
  <2>1. UNCHANGED <<online, work>> /\ phase # "off" /\ phase' # "off"
    <3>1. CASE \E p \in Peers :
                 \/ UserSends(p) \/ UserScrollsUp(p)
                 \/ \E k \in DOMAIN view[p] : UserChanges(p, k) \/ UserDeletes(p, k)
      BY <3>1 DEF UserSends, UserScrollsUp, UserChanges, UserDeletes, MayAsk, server, client
    <3>2. CASE \E first \in [Peers -> FirstPages] : RecvUsers(first)
      BY <3>2 DEF RecvUsers, Reads, server
    <3>3. CASE RecvGroups \/ RecvSent \/ RecvMessage \/ RecvChange
      BY <3>3 DEF RecvGroups, RecvSent, RecvMessage, RecvChange, Reads, server
    <3>4. CASE RecvHistory
      BY <3>4 DEF RecvHistory, Reads, server
    <3> QED
      BY <1>7, <3>1, <3>2, <3>3, <3>4
  <2> QED
    BY <1>0, <2>1 DEF SessionOK
<1>8. CASE UNCHANGED vars
  BY <1>0, <1>8 DEF vars, client, SessionOK, Idle
<1> QED
  BY <1>1, <1>2, <1>3, <1>4, <1>5, <1>6, <1>7, <1>8, Steps

LEMMA TInvInit == ASSUME Init PROVE TInv
<1>1. <<>> \in Seq(Rows) /\ <<>> \in Seq(Frames) /\ <<>> \in Seq(Requests) /\ <<>> \in Seq(ShownEntries)
      /\ Len(<<>>) = 0 /\ DOMAIN <<>> = {}
  OBVIOUS
<1>2. RowsOK /\ ChannelOK /\ RequestsOK
  BY <1>1, MessengerAssumption DEF Init, RowsOK, ChannelOK, RequestsOK, Rows
<1>3. ContactsOK
  BY DEF Init, ContactsOK
<1>4. WorkOK
  BY IdleFits DEF Init, WorkOK
<1>5. \A p \in Peers : view[p] = <<>> /\ DOMAIN view[p] = {}
  BY <1>1 DEF Init
<1>6. ViewOK
  BY <1>1, <1>5 DEF Init, ViewOK, AllAmong
<1>7. Cardinality(Peers) \in Nat
  BY MessengerAssumption, FS_CardinalityType
<1>8. ClientOK
  BY <1>5, <1>7, MessengerAssumption DEF Init, ClientOK
<1>9. SessionOK
  BY Apart DEF Init, SessionOK, Idle, NoWork
<1> QED
  BY <1>2, <1>3, <1>4, <1>6, <1>8, <1>9 DEF TInv

LEMMA TInvStep == ASSUME TInv, [Next]_vars PROVE TInv'
BY RowsStep, ContactsStep, WorkStep, ChannelStep, RequestsStep, ViewStep, ClientStep, SessionStep DEF TInv

(* What work, frames, requests and the view are about exists in the table, *)
(* between the right two users, whatever step of a handler or of the       *)
(* client is next.                                                         *)
THEOREM TInvAlways == Spec => []TInv
BY TInvInit, TInvStep, PTL DEF Spec

(* Every variable has its type in every state: what the threads of the     *)
(* server hold, what is under way in both directions and what the client   *)
(* shows are about messages that exist, and only the thread of Me reads    *)
(* histories.                                                              *)
THEOREM TypeCorrect == Spec => []TypeOK
<1>1. TInv => TypeOK
  <2> SUFFICES ASSUME TInv PROVE TypeOK
    OBVIOUS
  <2>1. \A u \in Users : work[u] \in Works
    BY DEF TInv, WorkOK, WorkFits
  <2>2. \A p \in Peers : work[p].step # "history"
    BY Apart, MessengerAssumption DEF TInv, WorkOK, WorkFits
  <2>3. /\ rows \in Seq([from : Users, to : Users, text : Texts \cup {Gone}]) /\ Len(rows) <= MaxMessages
        /\ contacts \in [Users -> SUBSET Users] /\ online \in BOOLEAN
        /\ requests \in Seq(Requests) /\ channel \in Seq(Frames)
    BY DEF TInv, RowsOK, ContactsOK, SessionOK, RequestsOK, ChannelOK
  <2>4. view \in [Peers -> Seq([id : Ids, text : Texts \cup {Gone}, by : {"list", "event"}, live : BOOLEAN])]
    BY DEF TInv, ViewOK, ShownEntries
  <2>5. /\ phase \in {"off", "users", "histories", "groups", "ready"} /\ counter \in 0..Cardinality(Peers)
        /\ cursor \in [Peers -> 0..MaxMessages] /\ overlap \subseteq Peers
    BY DEF TInv, ClientOK
  <2> QED
    BY <2>1, <2>2, <2>3, <2>4, <2>5 DEF TypeOK
<1> QED
  BY <1>1, TInvAlways, PTL

-----------------------------------------------------------------------------
(* What the steps do                                                       *)

Others(u) == \A x \in Users \ {u} : work'[x] = work[x]

(* u has stored the message i for v                                        *)
Inserts(u, v, i) ==
  /\ Idle(u) /\ i \notin DOMAIN rows /\ DOMAIN rows' = DOMAIN rows \cup {i}
  /\ rows'[i] = Row(u, v) /\ \A j \in DOMAIN rows : rows'[j] = rows[j] /\ j < i
  /\ work'[u].step = "contacts" /\ work'[u].id = i /\ Others(u)

(* u has given his message i the text t                                    *)
Changes(u, i, t) ==
  /\ Idle(u) /\ i \in Stored /\ rows[i].from = u /\ t \in 1..Gone
  /\ DOMAIN rows' = DOMAIN rows /\ rows'[i].text = t
  /\ rows'[i].from = rows[i].from /\ rows'[i].to = rows[i].to
  /\ \A j \in DOMAIN rows \ {i} : rows'[j] = rows[j]
  /\ work'[u] = Notifying(i, t) /\ Others(u)

LEMMA ThenEffect ==
  ASSUME WorkOK, NEW u \in Users, NEW w, work' = [work EXCEPT ![u] = w]
  PROVE  work'[u] = w /\ Others(u)
BY DEF WorkOK, Others

LEMMA InsertEffect ==
  ASSUME TInv, NEW u \in Users, NEW v \in Users, Insert(u, v)
  PROVE  /\ UNCHANGED <<rows, work>> \/ (\E i : Inserts(u, v, i))
         /\ UNCHANGED <<contacts, online, channel, client>> /\ Read(u, [code |-> "send", peer |-> v])
<1>0. UNCHANGED <<contacts, online, channel, client>> /\ Read(u, [code |-> "send", peer |-> v]) /\ Idle(u)
  BY DEF Insert, Read
<1>1. CASE Len(rows) < MaxMessages
  <2> DEFINE i == Len(rows) + 1
  <2>0. rows' = Append(rows, Row(u, v)) /\ work' = [work EXCEPT ![u] = [step |-> "contacts", id |-> i]]
    BY <1>1 DEF Insert, Then
  <2>1. rows \in Seq(Rows) /\ Len(rows) \in Nat /\ DOMAIN rows = 1..Len(rows)
    BY RowTypes DEF TInv
  <2>2. Row(u, v) \in Rows
    BY MessengerAssumption DEF Row, Rows, Texts
  <2> DEFINE e == Row(u, v)
  <2> HIDE DEF e
  <2>3. /\ Len(rows') = Len(rows) + 1 /\ DOMAIN rows' = 1..Len(rows) + 1
        /\ \A j \in 1..Len(rows) : rows'[j] = rows[j]
        /\ rows'[Len(rows) + 1] = e
    BY <2>0, <2>1, <2>2, AppendProperties, LenProperties DEF e
  <2>4. /\ i \notin DOMAIN rows /\ DOMAIN rows' = DOMAIN rows \cup {i}
        /\ rows'[i] = Row(u, v) /\ \A j \in DOMAIN rows : rows'[j] = rows[j] /\ j < i
    BY <2>1, <2>3 DEF e
  <2>5. work'[u] = [step |-> "contacts", id |-> i] /\ Others(u)
    BY <2>0, ThenEffect DEF TInv
  <2> HIDE DEF i
  <2>6. Inserts(u, v, i)
    BY <1>0, <2>4, <2>5 DEF Inserts
  <2> QED
    BY <1>0, <2>6
<1>2. CASE ~(Len(rows) < MaxMessages)
  BY <1>0, <1>2 DEF Insert
<1> QED
  BY <1>1, <1>2

LEMMA ChangeEffect ==
  ASSUME TInv, NEW u \in Users, NEW i, Update(u, i) \/ Delete(u, i)
  PROVE  /\ UNCHANGED <<rows, work>> \/ (\E t : Changes(u, i, t))
         /\ UNCHANGED <<contacts, online, channel, client>>
         /\ \E c \in {"update", "delete"} : Read(u, [code |-> c, id |-> i])
<1>0. /\ UNCHANGED <<contacts, online, channel, client>> /\ Idle(u)
      /\ \E c \in {"update", "delete"} : Read(u, [code |-> c, id |-> i])
  BY DEF Update, Delete, Read
<1>1. ASSUME NEW t \in 1..Gone, i \in Stored, rows[i].from = u, rows' = [rows EXCEPT ![i].text = t],
             work' = [work EXCEPT ![u] = Notifying(i, t)]
      PROVE  Changes(u, i, t)
  <2>1. i \in DOMAIN rows /\ rows[i] \in Rows
    BY <1>1, RowTypes, StoredTypes DEF TInv
  <2>2. /\ DOMAIN rows' = DOMAIN rows /\ rows'[i] = [rows[i] EXCEPT !.text = t]
        /\ \A j \in DOMAIN rows \ {i} : rows'[j] = rows[j]
    BY <1>1, <2>1
  <2>3. rows'[i].text = t /\ rows'[i].from = rows[i].from /\ rows'[i].to = rows[i].to
    BY <2>1, <2>2 DEF Rows
  <2>4. work'[u] = Notifying(i, t) /\ Others(u)
    BY <1>1, ThenEffect DEF TInv
  <2> QED
    BY <1>0, <1>1, <2>2, <2>3, <2>4 DEF Changes
<1>2. CASE Update(u, i)
  <2>1. CASE i \in Stored /\ rows[i].from = u /\ rows[i].text < MaxChanges
    <3> DEFINE t == rows[i].text + 1
    <3>1. rows[i].text \in Texts
      BY <2>1, StoredTypes DEF TInv
    <3>2. t \in 1..Gone
      BY <2>1, <3>1, MessengerAssumption DEF Texts, Gone
    <3>3. rows' = [rows EXCEPT ![i].text = t] /\ work' = [work EXCEPT ![u] = Notifying(i, t)]
      BY <1>2, <2>1 DEF Update, Then
    <3> HIDE DEF t
    <3>4. Changes(u, i, t)
      BY <1>1, <2>1, <3>2, <3>3
    <3> QED
      BY <1>0, <3>4
  <2>2. CASE ~(i \in Stored /\ rows[i].from = u /\ rows[i].text < MaxChanges)
    BY <1>0, <1>2, <2>2 DEF Update
  <2> QED
    BY <2>1, <2>2
<1>3. CASE Delete(u, i)
  <2>1. CASE i \in Stored /\ rows[i].from = u
    <3>2. Gone \in 1..Gone
      BY MessengerAssumption DEF Gone
    <3>3. rows' = [rows EXCEPT ![i].text = Gone] /\ work' = [work EXCEPT ![u] = Notifying(i, Gone)]
      BY <1>3, <2>1 DEF Delete, Then
    <3>4. Changes(u, i, Gone)
      BY <1>1, <2>1, <3>2, <3>3
    <3> QED
      BY <1>0, <3>4
  <2>2. CASE ~(i \in Stored /\ rows[i].from = u)
    BY <1>0, <1>3, <2>2 DEF Delete
  <2> QED
    BY <2>1, <2>2
<1> QED
  BY <1>2, <1>3

(* f is put at the end of the channel, or c taken from its head            *)
Put(f) ==
  /\ Len(channel) \in Nat /\ DOMAIN channel = 1..Len(channel)
  /\ Len(channel') = Len(channel) + 1 /\ DOMAIN channel' = 1..Len(channel) + 1
  /\ \A n \in DOMAIN channel : channel'[n] = channel[n]
  /\ channel'[Len(channel) + 1] = f

Took(f) ==
  /\ Len(channel) \in Nat /\ DOMAIN channel = 1..Len(channel) /\ 1 \in DOMAIN channel
  /\ f = channel[1] /\ FrameFits(f, rows)
  /\ Len(channel') = Len(channel) - 1 /\ DOMAIN channel' = 1..Len(channel) - 1
  /\ \A n \in DOMAIN channel' : n + 1 \in DOMAIN channel /\ channel'[n] = channel[n + 1]

LEMMA WriteEffect ==
  ASSUME TInv, NEW f \in Frames, Write(f)
  PROVE  /\ phase # "off" => Put(f)
         /\ phase = "off" => channel = <<>> /\ channel' = <<>>
<1>1. channel \in Seq(Frames)
  BY DEF TInv, ChannelOK
<1>2. CASE phase # "off"
  <2>1. channel' = Append(channel, f)
    BY <1>2 DEF Write, TInv, SessionOK
  <2>2. /\ Len(channel') = Len(channel) + 1
        /\ \A n \in 1..Len(channel) : channel'[n] = channel[n]
        /\ channel'[Len(channel) + 1] = f /\ channel' \in Seq(Frames)
    BY <1>1, <2>1, AppendProperties
  <2>3. Len(channel) \in Nat /\ DOMAIN channel = 1..Len(channel) /\ DOMAIN channel' = 1..Len(channel')
    BY <1>1, <2>2, LenProperties
  <2> QED
    BY <1>2, <2>2, <2>3 DEF Put
<1>3. CASE phase = "off"
  BY <1>3 DEF Write, TInv, SessionOK
<1> QED
  BY <1>2, <1>3

LEMMA TakenEffect ==
  ASSUME TInv, channel # <<>>, Taken
  PROVE  Took(Head(channel))
<1>1. channel \in Seq(Frames)
  BY DEF TInv, ChannelOK
<1>2. Head(channel) = channel[1] /\ 1 \in DOMAIN channel /\ FrameFits(Head(channel), rows)
  BY FirstFrame DEF TInv
<1>3. channel' \in Seq(Frames) /\ Len(channel') = Len(channel) - 1 /\ \A n \in 1..Len(channel') : channel'[n] = channel[n + 1]
  BY <1>1, HeadTailProperties DEF Taken
<1>4. Len(channel) \in Nat /\ DOMAIN channel = 1..Len(channel) /\ DOMAIN channel' = 1..Len(channel')
  BY <1>1, <1>3, LenProperties
<1> DEFINE m == Len(channel)
<1> HIDE DEF m
<1>5. m \in Nat /\ DOMAIN channel = 1..m /\ DOMAIN channel' = 1..m - 1 /\ \A n \in 1..m - 1 : n + 1 \in 1..m /\ channel'[n] = channel[n + 1]
  BY <1>3, <1>4 DEF m
<1> QED
  BY <1>2, <1>3, <1>4, <1>5 DEF Took, m

(* The steps that do not concern the messages: rows and contacts stay,     *)
(* only the thread of Me goes on with his lists, and no event is written.  *)
Kept ==
  \A x \in Users : \/ work'[x] = work[x]
                   \/ x = Me /\ work[x].step \in {"idle", "history"} /\ work'[x].step \in {"idle", "history"}

Quiet ==
  /\ UNCHANGED <<rows, contacts>> /\ Kept
  /\ \/ channel' = channel \/ channel' = <<>>
     \/ \E f : Put(f) /\ f.code \in {"users", "error", "groups", "history"}
     \/ \E f : Took(f)

LEMMA OtherSteps ==
  ASSUME TInv, [Next]_vars
  PROVE  \/ \E u \in Users :
              \/ (\E v \in Users \ {u} : Insert(u, v)) \/ AddContacts(u) \/ Deliver(u)
              \/ (\E i \in Ids : Update(u, i) \/ Delete(u, i)) \/ Notify(u)
         \/ Restart
         \/ Quiet
<1>k. ASSUME work' = work PROVE Kept
  BY <1>k DEF Kept
<1>o. ASSUME Others(Me), work[Me].step \in {"idle", "history"}, work'[Me].step \in {"idle", "history"} PROVE Kept
  BY <1>o DEF Kept, Others
<1>w. ASSUME NEW f \in Frames, f.code \in {"users", "error", "groups", "history"}, Write(f)
      PROVE  channel' = <<>> \/ \E g : Put(g) /\ g.code \in {"users", "error", "groups", "history"}
  BY <1>w, WriteEffect
<1>1. CASE \E p \in Peers, b \in 0..MaxMessages, q \in FirstPages \cup {Page} : GetLastMsgs(p, b, q)
  <2>1. PICK p \in Peers, b \in 0..MaxMessages, q \in FirstPages \cup {Page} : GetLastMsgs(p, b, q)
    BY <1>1
  <2>2. UNCHANGED <<rows, contacts, channel>> /\ Idle(Me)
    BY <2>1 DEF GetLastMsgs, Read
  <2>3. Others(Me) /\ work'[Me].step = "history"
    <3> DEFINE w == [step |-> "history", peer |-> p, messages |-> LastMessages(Me, p, b, q)]
    <3>1. work' = [work EXCEPT ![Me] = w] /\ w.step = "history"
      BY <2>1 DEF GetLastMsgs, Then
    <3> HIDE DEF w
    <3>2. work'[Me] = w /\ Others(Me)
      BY <3>1, ThenEffect, Apart DEF TInv
    <3> QED
      BY <3>1, <3>2
  <2> QED
    BY <1>o, <2>2, <2>3 DEF Quiet, Idle
<1>2. CASE SendHistory
  <2> DEFINE f == [code |-> "history", peer |-> work[Me].peer, messages |-> work[Me].messages]
  <2>1. work[Me].step = "history" /\ UNCHANGED <<rows, contacts>> /\ work' = [work EXCEPT ![Me] = NoWork] /\ Write(f)
    BY <1>2 DEF SendHistory, Then
  <2>2. work'[Me].step = "idle" /\ Others(Me)
    <3>1. work'[Me] = NoWork /\ Others(Me)
      BY <2>1, ThenEffect, Apart DEF TInv
    <3> QED
      BY <3>1 DEF NoWork
  <2>3. f \in Frames
    BY <2>1, WorkTypes, Apart DEF TInv, WorkOK, WorkFits, Frames
  <2> HIDE DEF f
  <2>4. f.code = "history"
    BY DEF f
  <2> QED
    BY <1>o, <1>w, <2>1, <2>2, <2>3, <2>4 DEF Quiet
<1>3. CASE GetUsers \/ GetGroups
  <2>1. \A c \in {"users", "error", "groups"} : [code |-> c] \in Frames
    BY DEF Frames
  <2>2. UNCHANGED <<rows, contacts, work>> /\ \E c \in {"users", "error", "groups"} : Write([code |-> c])
    BY <1>3 DEF GetUsers, GetGroups, server
  <2>3. channel' = <<>> \/ \E g : Put(g) /\ g.code \in {"users", "error", "groups", "history"}
    BY <1>w, <2>1, <2>2
  <2> QED
    BY <1>k, <2>2, <2>3 DEF Quiet
<1>4. CASE LogOut \/ LogIn \/ Quit
  BY <1>k, <1>4 DEF LogOut, LogIn, Quit, server, Quiet
<1>5. CASE \E p \in Peers :
             \/ UserSends(p) \/ UserScrollsUp(p)
             \/ \E k \in DOMAIN view[p] : UserChanges(p, k) \/ UserDeletes(p, k)
  BY <1>k, <1>5 DEF UserSends, UserScrollsUp, UserChanges, UserDeletes, server, Quiet
<1>6. CASE \/ \E first \in [Peers -> FirstPages] : RecvUsers(first)
           \/ RecvHistory \/ RecvGroups \/ RecvSent \/ RecvMessage \/ RecvChange
  <2>1. channel # <<>> /\ Taken /\ UNCHANGED <<rows, contacts, work>>
    BY <1>6 DEF RecvUsers, RecvHistory, RecvGroups, RecvSent, RecvMessage, RecvChange, server, Reads
  <2>2. Took(Head(channel))
    BY <2>1, TakenEffect
  <2> QED
    BY <1>k, <2>1, <2>2 DEF Quiet
<1>7. CASE Restart
  BY <1>7
<1>8. CASE \E u \in Users :
              \/ (\E v \in Users \ {u} : Insert(u, v)) \/ AddContacts(u) \/ Deliver(u)
              \/ (\E i \in Ids : Update(u, i) \/ Delete(u, i)) \/ Notify(u)
  BY <1>8
<1>9. CASE UNCHANGED vars
  BY <1>k, <1>9 DEF vars, Quiet
<1> QED
  BY <1>1, <1>2, <1>3, <1>4, <1>5, <1>6, <1>7, <1>8, <1>9, Steps

-----------------------------------------------------------------------------
(* The lists of contacts                                                   *)

Met(i) == rows[i].from \in contacts[rows[i].to] /\ rows[i].to \in contacts[rows[i].from]
Begun(i) == \E u \in Users : work[u].step = "contacts" /\ work[u].id = i

LEMMA CoverStep ==
  ASSUME TInv, ContactsCoverMessages, [Next]_vars
  PROVE  ContactsCoverMessages'
<1>0. \A i \in Stored : Met(i) \/ Begun(i)
  BY DEF ContactsCoverMessages, Met, Begun
<1>g. SUFFICES \A i \in Stored' : Met(i)' \/ Begun(i)'
  BY DEF ContactsCoverMessages, Met, Begun
<1>t. RowsOK /\ WorkOK /\ RowsOK' /\ Grows(rows, rows')
  BY RowsStep DEF TInv
<1>a. ASSUME contacts' = contacts, Stored' \subseteq Stored,
             \A x \in Users : work[x].step = "contacts" => work'[x] = work[x]
      PROVE  \A i \in Stored' : Met(i)' \/ Begun(i)'
  <2> SUFFICES ASSUME NEW i \in Stored' PROVE Met(i)' \/ Begun(i)'
    OBVIOUS
  <2>1. i \in Stored /\ i \in DOMAIN rows /\ rows'[i].from = rows[i].from /\ rows'[i].to = rows[i].to
    BY <1>a, <1>t DEF Stored, Grows
  <2>2. Met(i) => Met(i)'
    BY <1>a, <2>1 DEF Met
  <2>3. Begun(i) => Begun(i)'
    BY <1>a DEF Begun
  <2> QED
    BY <1>0, <2>1, <2>2, <2>3
<1>u. ASSUME rows' = rows PROVE Stored' = Stored
  BY <1>u DEF Stored
<1>1. ASSUME NEW u \in Users, NEW v \in Users \ {u}, Insert(u, v) PROVE \A i \in Stored' : Met(i)' \/ Begun(i)'
  <2>0. contacts' = contacts
    BY <1>1, InsertEffect
  <2>1. CASE UNCHANGED <<rows, work>>
    BY <1>a, <1>u, <2>0, <2>1
  <2>2. CASE \E i : Inserts(u, v, i)
    <3>1. PICK n : Inserts(u, v, n)
      BY <2>2
    <3> SUFFICES ASSUME NEW i \in Stored' PROVE Met(i)' \/ Begun(i)'
      OBVIOUS
    <3>2. CASE i = n
      BY <3>1, <3>2 DEF Inserts, Begun
    <3>3. CASE i # n
      <4>1. i \in Stored /\ rows'[i] = rows[i]
        BY <3>1, <3>3 DEF Inserts, Stored
      <4>2. Met(i) => Met(i)'
        BY <2>0, <4>1 DEF Met
      <4>3. Begun(i) => Begun(i)'
        BY <3>1 DEF Begun, Inserts, Others, Idle
      <4> QED
        BY <1>0, <4>1, <4>2, <4>3
    <3> QED
      BY <3>2, <3>3
  <2> QED
    BY <1>1, <2>1, <2>2, InsertEffect
<1>2. ASSUME NEW u \in Users, AddContacts(u) PROVE \A i \in Stored' : Met(i)' \/ Begun(i)'
  <2> SUFFICES ASSUME NEW i \in Stored' PROVE Met(i)' \/ Begun(i)'
    OBVIOUS
  <2>1. work[u].step = "contacts" /\ rows' = rows /\ work[u].id \in DOMAIN rows /\ rows[work[u].id].from = u
    BY <1>2, <1>t DEF AddContacts, WorkOK, WorkFits
  <2> DEFINE v == rows[work[u].id].to
  <2>2. contacts' = [contacts EXCEPT ![u] = @ \cup {v}, ![v] = @ \cup {u}] /\ v \in Users /\ contacts \in [Users -> SUBSET Users]
    BY <1>2, <1>t, <2>1, RowTypes DEF AddContacts, TInv, ContactsOK
  <2>3. i \in Stored /\ i \in DOMAIN rows /\ rows[i].from \in Users /\ rows[i].to \in Users
    BY <1>t, <1>u, <2>1, RowTypes DEF Stored
  <2>4. CASE work[u].id = i
    <3>1. rows[i].from = u /\ rows[i].to = v
      BY <2>1, <2>4
    <3> HIDE DEF v
    <3>2. v \in contacts'[u] /\ u \in contacts'[v]
      BY <2>2
    <3> QED
      BY <2>1, <3>1, <3>2 DEF Met
  <2>5. CASE work[u].id # i
    <3>0. \A x \in Users : contacts[x] \subseteq contacts'[x]
      <4> HIDE DEF v
      <4> QED
        BY <2>2
    <3>1. Met(i) => Met(i)'
      BY <2>1, <2>3, <3>0 DEF Met
    <3>2. Others(u)
      BY <1>2, <1>t, ThenEffect DEF AddContacts, Then
    <3>3. Begun(i) => Begun(i)'
      BY <2>5, <3>2 DEF Begun, Others
    <3> QED
      BY <1>0, <2>3, <3>1, <3>3
  <2> QED
    BY <2>4, <2>5
<1>3. ASSUME NEW u \in Users, Deliver(u) \/ Notify(u) PROVE \A i \in Stored' : Met(i)' \/ Begun(i)'
  <2>1. rows' = rows /\ contacts' = contacts /\ work[u].step # "contacts" /\ work' = [work EXCEPT ![u] = NoWork]
    BY <1>3 DEF Deliver, Notify, Then
  <2>2. Others(u)
    BY <1>t, <2>1, ThenEffect
  <2> QED
    BY <1>a, <1>u, <2>1, <2>2 DEF Others
<1>4. ASSUME NEW u \in Users, NEW i \in Ids, Update(u, i) \/ Delete(u, i) PROVE \A j \in Stored' : Met(j)' \/ Begun(j)'
  <2>0. contacts' = contacts
    BY <1>4, ChangeEffect
  <2>1. CASE UNCHANGED <<rows, work>>
    BY <1>a, <1>u, <2>0, <2>1
  <2>2. CASE \E t : Changes(u, i, t)
    <3>1. PICK t : Changes(u, i, t)
      BY <2>2
    <3>2. Stored' \subseteq Stored
      BY <3>1 DEF Changes, Stored
    <3>3. \A x \in Users : work[x].step = "contacts" => work'[x] = work[x]
      BY <3>1 DEF Changes, Others, Idle
    <3> QED
      BY <1>a, <2>0, <3>2, <3>3
  <2> QED
    BY <1>4, <2>1, <2>2, ChangeEffect
<1>5. CASE Restart
  <2> SUFFICES ASSUME NEW i \in Stored' PROVE Met(i)'
    OBVIOUS
  <2>1. rows' = rows /\ contacts' = [u \in Users |-> {v \in Users \ {u} : Conversation(u, v) \cap Stored # {}}]
    BY <1>5 DEF Restart
  <2>2. i \in Stored /\ i \in DOMAIN rows /\ rows[i].from \in Users /\ rows[i].to \in Users /\ rows[i].from # rows[i].to
    BY <1>t, <1>u, <2>1, RowTypes DEF Stored
  <2>3. /\ i \in Conversation(rows[i].from, rows[i].to) \cap Stored
        /\ i \in Conversation(rows[i].to, rows[i].from) \cap Stored
    BY <2>2 DEF Conversation
  <2>4. rows[i].to \in contacts'[rows[i].from] /\ rows[i].from \in contacts'[rows[i].to]
    BY <2>1, <2>2, <2>3
  <2> QED
    BY <2>1, <2>4 DEF Met
<1>6. CASE Quiet
  <2>1. \A x \in Users : work[x].step = "contacts" => work'[x] = work[x]
    BY <1>6 DEF Quiet, Kept
  <2> QED
    BY <1>a, <1>u, <1>6, <2>1 DEF Quiet
<1> QED
  BY <1>1, <1>2, <1>3, <1>4, <1>5, <1>6, OtherSteps

(* Two users with a message between them are each in the other's list of   *)
(* contacts, after a restart too, but for a message just being sent.       *)
THEOREM ContactsKnown == Spec => []ContactsCoverMessages
<1>1. Init => ContactsCoverMessages
  <2> SUFFICES ASSUME Init PROVE Stored = {}
    BY DEF ContactsCoverMessages
  <2>1. rows = <<>> /\ DOMAIN <<>> = {}
    BY DEF Init
  <2> QED
    BY <2>1 DEF Stored
<1>2. TInv /\ ContactsCoverMessages /\ [Next]_vars => ContactsCoverMessages'
  BY CoverStep
<1> QED
  BY <1>1, <1>2, TInvAlways, PTL DEF Spec

-----------------------------------------------------------------------------
(* A message, and what is told of it later, in the order of the channel    *)

Sending(u, i) == work[u].step \in {"contacts", "deliver"} /\ work[u].id = i
Telling(u, i) == work[u].step = "notify" /\ work[u].id = i
BeingTold(i) == \E u \in Users : Telling(u, i)

Change(f, i) == f.code \in {"changed", "deleted"} /\ f.id = i
About(f, i) == f.code \in {"message", "changed", "deleted"} /\ f.id = i
ToldAfter(i, n) == \E m \in DOMAIN channel : n < m /\ Change(channel[m], i)

(* While its sender's thread has a message in hand nothing else is known   *)
(* of it; a thread tells what is stored.                                   *)
InHand ==
  \A u \in Users : \A i \in DOMAIN rows :
    /\ Sending(u, i) => rows[i].text = 0 /\ \A n \in DOMAIN channel : ~About(channel[n], i)
    /\ Telling(u, i) => work[u].text = rows[i].text

(* The event of a message is written before those of its changes.          *)
MessageFirst ==
  \A m, n \in DOMAIN channel : \A i \in DOMAIN rows :
    About(channel[n], i) /\ channel[n].code = "message" /\ Change(channel[m], i) => n < m

(* What was written before the last change is corrected by what follows.   *)
Corrected ==
  \A n \in DOMAIN channel : \A i \in DOMAIN rows :
    About(channel[n], i) => \/ channel[n].text = rows[i].text
                            \/ BeingTold(i)
                            \/ ToldAfter(i, n)

OInv == InHand /\ MessageFirst /\ Corrected

LEMMA WorkOf ==
  ASSUME TInv, NEW u \in Users, NEW i
  PROVE  /\ Sending(u, i) => i \in DOMAIN rows /\ rows[i].from = u
         /\ Telling(u, i) => i \in DOMAIN rows /\ rows[i].from = u /\ rows[i].to = Me
BY DEF TInv, WorkOK, WorkFits, Sending, Telling, Is

LEMMA FrameOf ==
  ASSUME TInv, NEW n \in DOMAIN channel, NEW i, About(channel[n], i)
  PROVE  i \in DOMAIN rows /\ rows[i].to = Me /\ rows[i].from = channel[n].peer /\ channel[n].peer \in Peers
<1>1. FrameFits(channel[n], rows)
  BY DEF TInv, ChannelOK
<1>2. channel[n] \in Frames /\ Is(i, channel[n].peer, Me, rows)
  BY <1>1 DEF FrameFits, About
<1>3. channel[n].peer \in Peers
  BY <1>2, FrameTypes DEF About
<1> QED
  BY <1>2, <1>3 DEF Is

(* what is in the channel is what was, one place before, or the new frame  *)
LEMMA PutPlaces ==
  ASSUME NEW f, Put(f), NEW n \in DOMAIN channel'
  PROVE  \/ n \in DOMAIN channel /\ channel'[n] = channel[n] /\ n # Len(channel) + 1 /\ n < Len(channel) + 1
         \/ n = Len(channel) + 1 /\ channel'[n] = f
BY DEF Put

LEMMA ToldLater ==
  ASSUME NEW i
  PROVE  /\ \A f : Put(f) => \A n \in DOMAIN channel : ToldAfter(i, n) => ToldAfter(i, n)'
         /\ \A f : Put(f) /\ Change(f, i) => \A n \in DOMAIN channel : ToldAfter(i, n)'
         /\ \A f : Took(f) => \A n \in DOMAIN channel' : ToldAfter(i, n + 1) => ToldAfter(i, n)'
<1>1. ASSUME NEW f, Put(f), NEW n \in DOMAIN channel, ToldAfter(i, n) PROVE ToldAfter(i, n)'
  <2>1. PICK m \in DOMAIN channel : n < m /\ Change(channel[m], i)
    BY <1>1 DEF ToldAfter
  <2>2. m \in DOMAIN channel' /\ channel'[m] = channel[m]
    BY <1>1 DEF Put
  <2> QED
    BY <2>1, <2>2 DEF ToldAfter
<1>2. ASSUME NEW f, Put(f), Change(f, i), NEW n \in DOMAIN channel PROVE ToldAfter(i, n)'
  <2>1. Len(channel) + 1 \in DOMAIN channel' /\ channel'[Len(channel) + 1] = f /\ n < Len(channel) + 1
    BY <1>2 DEF Put
  <2> QED
    BY <1>2, <2>1 DEF ToldAfter
<1>3. ASSUME NEW f, Took(f), NEW n \in DOMAIN channel', ToldAfter(i, n + 1) PROVE ToldAfter(i, n)'
  <2>1. PICK m \in DOMAIN channel : n + 1 < m /\ Change(channel[m], i)
    BY <1>3 DEF ToldAfter
  <2>2. m - 1 \in DOMAIN channel' /\ channel'[m - 1] = channel[(m - 1) + 1] /\ (m - 1) + 1 = m /\ n < m - 1
    BY <1>3, <2>1 DEF Took
  <2> QED
    BY <2>1, <2>2 DEF ToldAfter
<1> QED
  BY <1>1, <1>2, <1>3

(* the three parts, while the channel goes on and nothing else happens     *)
LEMMA QuietOrder ==
  ASSUME TInv, OInv, Quiet
  PROVE  OInv'
<1>1. rows' = rows /\ Kept
  BY DEF Quiet
<1>2. \A u \in Users : \A i : (Sending(u, i)' <=> Sending(u, i)) /\ (Telling(u, i)' <=> Telling(u, i)) /\ (Telling(u, i) => work'[u] = work[u])
  BY <1>1 DEF Kept, Sending, Telling
<1>b. \A i : BeingTold(i)' <=> BeingTold(i)
  BY <1>2 DEF BeingTold
<1>3. CASE channel' = channel
  <2>1. InHand'
    BY <1>1, <1>2, <1>3 DEF OInv, InHand
  <2>2. MessageFirst'
    BY <1>1, <1>3 DEF OInv, MessageFirst
  <2>3. \A i, n : ToldAfter(i, n)' <=> ToldAfter(i, n)
    BY <1>3 DEF ToldAfter
  <2>4. Corrected'
    BY <1>1, <1>b, <1>3, <2>3 DEF OInv, Corrected
  <2> QED
    BY <2>1, <2>2, <2>4 DEF OInv
<1>4. CASE channel' = <<>>
  <2>1. DOMAIN channel' = {}
    BY <1>4
  <2> QED
    BY <1>1, <1>2, <2>1 DEF OInv, InHand, MessageFirst, Corrected
<1>5. ASSUME NEW f, Put(f), f.code \in {"users", "error", "groups", "history"} PROVE OInv'
  <2>0. \A i : ~About(f, i) /\ ~Change(f, i)
    BY <1>5 DEF About, Change
  <2>1. ASSUME NEW n \in DOMAIN channel', NEW i, About(channel'[n], i) PROVE n \in DOMAIN channel /\ channel'[n] = channel[n]
    BY <1>5, <2>0, <2>1, PutPlaces
  <2>2. ASSUME NEW n \in DOMAIN channel', NEW i, Change(channel'[n], i) PROVE n \in DOMAIN channel /\ channel'[n] = channel[n]
    BY <1>5, <2>0, <2>2, PutPlaces
  <2>3. InHand'
    BY <1>1, <1>2, <2>1 DEF OInv, InHand
  <2>4. MessageFirst'
    BY <1>1, <2>1, <2>2 DEF OInv, MessageFirst
  <2>6. Corrected'
    <3> SUFFICES ASSUME NEW n \in DOMAIN channel', NEW i \in DOMAIN rows, About(channel'[n], i)
                 PROVE  \/ channel'[n].text = rows[i].text
                        \/ BeingTold(i)'
                        \/ ToldAfter(i, n)'
      BY <1>1 DEF Corrected
    <3>1. n \in DOMAIN channel /\ channel'[n] = channel[n]
      BY <2>1
    <3>2. channel[n].text = rows[i].text \/ BeingTold(i) \/ ToldAfter(i, n)
      BY <3>1 DEF OInv, Corrected
    <3>3. ToldAfter(i, n) => ToldAfter(i, n)'
      BY <1>5, <3>1, ToldLater
    <3> QED
      BY <1>b, <3>1, <3>2, <3>3
  <2> QED
    BY <2>3, <2>4, <2>6 DEF OInv
<1>6. ASSUME NEW f, Took(f) PROVE OInv'
  <2>1. \A n \in DOMAIN channel' : n + 1 \in DOMAIN channel /\ channel'[n] = channel[n + 1]
    BY <1>6 DEF Took
  <2>2. \A m, n \in DOMAIN channel' : n + 1 < m + 1 => n < m
    BY <1>6 DEF Took
  <2>3. InHand'
    BY <1>1, <1>2, <2>1 DEF OInv, InHand
  <2>4. MessageFirst'
    <3> SUFFICES ASSUME NEW m \in DOMAIN channel', NEW n \in DOMAIN channel', NEW i \in DOMAIN rows, 
                        About(channel'[n], i), channel'[n].code = "message", Change(channel'[m], i)
                 PROVE  n < m
      BY <1>1 DEF MessageFirst
    <3>1. n + 1 < m + 1
      BY <2>1 DEF OInv, MessageFirst
    <3> QED
      BY <2>2, <3>1
  <2>6. Corrected'
    <3> SUFFICES ASSUME NEW n \in DOMAIN channel', NEW i \in DOMAIN rows, About(channel'[n], i)
                 PROVE  \/ channel'[n].text = rows[i].text
                        \/ BeingTold(i)'
                        \/ ToldAfter(i, n)'
      BY <1>1 DEF Corrected
    <3>1. n + 1 \in DOMAIN channel /\ channel'[n] = channel[n + 1]
      BY <2>1
    <3>2. channel[n + 1].text = rows[i].text \/ BeingTold(i) \/ ToldAfter(i, n + 1)
      BY <3>1 DEF OInv, Corrected
    <3>3. ToldAfter(i, n + 1) => ToldAfter(i, n)'
      BY <1>6, ToldLater
    <3> QED
      BY <1>b, <3>1, <3>2, <3>3
  <2> QED
    BY <2>3, <2>4, <2>6 DEF OInv
<1> QED
  BY <1>3, <1>4, <1>5, <1>6 DEF Quiet

LEMMA InsertOrder ==
  ASSUME TInv, OInv, NEW u \in Users, NEW v, NEW j, Inserts(u, v, j), channel' = channel
  PROVE  OInv'
<1>1. \A n \in DOMAIN channel : ~About(channel[n], j)
  BY FrameOf DEF Inserts
<1>2. ASSUME NEW x \in Users, NEW i, Sending(x, i)'
      PROVE  (x = u /\ i = j) \/ (x # u /\ Sending(x, i) /\ i \in DOMAIN rows /\ rows'[i] = rows[i])
  <2>1. CASE x = u
    BY <1>2, <2>1 DEF Sending, Inserts
  <2>2. CASE x # u
    <3>1. Sending(x, i)
      BY <1>2, <2>2 DEF Sending, Inserts, Others
    <3> QED
      BY <2>2, <3>1, WorkOf DEF Inserts
  <2> QED
    BY <2>1, <2>2
<1>3. ASSUME NEW x \in Users, NEW i, Telling(x, i)'
      PROVE  Telling(x, i) /\ i \in DOMAIN rows /\ rows'[i] = rows[i] /\ work'[x] = work[x]
  <2>1. x # u
    BY <1>3 DEF Telling, Inserts
  <2>2. work'[x] = work[x]
    BY <2>1 DEF Inserts, Others
  <2>3. Telling(x, i)
    BY <1>3, <2>2 DEF Telling
  <2> QED
    BY <2>2, <2>3, WorkOf DEF Inserts
<1>4. ASSUME NEW i, BeingTold(i) PROVE BeingTold(i)'
  BY <1>4 DEF BeingTold, Telling, Inserts, Others, Idle
<1>5. rows'[j].text = 0
  BY DEF Inserts, Row
<1>6. InHand'
  <2> SUFFICES ASSUME NEW x \in Users, NEW i \in DOMAIN rows'
               PROVE  /\ Sending(x, i)' => rows'[i].text = 0 /\ \A n \in DOMAIN channel : ~About(channel[n], i)
                      /\ Telling(x, i)' => work'[x].text = rows'[i].text
    BY DEF InHand
  <2>1. ASSUME Sending(x, i)' PROVE rows'[i].text = 0 /\ \A n \in DOMAIN channel : ~About(channel[n], i)
    <3>1. CASE x = u /\ i = j
      BY <1>1, <1>5, <3>1
    <3>2. CASE x # u /\ Sending(x, i) /\ i \in DOMAIN rows /\ rows'[i] = rows[i]
      BY <3>2 DEF OInv, InHand
    <3> QED
      BY <1>2, <2>1, <3>1, <3>2
  <2>2. ASSUME Telling(x, i)' PROVE work'[x].text = rows'[i].text
    BY <1>3, <2>2 DEF OInv, InHand
  <2> QED
    BY <2>1, <2>2
<1>7. MessageFirst'
  <2>1. \A n \in DOMAIN channel : \A i : About(channel[n], i) => i \in DOMAIN rows
    BY FrameOf
  <2> QED
    BY <2>1 DEF OInv, MessageFirst
<1>8. Corrected'
  <2> SUFFICES ASSUME NEW n \in DOMAIN channel, NEW i \in DOMAIN rows', About(channel[n], i)
               PROVE  \/ channel[n].text = rows'[i].text
                      \/ BeingTold(i)'
                      \/ ToldAfter(i, n)'
    BY DEF Corrected
  <2>1. i \in DOMAIN rows /\ rows'[i] = rows[i] /\ rows[i].from \in Users
    BY FrameOf, RowTypes DEF Inserts, TInv
  <2>2. ToldAfter(i, n)' <=> ToldAfter(i, n)
    BY DEF ToldAfter
  <2> QED
    BY <1>4, <2>1, <2>2 DEF OInv, Corrected
<1> QED
  BY <1>6, <1>7, <1>8 DEF OInv

LEMMA ChangeOrder ==
  ASSUME TInv, OInv, NEW u \in Users, NEW j, NEW t, Changes(u, j, t), channel' = channel
  PROVE  OInv'
<1>0. j \in DOMAIN rows /\ DOMAIN rows' = DOMAIN rows
  BY DEF Changes, Stored
<1>1. ASSUME NEW x \in Users, NEW i, Sending(x, i)'
      PROVE  Sending(x, i) /\ i \in DOMAIN rows /\ rows'[i] = rows[i]
  <2>1. x # u
    BY <1>1 DEF Sending, Changes, Notifying, NoWork
  <2>2. Sending(x, i)
    BY <1>1, <2>1 DEF Sending, Changes, Others
  <2> QED
    BY <2>1, <2>2, WorkOf DEF Changes
<1>2. ASSUME NEW x \in Users, NEW i, Telling(x, i)'
      PROVE  \/ x = u /\ i = j /\ work'[x].text = t
             \/ Telling(x, i) /\ i \in DOMAIN rows /\ rows'[i] = rows[i] /\ work'[x] = work[x]
  <2>1. CASE x = u
    BY <1>2, <2>1 DEF Telling, Changes, Notifying, NoWork
  <2>2. CASE x # u
    <3>1. work'[x] = work[x]
      BY <2>2 DEF Changes, Others
    <3>2. Telling(x, i)
      BY <1>2, <3>1 DEF Telling
    <3> QED
      BY <2>2, <3>1, <3>2, WorkOf DEF Changes
  <2> QED
    BY <2>1, <2>2
<1>3. ASSUME NEW i, BeingTold(i) PROVE BeingTold(i)'
  BY <1>3 DEF BeingTold, Telling, Changes, Others, Idle
<1>4. InHand'
  <2> SUFFICES ASSUME NEW x \in Users, NEW i \in DOMAIN rows
               PROVE  /\ Sending(x, i)' => rows'[i].text = 0 /\ \A n \in DOMAIN channel : ~About(channel[n], i)
                      /\ Telling(x, i)' => work'[x].text = rows'[i].text
    BY <1>0 DEF InHand
  <2>1. ASSUME Sending(x, i)' PROVE rows'[i].text = 0 /\ \A n \in DOMAIN channel : ~About(channel[n], i)
    BY <1>1, <2>1 DEF OInv, InHand
  <2>2. ASSUME Telling(x, i)' PROVE work'[x].text = rows'[i].text
    <3>1. CASE x = u /\ i = j /\ work'[x].text = t
      BY <3>1 DEF Changes
    <3>2. CASE Telling(x, i) /\ i \in DOMAIN rows /\ rows'[i] = rows[i] /\ work'[x] = work[x]
      BY <3>2 DEF OInv, InHand
    <3> QED
      BY <1>2, <2>2, <3>1, <3>2
  <2> QED
    BY <2>1, <2>2
<1>5. MessageFirst'
  BY <1>0 DEF OInv, MessageFirst
<1>6. Corrected'
  <2> SUFFICES ASSUME NEW n \in DOMAIN channel, NEW i \in DOMAIN rows, About(channel[n], i)
               PROVE  \/ channel[n].text = rows'[i].text
                      \/ BeingTold(i)'
                      \/ ToldAfter(i, n)'
    BY <1>0 DEF Corrected
  <2>1. CASE i = j
    <3>1. rows[j].to = Me /\ rows'[j].from = u
      BY <2>1, FrameOf DEF Changes
    <3>2. Telling(u, j)'
      BY <3>1 DEF Telling, Changes, Notifying
    <3> QED
      BY <2>1, <3>2 DEF BeingTold
  <2>2. CASE i # j
    <3>1. rows'[i] = rows[i] /\ rows[i].from \in Users
      BY <2>2, RowTypes DEF Changes, TInv
    <3>2. ToldAfter(i, n)' <=> ToldAfter(i, n)
      BY DEF ToldAfter
    <3> QED
      BY <1>3, <3>1, <3>2 DEF OInv, Corrected
  <2> QED
    BY <2>1, <2>2
<1> QED
  BY <1>4, <1>5, <1>6 DEF OInv

(* the thread of u is done with the message j, of which f tells            *)
LEMMA WrittenOrder ==
  ASSUME TInv, OInv, NEW u \in Users, NEW j, Sending(u, j) \/ Telling(u, j),
         rows' = rows, work'[u].step = "idle", Others(u), NEW f,
         \/ channel' = <<>>
         \/ Sending(u, j) /\ channel' = channel /\ rows[j].to # Me
         \/ Sending(u, j) /\ Put(f) /\ f.code = "sent"
         \/ Sending(u, j) /\ Put(f) /\ f.code = "message" /\ f.id = j /\ f.text = 0
         \/ Telling(u, j) /\ Put(f) /\ f.code \in {"changed", "deleted"} /\ f.id = j /\ f.text = rows[j].text
  PROVE  OInv'
<1>0. j \in DOMAIN rows /\ rows[j].from = u /\ \A i \in DOMAIN rows : rows[i].from \in Users
  BY WorkOf, RowTypes DEF TInv
<1>1. ASSUME NEW x \in Users, NEW i, Sending(x, i)' \/ Telling(x, i)'
      PROVE  x # u /\ work'[x] = work[x] /\ i # j
  <2>1. x # u
    BY <1>1 DEF Sending, Telling
  <2>2. work'[x] = work[x]
    BY <2>1 DEF Others
  <2>3. Sending(x, i) \/ Telling(x, i)
    BY <1>1, <2>2 DEF Sending, Telling
  <2>4. rows[i].from = x
    BY <2>3, WorkOf
  <2> QED
    BY <1>0, <2>1, <2>2, <2>4
<1>2. ASSUME NEW i, BeingTold(i) PROVE BeingTold(i)' \/ (i = j /\ Telling(u, j))
  BY <1>2 DEF BeingTold, Telling, Sending, Others
<1>3. ASSUME NEW n \in DOMAIN channel', NEW i, About(channel'[n], i)
      PROVE  \/ n \in DOMAIN channel /\ channel'[n] = channel[n]
             \/ i = j /\ channel'[n].text = rows[j].text
  <2>1. CASE channel' = <<>>
    BY <1>3, <2>1
  <2>2. CASE Put(f)
    <3>1. CASE n = Len(channel) + 1 /\ channel'[n] = f
      BY <1>0, <1>3, <3>1 DEF About, Put, OInv, InHand
    <3> QED
      BY <2>2, <3>1, PutPlaces
  <2> QED
    BY <1>3, <2>1, <2>2
<1>4. InHand'
  <2> SUFFICES ASSUME NEW x \in Users, NEW i \in DOMAIN rows
               PROVE  /\ Sending(x, i)' => rows[i].text = 0 /\ \A n \in DOMAIN channel' : ~About(channel'[n], i)
                      /\ Telling(x, i)' => work'[x].text = rows[i].text
    BY DEF InHand
  <2>1. ASSUME Sending(x, i)' PROVE rows[i].text = 0 /\ \A n \in DOMAIN channel' : ~About(channel'[n], i)
    <3>1. Sending(x, i) /\ i # j
      BY <1>1, <2>1 DEF Sending
    <3> QED
      BY <1>3, <3>1 DEF OInv, InHand
  <2>2. ASSUME Telling(x, i)' PROVE work'[x].text = rows[i].text
    <3>1. Telling(x, i) /\ work'[x] = work[x]
      BY <1>1, <2>2 DEF Telling
    <3> QED
      BY <3>1 DEF OInv, InHand
  <2> QED
    BY <2>1, <2>2
<1>5. MessageFirst'
  <2> SUFFICES ASSUME NEW m \in DOMAIN channel', NEW n \in DOMAIN channel', NEW i \in DOMAIN rows, 
                      About(channel'[n], i), channel'[n].code = "message", Change(channel'[m], i)
               PROVE  n < m
    BY DEF MessageFirst
  <2>1. CASE channel' = <<>>
    BY <2>1
  <2>2. CASE channel' = channel
    BY <2>2 DEF OInv, MessageFirst
  <2>3. CASE Put(f)
    <3>1. CASE n \in DOMAIN channel /\ channel'[n] = channel[n] /\ m \in DOMAIN channel /\ channel'[m] = channel[m]
      BY <3>1 DEF OInv, MessageFirst
    <3>2. CASE n \in DOMAIN channel /\ n < Len(channel) + 1 /\ m = Len(channel) + 1
      BY <3>2
    <3>3. CASE n = Len(channel) + 1 /\ channel'[n] = f
      <4>1. f.code = "message" /\ f.id = i /\ ~(f.code \in {"changed", "deleted"})
        BY <3>3 DEF About
      <4>2. Sending(u, j) /\ i = j
        BY <2>3, <4>1 DEF Put
      <4>3. m # n
        BY <3>3, <4>1 DEF Change
      <4>4. m \in DOMAIN channel /\ channel'[m] = channel[m]
        BY <2>3, <3>3, <4>3, PutPlaces
      <4>5. About(channel[m], j)
        BY <4>2, <4>4 DEF About, Change
      <4> QED
        BY <1>0, <4>2, <4>4, <4>5 DEF OInv, InHand
    <3> QED
      BY <2>3, <3>1, <3>2, <3>3, PutPlaces
  <2> QED
    BY <2>1, <2>2, <2>3
<1>6. Corrected'
  <2> SUFFICES ASSUME NEW n \in DOMAIN channel', NEW i \in DOMAIN rows, About(channel'[n], i)
               PROVE  \/ channel'[n].text = rows[i].text
                      \/ BeingTold(i)'
                      \/ ToldAfter(i, n)'
    BY DEF Corrected
  <2>1. CASE i = j /\ channel'[n].text = rows[j].text
    BY <2>1
  <2>2. CASE n \in DOMAIN channel /\ channel'[n] = channel[n] /\ channel' # <<>>
    <3>1. channel[n].text = rows[i].text \/ BeingTold(i) \/ ToldAfter(i, n)
      BY <2>2 DEF OInv, Corrected
    <3>2. ToldAfter(i, n) => ToldAfter(i, n)'
      <4>1. CASE channel' = channel
        BY <4>1 DEF ToldAfter
      <4>2. CASE Put(f)
        BY <2>2, <4>2, ToldLater
      <4> QED
        BY <2>2, <4>1, <4>2
    <3>3. CASE i = j /\ Telling(u, j)
      <4>1. ~Sending(u, j)
        BY <3>3 DEF Sending, Telling
      <4>2. Put(f) /\ Change(f, i)
        BY <2>2, <3>3, <4>1 DEF Change
      <4> QED
        BY <2>2, <4>2, ToldLater
    <3>4. BeingTold(i) => BeingTold(i)' \/ (i = j /\ Telling(u, j))
      BY <1>0, <1>2
    <3> QED
      BY <2>2, <3>1, <3>2, <3>3, <3>4
  <2>3. channel' # <<>>
    OBVIOUS
  <2> QED
    BY <1>3, <2>1, <2>2, <2>3
<1> QED
  BY <1>4, <1>5, <1>6 DEF OInv

(* what Deliver and Notify do                                              *)
LEMMA DeliverEffect ==
  ASSUME TInv, NEW u \in Users, Deliver(u)
  PROVE  /\ Sending(u, work[u].id) /\ work[u].step = "deliver" /\ UNCHANGED <<rows, contacts, online, requests, client>>
         /\ work'[u] = NoWork /\ work'[u].step = "idle" /\ Others(u) /\ work[u].id \in DOMAIN rows /\ rows[work[u].id].from = u
         /\ \/ phase = "off" /\ channel' = <<>>
            \/ phase = "off" /\ channel' = channel
            \/ u # Me /\ rows[work[u].id].to # Me /\ channel' = channel
            \/ phase # "off" /\ u = Me /\ \E f : /\ Put(f) /\ f.code = "sent" /\ f.id = work[u].id /\ f.text = 0
                                                 /\ f.peer = rows[work[u].id].to /\ f.peer \in Peers
            \/ phase # "off" /\ u # Me /\ rows[work[u].id].to = Me
               /\ \E f : Put(f) /\ f.code = "message" /\ f.id = work[u].id /\ f.text = 0 /\ f.peer = u
<1> DEFINE i == work[u].id
<1>1. work[u].step = "deliver" /\ UNCHANGED <<rows, contacts, online, requests, client>> /\ work' = [work EXCEPT ![u] = NoWork]
  BY DEF Deliver, Then
<1>2. Sending(u, i)
  BY <1>1 DEF Sending
<1>3. work'[u] = NoWork /\ Others(u) /\ NoWork.step = "idle"
  BY <1>1, ThenEffect DEF TInv, NoWork
<1>4. i \in DOMAIN rows /\ rows[i].from = u
  BY <1>2, WorkOf
<1>5. i \in Ids /\ rows[i].to \in Users /\ rows[i].to # u /\ 0 \in Texts
  BY <1>4, RowTypes, MessengerAssumption DEF TInv, Texts
<1>6. CASE u = Me
  <2> DEFINE f == [code |-> "sent", peer |-> rows[i].to, id |-> i, text |-> 0]
  <2>1. rows[i].to \in Peers /\ Write(f)
    BY <1>5, <1>6, Apart DEF Deliver
  <2>2. f \in Frames
    BY <1>5, <2>1 DEF Frames
  <2>3. f.code = "sent" /\ f.id = i /\ f.text = 0 /\ f.peer = rows[i].to
    OBVIOUS
  <2> HIDE DEF f, i
  <2>4. CASE phase # "off"
    <3>1. Put(f)
      BY <2>1, <2>2, <2>4, WriteEffect
    <3> QED
      BY <1>1, <1>2, <1>3, <1>4, <1>6, <2>1, <2>3, <2>4, <3>1 DEF i
  <2>5. CASE phase = "off"
    <3>1. channel' = <<>>
      BY <2>1, <2>2, <2>5, WriteEffect
    <3> QED
      BY <1>1, <1>2, <1>3, <1>4, <2>5, <3>1 DEF i
  <2> QED
    BY <2>4, <2>5
<1>7. CASE u # Me /\ rows[i].to = Me
  <2> DEFINE f == [code |-> "message", peer |-> u, id |-> i, text |-> 0]
  <2>1. u \in Peers /\ Write(f)
    BY <1>5, <1>7, Apart DEF Deliver
  <2>2. f \in Frames
    BY <1>5, <2>1 DEF Frames
  <2>3. f.code = "message" /\ f.id = i /\ f.text = 0 /\ f.peer = u
    OBVIOUS
  <2> HIDE DEF f, i
  <2>4. CASE phase # "off"
    <3>1. Put(f)
      BY <2>1, <2>2, <2>4, WriteEffect
    <3> QED
      BY <1>1, <1>2, <1>3, <1>4, <1>7, <2>3, <2>4, <3>1 DEF i
  <2>5. CASE phase = "off"
    <3>1. channel' = <<>>
      BY <2>1, <2>2, <2>5, WriteEffect
    <3> QED
      BY <1>1, <1>2, <1>3, <1>4, <2>5, <3>1 DEF i
  <2> QED
    BY <2>4, <2>5
<1>8. CASE u # Me /\ rows[i].to # Me
  BY <1>1, <1>2, <1>3, <1>4, <1>8 DEF Deliver
<1> QED
  BY <1>6, <1>7, <1>8

LEMMA NotifyEffect ==
  ASSUME TInv, NEW u \in Users, Notify(u)
  PROVE  /\ Telling(u, work[u].id) /\ UNCHANGED <<rows, contacts, online, requests, client>> /\ u \in Peers
         /\ work'[u] = NoWork /\ work'[u].step = "idle" /\ Others(u)
         /\ Is(work[u].id, u, Me, rows)
         /\ \/ phase = "off" /\ channel' = <<>>
            \/ phase # "off" /\ \E f : Put(f) /\ Change(f, work[u].id) /\ f.text = work[u].text /\ f.peer = u
<1> DEFINE f == [code |-> IF work[u].text = Gone THEN "deleted" ELSE "changed",
                 peer |-> u, id |-> work[u].id, text |-> work[u].text]
<1>1. /\ work[u].step = "notify" /\ UNCHANGED <<rows, contacts, online, requests, client>> /\ Write(f)
      /\ work' = [work EXCEPT ![u] = NoWork]
  BY DEF Notify, Then
<1>2. Is(work[u].id, u, Me, rows) /\ work[u] \in Works
  BY <1>1 DEF TInv, WorkOK, WorkFits
<1>3. work[u].id \in Ids /\ work[u].text \in 1..Gone
  BY <1>1, <1>2, WorkTypes
<1>4. u \in Peers
  BY <1>2, RowTypes, Apart DEF Is, TInv
<1>5. f \in Frames
  BY <1>3, <1>4, MessengerAssumption DEF Frames, Texts, Gone
<1>6. Change(f, work[u].id) /\ f.text = work[u].text /\ f.peer = u
  BY DEF Change
<1> HIDE DEF f
<1>7. IF phase = "off" THEN channel' = <<>> ELSE Put(f)
  BY <1>1, <1>5, WriteEffect
<1>8. work'[u] = NoWork /\ Others(u) /\ NoWork.step = "idle"
  BY <1>1, ThenEffect DEF TInv, NoWork
<1>9. Telling(u, work[u].id)
  BY <1>1 DEF Telling
<1> QED
  BY <1>1, <1>2, <1>4, <1>6, <1>7, <1>8, <1>9

LEMMA OInvStep ==
  ASSUME TInv, OInv, [Next]_vars
  PROVE  OInv'
<1>r. ASSUME rows' = rows, channel' = channel,
             \A u \in Users : \A i : (Sending(u, i)' <=> Sending(u, i)) /\ (Telling(u, i)' <=> Telling(u, i)) /\ (Telling(u, i) => work'[u] = work[u])
      PROVE  OInv'
  <2>1. InHand'
    BY <1>r DEF OInv, InHand
  <2>2. MessageFirst'
    BY <1>r DEF OInv, MessageFirst
  <2>3. \A i, n : ToldAfter(i, n)' <=> ToldAfter(i, n)
    BY <1>r DEF ToldAfter
  <2>4. \A i : BeingTold(i)' <=> BeingTold(i)
    BY <1>r DEF BeingTold
  <2>5. Corrected'
    BY <1>r, <2>3, <2>4 DEF OInv, Corrected
  <2> QED
    BY <2>1, <2>2, <2>5 DEF OInv
<1>1. ASSUME NEW u \in Users, NEW v \in Users \ {u}, Insert(u, v) PROVE OInv'
  <2>0. channel' = channel
    BY <1>1, InsertEffect
  <2>1. CASE UNCHANGED <<rows, work>>
    BY <1>r, <2>0, <2>1 DEF Sending, Telling
  <2>2. CASE \E i : Inserts(u, v, i)
    BY <2>0, <2>2, InsertOrder
  <2> QED
    BY <1>1, <2>1, <2>2, InsertEffect
<1>2. ASSUME NEW u \in Users, NEW i \in Ids, Update(u, i) \/ Delete(u, i) PROVE OInv'
  <2>0. channel' = channel
    BY <1>2, ChangeEffect
  <2>1. CASE UNCHANGED <<rows, work>>
    BY <1>r, <2>0, <2>1 DEF Sending, Telling
  <2>2. CASE \E t : Changes(u, i, t)
    BY <2>0, <2>2, ChangeOrder
  <2> QED
    BY <1>2, <2>1, <2>2, ChangeEffect
<1>3. ASSUME NEW u \in Users, AddContacts(u) PROVE OInv'
  <2>1. /\ work[u].step = "contacts" /\ rows' = rows /\ channel' = channel
        /\ work' = [work EXCEPT ![u] = [work[u] EXCEPT !.step = "deliver"]]
    BY <1>3 DEF AddContacts, Then
  <2>2. work[u] \in [step : {"contacts", "deliver"}, id : Ids]
    BY <2>1 DEF TInv, WorkOK, WorkFits, Works, NoWork
  <2>3. work'[u] = [work[u] EXCEPT !.step = "deliver"] /\ Others(u)
    BY <2>1, ThenEffect DEF TInv
  <2>4. work'[u].step = "deliver" /\ work'[u].id = work[u].id
    BY <2>2, <2>3
  <2> QED
    BY <1>r, <2>1, <2>3, <2>4 DEF Sending, Telling, Others
<1>4. ASSUME NEW u \in Users, Deliver(u) PROVE OInv'
  <2> DEFINE j == work[u].id
  <2>1. /\ Sending(u, j) /\ rows' = rows /\ work'[u].step = "idle" /\ Others(u)
        /\ \/ channel' = <<>>
           \/ phase = "off" /\ channel' = channel
           \/ rows[j].to # Me /\ channel' = channel
           \/ \E f : Put(f) /\ f.code = "sent"
           \/ \E f : Put(f) /\ f.code = "message" /\ f.id = j /\ f.text = 0
    BY <1>4, DeliverEffect
  <2>2. phase = "off" => channel = <<>>
    BY DEF TInv, SessionOK
  <2> HIDE DEF j
  <2> QED
    BY <2>1, <2>2, WrittenOrder
<1>5. ASSUME NEW u \in Users, Notify(u) PROVE OInv'
  <2> DEFINE j == work[u].id
  <2>1. /\ Telling(u, j) /\ rows' = rows /\ work'[u].step = "idle" /\ Others(u) /\ j \in DOMAIN rows
        /\ channel' = <<>> \/ (\E f : Put(f) /\ Change(f, j) /\ f.text = work[u].text)
    BY <1>5, NotifyEffect DEF Is
  <2>2. work[u].text = rows[j].text
    BY <2>1 DEF OInv, InHand
  <2> HIDE DEF j
  <2>3. CASE channel' = <<>>
    BY <2>1, <2>3, WrittenOrder
  <2>4. ASSUME NEW f, Put(f), Change(f, j), f.text = work[u].text PROVE OInv'
    <3>1. f.code \in {"changed", "deleted"} /\ f.id = j /\ f.text = rows[j].text
      BY <2>2, <2>4 DEF Change
    <3> QED
      BY <2>1, <2>4, <3>1, WrittenOrder
  <2> QED
    BY <2>1, <2>3, <2>4
<1>6. CASE Restart
  <2>1. rows' = rows /\ DOMAIN channel' = {} /\ \A u \in Users : work'[u].step = "idle"
    BY <1>6 DEF Restart, NoWork
  <2> QED
    BY <2>1 DEF OInv, InHand, MessageFirst, Corrected, Sending, Telling
<1>7. CASE Quiet
  BY <1>7, QuietOrder
<1> QED
  BY <1>1, <1>2, <1>3, <1>4, <1>5, <1>6, <1>7, OtherSteps

LEMMA OInvInit == ASSUME Init PROVE OInv
<1>1. DOMAIN rows = {} /\ DOMAIN channel = {}
  BY DEF Init
<1> QED
  BY <1>1 DEF OInv, InHand, MessageFirst, Corrected

(* The event of a message is written before those of its changes, and what *)
(* was written before a change is followed by the change.                  *)
THEOREM OInvAlways == Spec => []OInv
BY OInvInit, OInvStep, TInvAlways, PTL DEF Spec

-----------------------------------------------------------------------------
(* The histories that are asked for, in the order of their answers         *)

InChannel(n, p)  == n \in DOMAIN channel /\ channel[n].code = "history" /\ channel[n].peer = p
InWork(p)        == work[Me].step = "history" /\ work[Me].peer = p
InRequests(k, p) == k \in DOMAIN requests /\ requests[k].code = "history" /\ requests[k].peer = p

Awaited(p) ==
  \/ \E n \in DOMAIN channel : InChannel(n, p)
  \/ InWork(p)
  \/ \E k \in DOMAIN requests : InRequests(k, p)

(* a history of p comes before one of q                                    *)
Ahead(p, q) ==
  \/ \E m, n \in DOMAIN channel : m < n /\ InChannel(m, p) /\ InChannel(n, q)
  \/ (\E n \in DOMAIN channel : InChannel(n, p)) /\ (InWork(q) \/ \E k \in DOMAIN requests : InRequests(k, q))
  \/ InWork(p) /\ \E k \in DOMAIN requests : InRequests(k, q)
  \/ \E j, k \in DOMAIN requests : j < k /\ InRequests(j, p) /\ InRequests(k, q)

(* A chat whose first history is still due has no cursor.  The first       *)
(* histories come before the others, and there is one for each chat.       *)
FirstOnes ==
  \A p, q \in Peers : cursor[q] = 0 /\ Ahead(p, q) => cursor[p] = 0 /\ p # q

Due == {p \in Peers : cursor[p] = 0 /\ Awaited(p)}

Coming(p, i) == Sending(p, i) \/ \E n \in DOMAIN channel : channel[n].code = "message" /\ channel[n].id = i

(* no message of p from b on is missing, but for those of X                *)
Reach(p, b, X) ==
  \A i \in Stored : Is(i, p, Me, rows) /\ i >= b => i \in X \/ i \in Shown(p) \/ Coming(p, i)

PageReaches(p, ms) ==
  IF ms = <<>> THEN cursor[p] = 0 => Reach(p, 0, {}) ELSE Reach(p, ms[1].id, IdsOf(ms))

Pages ==
  /\ \A n \in DOMAIN channel : channel[n].code = "history" => PageReaches(channel[n].peer, channel[n].messages)
  /\ work[Me].step = "history" => PageReaches(work[Me].peer, work[Me].messages)
  /\ \A k \in DOMAIN requests : requests[k].code = "history" /\ requests[k].before # 0 =>
       cursor[requests[k].peer] # 0 /\ Reach(requests[k].peer, requests[k].before, {})

NoGroups ==
  /\ \A n \in DOMAIN channel : channel[n].code # "groups"
  /\ \A k \in DOMAIN requests : requests[k].code # "groups"

Counted ==
  /\ phase = "users" => \A p \in Peers : ~Awaited(p)
  /\ phase \in {"users", "histories"} => NoGroups
  /\ phase = "histories" => Cardinality(Due) + counter = Cardinality(Peers)
  /\ phase \in {"groups", "ready"} => Due = {}

Reached == phase # "users" => \A p \in Peers \ Due : Reach(p, cursor[p], {})

NInv == phase # "off" => FirstOnes /\ Counted /\ Pages /\ Reached

-----------------------------------------------------------------------------
(* Nothing is missing                                                      *)

(* what can happen while the client runs                                   *)
LEMMA RunningSteps ==
  ASSUME TInv, [Next]_vars, phase # "off", phase' # "off"
  PROVE  \/ \E u \in Users :
              \/ (\E v \in Users \ {u} : Insert(u, v)) \/ AddContacts(u) \/ Deliver(u)
              \/ (\E i \in Ids : Update(u, i) \/ Delete(u, i)) \/ Notify(u)
         \/ GetUsers \/ GetGroups \/ SendHistory
         \/ \E p \in Peers, b \in 0..MaxMessages, q \in FirstPages \cup {Page} : GetLastMsgs(p, b, q)
         \/ \E p \in Peers :
              \/ UserSends(p) \/ UserScrollsUp(p)
              \/ \E k \in DOMAIN view[p] : UserChanges(p, k) \/ UserDeletes(p, k)
         \/ \E first \in [Peers -> FirstPages] : RecvUsers(first)
         \/ RecvHistory \/ RecvGroups \/ RecvSent \/ RecvMessage \/ RecvChange
         \/ UNCHANGED vars
<1>1. CASE Next
  <2>1. ~LogOut /\ ~Restart /\ ~LogIn /\ ~Quit
    BY DEF LogOut, Restart, LogIn, Quit, Ended
  <2> QED
    BY <1>1, <2>1, Steps
<1> QED
  BY <1>1

(* what the client has shown stays                                         *)
Adds(f) ==
  /\ f.peer \in Peers
  /\ Shown(f.peer)' = Shown(f.peer) \cup IdsOf(f.messages)
  /\ \A p \in Peers \ {f.peer} : Shown(p)' = Shown(p)

LEMMA ShownGrows ==
  ASSUME TInv, [Next]_vars, phase # "off", phase' # "off"
  PROVE  /\ \A p \in Peers : Shown(p) \subseteq Shown(p)'
         /\ \A f : RecvMessage /\ f = Head(channel) => f.peer \in Peers /\ f.id \in Shown(f.peer)'
         /\ \A f : RecvHistory /\ phase \in {"histories", "ready"} /\ f = Head(channel) => Adds(f)
<1>0. ViewOK /\ ChannelOK
  BY DEF TInv
<1>a. ASSUME view' = view PROVE \A p \in Peers : Shown(p) = Shown(p)'
  BY <1>a DEF Shown
<1>b. ASSUME NEW p \in Peers, NEW ms, Showable(ms, p, rows), rows' = rows,
             (\E by \in {"list", "event"} : Below(p, ms, by)) \/ Above(p, ms)
      PROVE  /\ \A q \in Peers : Shown(q) \subseteq Shown(q)'
             /\ Shown(p)' = Shown(p) \cup IdsOf(ms) /\ \A q \in Peers \ {p} : Shown(q)' = Shown(q)
  <2>1. Shown(p)' = Shown(p) \cup IdsOf(ms) /\ \A q \in Peers \ {p} : view'[q] = view[q]
    BY <1>0, <1>b, Showing
  <2>2. \A q \in Peers \ {p} : Shown(q)' = Shown(q)
    BY <2>1 DEF Shown
  <2> QED
    BY <2>1, <2>2
<1>1. CASE RecvMessage \/ RecvSent
  <2>0. PICK f : f = Head(channel)
    OBVIOUS
  <2>s. PICK s : s = <<f>>
    OBVIOUS
  <2>1. f.code \in {"sent", "message"} /\ FrameFits(f, rows) /\ rows' = rows
    BY <1>0, <1>1, <2>0, FirstFrame DEF RecvSent, RecvMessage, Reads, server
  <2>2. f.peer \in Peers /\ Showable(s, f.peer, rows)
    BY <2>1, <2>s, EventShowable
  <2>3. Below(f.peer, s, "event") \/ (~RecvMessage /\ view' = view)
    BY <1>1, <2>0, <2>s DEF RecvSent, RecvMessage
  <2>4. ~RecvHistory
    BY <2>0, <2>1 DEF RecvHistory, Reads
  <2>5. f.id \in IdsOf(s)
    <3>1. 1 \in DOMAIN s /\ s[1] = f
      BY <2>s
    <3> QED
      BY <3>1 DEF IdsOf
  <2>6. CASE Below(f.peer, s, "event")
    <3>1. (\A q \in Peers : Shown(q) \subseteq Shown(q)') /\ Shown(f.peer)' = Shown(f.peer) \cup IdsOf(s)
      BY <1>b, <2>1, <2>2, <2>6
    <3> QED
      BY <2>0, <2>2, <2>4, <2>5, <3>1
  <2>7. CASE ~RecvMessage /\ view' = view
    BY <1>a, <2>4, <2>7
  <2> QED
    BY <2>3, <2>6, <2>7
<1>2. CASE RecvHistory
  <2>0. PICK f : f = Head(channel)
    OBVIOUS
  <2>1. f.code = "history" /\ FrameFits(f, rows) /\ rows' = rows
    BY <1>0, <1>2, <2>0, FirstFrame DEF RecvHistory, Reads, server
  <2>2. f.peer \in Peers /\ Showable(f.messages, f.peer, rows)
    BY <2>1, ListShowable
  <2>3. \/ Below(f.peer, f.messages, "list") \/ Above(f.peer, f.messages)
        \/ view' = view /\ phase \notin {"histories", "ready"}
    BY <1>2, <2>0 DEF RecvHistory
  <2>4. ~RecvMessage
    BY <2>0, <2>1 DEF RecvMessage, Reads
  <2>5. CASE Below(f.peer, f.messages, "list") \/ Above(f.peer, f.messages)
    <3>1. (\E by \in {"list", "event"} : Below(f.peer, f.messages, by)) \/ Above(f.peer, f.messages)
      BY <2>5
    <3>2. /\ \A q \in Peers : Shown(q) \subseteq Shown(q)'
          /\ Shown(f.peer)' = Shown(f.peer) \cup IdsOf(f.messages) /\ \A q \in Peers \ {f.peer} : Shown(q)' = Shown(q)
      BY <1>b, <2>1, <2>2, <3>1
    <3> QED
      BY <2>0, <2>2, <2>4, <3>2 DEF Adds
  <2>6. CASE view' = view /\ phase \notin {"histories", "ready"}
    BY <1>a, <2>4, <2>6
  <2> QED
    BY <2>3, <2>5, <2>6
<1>n. ASSUME \A p \in Peers : Shown(p)' = Shown(p), ~RecvMessage, ~RecvHistory
      PROVE  /\ \A p \in Peers : Shown(p) \subseteq Shown(p)'
             /\ \A f : RecvMessage /\ f = Head(channel) => f.peer \in Peers /\ f.id \in Shown(f.peer)'
             /\ \A f : RecvHistory /\ phase \in {"histories", "ready"} /\ f = Head(channel) => Adds(f)
  BY <1>n
<1>3. CASE RecvChange
  <2> DEFINE f == Head(channel)
  <2>1. f \in Frames /\ f.code \in {"changed", "deleted"} /\ rows' = rows
    BY <1>0, <1>3, FirstFrame DEF RecvChange, Reads, server
  <2>2. f.peer \in Peers /\ f.text \in Texts \cup {Gone}
    BY <2>1, FrameTypes
  <2>c. ~RecvMessage /\ ~RecvHistory
    BY <2>1 DEF RecvMessage, RecvHistory, Reads
  <2> DEFINE t == [k \in DOMAIN view[f.peer] |->
                     IF view[f.peer][k].id = f.id /\ view[f.peer][k].live THEN [view[f.peer][k] EXCEPT !.text = f.text] ELSE view[f.peer][k]]
  <2>3. view' = [view EXCEPT ![f.peer] = t]
    BY <1>3 DEF RecvChange
  <2>4. SameIds(view[f.peer], t)
    BY <1>0, <2>2, ChangedText
  <2> HIDE DEF f, t
  <2>5. \A q \in Peers : Shown(q)' = Shown(q)
    BY <1>0, <2>1, <2>2, <2>3, <2>4, Retexted
  <2> QED
    BY <1>n, <2>c, <2>5
<1>4. ASSUME NEW p \in Peers, NEW k \in DOMAIN view[p], UserChanges(p, k) \/ UserDeletes(p, k)
      PROVE  (\A q \in Peers : Shown(q)' = Shown(q)) /\ ~RecvMessage /\ ~RecvHistory
  <2>1. view[p] \in Seq(ShownEntries) /\ rows' = rows /\ channel' = channel
    BY <1>0, <1>4 DEF ViewOK, UserChanges, UserDeletes, server
  <2>2. view[p][k] \in ShownEntries
    BY <2>1, ElementOfSeq, LenProperties
  <2>c. ~RecvMessage /\ ~RecvHistory
    <3>1. ASSUME channel # <<>>, Taken PROVE FALSE
      <4>1. Took(Head(channel))
        BY <3>1, TakenEffect
      <4> QED
        BY <2>1, <4>1 DEF Took
    <3> QED
      BY <3>1 DEF RecvMessage, RecvHistory, Reads
  <2>3. CASE UserChanges(p, k)
    <3> DEFINE x == view[p][k].text + 1
    <3>1. view[p][k].text < MaxChanges /\ view' = [view EXCEPT ![p][k].text = x]
      BY <2>3 DEF UserChanges
    <3>2. x \in Texts \cup {Gone}
      BY <2>2, <3>1, MessengerAssumption DEF ShownEntries, Texts, Gone
    <3>3. view' = [view EXCEPT ![p] = [view[p] EXCEPT ![k].text = x]]
      BY <1>0, <3>1 DEF ViewOK
    <3> HIDE DEF x
    <3>4. SameIds(view[p], [view[p] EXCEPT ![k].text = x])
      BY <1>0, <3>2, OneText
    <3> QED
      BY <1>0, <2>1, <2>c, <3>3, <3>4, Retexted
  <2>4. CASE UserDeletes(p, k)
    <3>3. view' = [view EXCEPT ![p] = [view[p] EXCEPT ![k].text = Gone]]
      BY <1>0, <2>4 DEF ViewOK, UserDeletes
    <3>4. SameIds(view[p], [view[p] EXCEPT ![k].text = Gone])
      BY <1>0, OneText
    <3> QED
      BY <1>0, <2>1, <2>c, <3>3, <3>4, Retexted
  <2> QED
    BY <1>4, <2>3, <2>4
<1>5. CASE view' = view /\ ~RecvMessage /\ ~RecvHistory
  BY <1>a, <1>5
<1>6. CASE \/ \E u \in Users :
              \/ (\E v \in Users \ {u} : Insert(u, v)) \/ AddContacts(u) \/ Deliver(u)
              \/ (\E i \in Ids : Update(u, i) \/ Delete(u, i)) \/ Notify(u)
           \/ GetUsers \/ GetGroups \/ SendHistory
           \/ \E p \in Peers, b \in 0..MaxMessages, q \in FirstPages \cup {Page} : GetLastMsgs(p, b, q)
           \/ \E p \in Peers : UserSends(p) \/ UserScrollsUp(p)
           \/ \E first \in [Peers -> FirstPages] : RecvUsers(first)
           \/ RecvGroups \/ UNCHANGED vars
  <2>1. ASSUME NEW u \in Users,
              \/ (\E v \in Users \ {u} : Insert(u, v)) \/ AddContacts(u) \/ Deliver(u)
              \/ (\E i \in Ids : Update(u, i) \/ Delete(u, i)) \/ Notify(u)
        PROVE view' = view
    BY <2>1 DEF Insert, AddContacts, Deliver, Update, Delete, Notify, client
  <2>2. view' = view
    BY <1>6, <2>1 DEF GetUsers, GetGroups, SendHistory, GetLastMsgs, UserSends, UserScrollsUp, RecvUsers, RecvGroups, vars, client
  <2>3. CASE ~RecvMessage /\ ~RecvHistory
    BY <1>5, <2>2, <2>3
  <2> QED
    BY <1>1, <1>2, <2>3
<1> QED
  BY <1>1, <1>2, <1>3, <1>4, <1>n, <1>6, RunningSteps

(* a message that is coming goes on coming, until it is shown              *)
LEMMA ComingStep ==
  ASSUME TInv, [Next]_vars, phase # "off", phase' # "off",
         NEW p \in Peers, NEW i, Is(i, p, Me, rows), Coming(p, i)
  PROVE  Coming(p, i)' \/ i \in Shown(p)'
<1> DEFINE InMail == \E n \in DOMAIN channel : channel[n].code = "message" /\ channel[n].id = i
<1>0. p \in Users /\ p # Me /\ (Sending(p, i) \/ InMail) /\ i \in DOMAIN rows /\ rows[i].from = p /\ rows[i].to = Me
  BY Apart, MessengerAssumption DEF Coming, Is
<1>p. ASSUME NEW f, Put(f), InMail PROVE InMail'
  <2>1. PICK n \in DOMAIN channel : channel[n].code = "message" /\ channel[n].id = i
    BY <1>p
  <2>2. n \in DOMAIN channel' /\ channel'[n] = channel[n]
    BY <1>p DEF Put
  <2> QED
    BY <2>1, <2>2
<1>c. ASSUME channel' = channel, InMail PROVE InMail'
  BY <1>c
<1> HIDE DEF InMail
<1>d. InMail' => Coming(p, i)'
  BY DEF InMail, Coming
<1>s. Sending(p, i)' => Coming(p, i)'
  BY DEF Coming
<1>k. ASSUME work'[p] = work[p], channel' = channel \/ (\E f : Put(f)) PROVE Coming(p, i)'
  BY <1>0, <1>c, <1>d, <1>k, <1>p, <1>s DEF Sending
<1>1. ASSUME NEW u \in Users, NEW v \in Users \ {u}, Insert(u, v) PROVE Coming(p, i)'
  <2>1. channel' = channel /\ (work' = work \/ \E j : Inserts(u, v, j))
    BY <1>1, InsertEffect
  <2>2. ASSUME NEW j, Inserts(u, v, j) PROVE Coming(p, i)'
    <3>1. Sending(p, i) => Sending(p, i)'
      BY <1>0, <2>2 DEF Inserts, Sending, Others, Idle
    <3> QED
      BY <1>0, <1>c, <1>d, <1>s, <2>1, <3>1
  <2> QED
    BY <1>k, <2>1, <2>2
<1>2. ASSUME NEW u \in Users, NEW j \in Ids, Update(u, j) \/ Delete(u, j) PROVE Coming(p, i)'
  <2>1. channel' = channel /\ (work' = work \/ \E t : Changes(u, j, t))
    BY <1>2, ChangeEffect
  <2>2. ASSUME NEW t, Changes(u, j, t) PROVE Coming(p, i)'
    <3>1. Sending(p, i) => Sending(p, i)'
      BY <1>0, <2>2 DEF Changes, Sending, Others, Idle
    <3> QED
      BY <1>0, <1>c, <1>d, <1>s, <2>1, <3>1
  <2> QED
    BY <1>k, <2>1, <2>2
<1>3. ASSUME NEW u \in Users, AddContacts(u) PROVE Coming(p, i)'
  <2>1. /\ work[u].step = "contacts" /\ channel' = channel
        /\ work' = [work EXCEPT ![u] = [work[u] EXCEPT !.step = "deliver"]]
    BY <1>3 DEF AddContacts, Then
  <2>2. work[u] \in [step : {"contacts", "deliver"}, id : Ids]
    BY <2>1 DEF TInv, WorkOK, WorkFits, Works, NoWork
  <2>3. work'[u] = [work[u] EXCEPT !.step = "deliver"] /\ Others(u)
    BY <2>1, ThenEffect DEF TInv
  <2>4. work'[u].step = "deliver" /\ work'[u].id = work[u].id
    BY <2>2, <2>3
  <2>5. Sending(p, i) => Sending(p, i)'
    BY <1>0, <2>3, <2>4 DEF Sending, Others
  <2> QED
    BY <1>0, <1>c, <1>d, <1>s, <2>1, <2>5
<1>4. ASSUME NEW u \in Users, Deliver(u) PROVE Coming(p, i)'
  <2> DEFINE j == work[u].id
  <2>1. /\ Sending(u, j) /\ Others(u) /\ rows[j].from = u
        /\ \/ u # Me /\ rows[j].to # Me /\ channel' = channel
           \/ u = Me /\ \E f : Put(f)
           \/ \E f : Put(f) /\ f.code = "message" /\ f.id = j
    BY <1>4, DeliverEffect
  <2>2. CASE u # p
    BY <1>0, <1>k, <2>1, <2>2 DEF Others
  <2>3. CASE u = p /\ i = j
    <3>1. PICK f : Put(f) /\ f.code = "message" /\ f.id = j
      BY <1>0, <2>1, <2>3
    <3>2. Len(channel) + 1 \in DOMAIN channel' /\ channel'[Len(channel) + 1] = f
      BY <3>1 DEF Put
    <3>3. InMail'
      BY <2>3, <3>1, <3>2 DEF InMail
    <3> QED
      BY <1>d, <3>3
  <2>4. CASE u = p /\ i # j
    <3>1. InMail
      BY <1>0, <2>4 DEF Sending
    <3> QED
      BY <1>c, <1>d, <1>p, <2>1, <3>1
  <2> QED
    BY <2>2, <2>3, <2>4
<1>5. ASSUME NEW u \in Users, Notify(u) PROVE Coming(p, i)'
  <2>1. Telling(u, work[u].id) /\ Others(u) /\ \E f : Put(f)
    BY <1>5, NotifyEffect
  <2>2. CASE u # p
    BY <1>0, <1>k, <2>1, <2>2 DEF Others
  <2>3. CASE u = p
    <3>1. InMail
      BY <1>0, <2>1, <2>3 DEF Sending, Telling
    <3> QED
      BY <1>d, <1>p, <2>1, <3>1
  <2> QED
    BY <2>2, <2>3
<1>6. CASE \/ GetUsers \/ GetGroups \/ SendHistory
           \/ \E q \in Peers, b \in 0..MaxMessages, s \in FirstPages \cup {Page} : GetLastMsgs(q, b, s)
  <2>1. work'[p] = work[p]
    <3>1. work' = work \/ \E w : work' = [work EXCEPT ![Me] = w]
      BY <1>6 DEF GetUsers, GetGroups, SendHistory, GetLastMsgs, server, Then
    <3>2. DOMAIN work = Users
      BY DEF TInv, WorkOK
    <3> QED
      BY <1>0, <3>1, <3>2
  <2>2. channel' = channel \/ (\E f : Put(f))
    <3>1. CASE GetUsers \/ GetGroups
      <4>1. \A c \in {"users", "error", "groups"} : [code |-> c] \in Frames
        BY DEF Frames
      <4>2. \E c \in {"users", "error", "groups"} : Write([code |-> c])
        BY <3>1 DEF GetUsers, GetGroups
      <4> QED
        BY <4>1, <4>2, WriteEffect
    <3>2. CASE SendHistory
      <4> DEFINE f == [code |-> "history", peer |-> work[Me].peer, messages |-> work[Me].messages]
      <4>1. work[Me].step = "history" /\ Write(f)
        BY <3>2 DEF SendHistory
      <4>2. f \in Frames
        BY <4>1, WorkTypes, Apart DEF TInv, WorkOK, WorkFits, Frames
      <4> HIDE DEF f
      <4> QED
        BY <4>1, <4>2, WriteEffect
    <3> QED
      BY <1>6, <3>1, <3>2 DEF GetLastMsgs
  <2> QED
    BY <1>k, <2>1, <2>2
<1>7. CASE \/ UNCHANGED vars
           \/ \E q \in Peers :
                \/ UserSends(q) \/ UserScrollsUp(q)
                \/ \E k \in DOMAIN view[q] : UserChanges(q, k) \/ UserDeletes(q, k)
  <2>1. channel' = channel /\ work' = work
    BY <1>7 DEF UserSends, UserScrollsUp, UserChanges, UserDeletes, server, vars
  <2> QED
    BY <1>k, <2>1
<1>8. CASE \/ \E first \in [Peers -> FirstPages] : RecvUsers(first)
           \/ RecvHistory \/ RecvGroups \/ RecvSent \/ RecvMessage \/ RecvChange
  <2>1. channel # <<>> /\ Taken /\ work' = work /\ (RecvMessage \/ Head(channel).code # "message")
    BY <1>8 DEF RecvUsers, RecvHistory, RecvGroups, RecvSent, RecvMessage, RecvChange, server, Reads
  <2>2. Took(Head(channel))
    BY <2>1, TakenEffect
  <2>3. CASE Sending(p, i)
    BY <1>s, <2>1, <2>3 DEF Sending
  <2>4. CASE InMail
    <3>1. PICK n \in DOMAIN channel : channel[n].code = "message" /\ channel[n].id = i
      BY <2>4 DEF InMail
    <3>2. CASE n = 1
      <4>1. Head(channel).code = "message" /\ Head(channel).id = i
        BY <2>2, <3>1, <3>2 DEF Took
      <4>2. RecvMessage
        BY <2>1, <4>1
      <4>3. Head(channel).peer = p
        BY <1>0, <2>2, <4>1 DEF Took, FrameFits, Is
      <4>4. PICK f : f = Head(channel)
        OBVIOUS
      <4>5. f.peer = p /\ f.id = i
        BY <4>1, <4>3, <4>4
      <4>6. f.id \in Shown(f.peer)'
        BY <4>2, <4>4, ShownGrows
      <4> QED
        BY <4>5, <4>6
    <3>3. CASE n # 1
      <4>1. n - 1 \in DOMAIN channel' /\ channel'[n - 1] = channel[(n - 1) + 1] /\ (n - 1) + 1 = n
        BY <2>2, <3>1, <3>3 DEF Took
      <4>2. InMail'
        BY <3>1, <4>1 DEF InMail
      <4> QED
        BY <1>d, <4>2
    <3> QED
      BY <3>2, <3>3
  <2> QED
    BY <1>0, <2>3, <2>4
<1> QED
  BY <1>1, <1>2, <1>3, <1>4, <1>5, <1>6, <1>7, <1>8, RunningSteps

(* what is reached stays reached, whatever is sent and changed meanwhile   *)
LEMMA ReachStep ==
  ASSUME TInv, [Next]_vars, phase # "off", phase' # "off",
         NEW p \in Peers, NEW b, NEW X, Reach(p, b, X)
  PROVE  Reach(p, b, X)'
<1> SUFFICES ASSUME NEW i \in Stored', Is(i, p, Me, rows'), i >= b
             PROVE  i \in X \/ i \in Shown(p)' \/ Coming(p, i)'
  BY DEF Reach
<1>1. CASE i \in Stored
  <2>1. Is(i, p, Me, rows)
    BY <1>1, RowsStep DEF TInv, Is, Grows, Stored
  <2>2. i \in X \/ i \in Shown(p) \/ Coming(p, i)
    BY <1>1, <2>1 DEF Reach
  <2> QED
    BY <2>1, <2>2, ShownGrows, ComingStep
<1>2. CASE i \notin Stored
  <2>1. ASSUME rows' = rows PROVE FALSE
    BY <1>2, <2>1 DEF Stored
  <2>2. ASSUME NEW u \in Users, NEW v \in Users \ {u}, Insert(u, v) PROVE Coming(p, i)'
    <3>1. PICK j : Inserts(u, v, j)
      BY <2>1, <2>2, InsertEffect
    <3>2. i = j
      BY <1>2, <3>1 DEF Inserts, Stored
    <3>3. u = p
      BY <3>1, <3>2 DEF Inserts, Is, Row
    <3>4. Sending(p, i)'
      BY <3>1, <3>2, <3>3 DEF Inserts, Sending
    <3> QED
      BY <3>4 DEF Coming
  <2>3. ASSUME NEW u \in Users, NEW j \in Ids, Update(u, j) \/ Delete(u, j) PROVE FALSE
    <3>1. PICK t : Changes(u, j, t)
      BY <2>1, <2>3, ChangeEffect
    <3> QED
      BY <1>2, <3>1 DEF Changes, Stored
  <2>4. ASSUME NEW u \in Users, AddContacts(u) \/ Deliver(u) \/ Notify(u) PROVE rows' = rows
    BY <2>4 DEF AddContacts, Deliver, Notify
  <2>5. CASE Restart \/ Quiet
    BY <2>1, <2>5 DEF Restart, Quiet
  <2> QED
    BY <2>1, <2>2, <2>3, <2>4, <2>5, OtherSteps
<1> QED
  BY <1>1, <1>2

(* The same histories are awaited, in the same order, when ...             *)
SameItems ==
  \A p, q \in Peers : (Ahead(p, q)' => Ahead(p, q)) /\ (Awaited(p)' <=> Awaited(p))

(* ... others are received or read, or nothing is, *)
ChannelShift(d) ==
  /\ \A n \in Nat \ {0}, p \in Peers : InChannel(n, p)' <=> InChannel(n + d, p)
  /\ \A p \in Peers : d = 1 => ~InChannel(1, p)

RequestsShift(e) ==
  /\ \A k \in Nat \ {0}, p \in Peers : InRequests(k, p)' <=> InRequests(k + e, p)
  /\ \A p \in Peers : e = 1 => ~InRequests(1, p)

LEMMA Kinds ==
  ASSUME TInv
  PROVE  /\ \A n, p : InChannel(n, p) => n \in Nat \ {0} /\ n \in DOMAIN channel
         /\ \A k, p : InRequests(k, p) => k \in Nat \ {0} /\ k \in DOMAIN requests
<1>1. channel \in Seq(Frames) /\ requests \in Seq(Requests)
  BY DEF TInv, ChannelOK, RequestsOK
<1>2. /\ Len(channel) \in Nat /\ Len(requests) \in Nat
      /\ DOMAIN channel = 1..Len(channel) /\ DOMAIN requests = 1..Len(requests)
  BY <1>1, LenProperties
<1> QED
  BY <1>2 DEF InChannel, InRequests

LEMMA KindsNext ==
  ASSUME TInv'
  PROVE  /\ \A n, p : InChannel(n, p)' => n \in Nat \ {0} /\ n \in DOMAIN channel'
         /\ \A k, p : InRequests(k, p)' => k \in Nat \ {0} /\ k \in DOMAIN requests'
<1>1. channel' \in Seq(Frames) /\ requests' \in Seq(Requests)
  BY DEF TInv, ChannelOK, RequestsOK
<1>2. /\ Len(channel') \in Nat /\ Len(requests') \in Nat
      /\ DOMAIN channel' = 1..Len(channel') /\ DOMAIN requests' = 1..Len(requests')
  BY <1>1, LenProperties
<1> QED
  BY <1>2 DEF InChannel, InRequests

LEMMA PlainItems ==
  ASSUME TInv, TInv', NEW d \in {0, 1}, NEW e \in {0, 1}, ChannelShift(d), RequestsShift(e),
         \A p \in Peers : InWork(p)' <=> InWork(p)
  PROVE  SameItems
<1>c. ASSUME NEW n, NEW p \in Peers, InChannel(n, p)'
      PROVE  n \in Nat \ {0} /\ n + d \in DOMAIN channel /\ InChannel(n + d, p)
  BY <1>c, Kinds, KindsNext DEF ChannelShift, RequestsShift
<1>r. ASSUME NEW n, NEW p \in Peers, InRequests(n, p)'
      PROVE  n \in Nat \ {0} /\ n + e \in DOMAIN requests /\ InRequests(n + e, p)
  BY <1>r, Kinds, KindsNext DEF ChannelShift, RequestsShift
<1>d. ASSUME NEW n, NEW p \in Peers, InChannel(n, p) PROVE \E m \in DOMAIN channel' : InChannel(m, p)'
  <2>1. n \in Nat \ {0} /\ ~(d = 1 /\ n = 1)
    BY <1>d, Kinds DEF ChannelShift, RequestsShift
  <2>2. PICK m \in Nat \ {0} : m + d = n
    <3>1. n - d \in Nat \ {0} /\ (n - d) + d = n
      BY <2>1
    <3> QED
      BY <3>1
  <2>3. InChannel(m, p)'
    BY <1>d, <2>2 DEF ChannelShift, RequestsShift
  <2> QED
    BY <2>3, KindsNext
<1>s. ASSUME NEW n, NEW p \in Peers, InRequests(n, p) PROVE \E m \in DOMAIN requests' : InRequests(m, p)'
  <2>1. n \in Nat \ {0} /\ ~(e = 1 /\ n = 1)
    BY <1>s, Kinds DEF ChannelShift, RequestsShift
  <2>2. PICK m \in Nat \ {0} : m + e = n
    <3>1. n - e \in Nat \ {0} /\ (n - e) + e = n
      BY <2>1
    <3> QED
      BY <3>1
  <2>3. InRequests(m, p)'
    BY <1>s, <2>2 DEF ChannelShift, RequestsShift
  <2> QED
    BY <2>3, KindsNext
<1> SUFFICES ASSUME NEW p \in Peers, NEW q \in Peers
             PROVE  (Ahead(p, q)' => Ahead(p, q)) /\ (Awaited(p)' <=> Awaited(p))
  BY DEF SameItems
<1>1. Awaited(p)' <=> Awaited(p)
  BY <1>c, <1>d, <1>r, <1>s DEF Awaited
<1>2. ASSUME NEW m, NEW n, m < n, InChannel(m, p)', InChannel(n, q)' PROVE Ahead(p, q)
  <2>1. /\ m \in Nat /\ m + d \in DOMAIN channel /\ InChannel(m + d, p)
        /\ n \in Nat /\ n + d \in DOMAIN channel /\ InChannel(n + d, q)
    BY <1>2, <1>c
  <2>2. m + d < n + d
    BY <1>2, <2>1
  <2> QED
    BY <2>1, <2>2 DEF Ahead
<1>3. ASSUME NEW m, NEW n, m < n, InRequests(m, p)', InRequests(n, q)' PROVE Ahead(p, q)
  <2>1. /\ m \in Nat /\ m + e \in DOMAIN requests /\ InRequests(m + e, p)
        /\ n \in Nat /\ n + e \in DOMAIN requests /\ InRequests(n + e, q)
    BY <1>3, <1>r
  <2>2. m + e < n + e
    BY <1>3, <2>1
  <2> QED
    BY <2>1, <2>2 DEF Ahead
<1>4. ASSUME NEW n, InChannel(n, p)', InWork(q)' \/ \E k \in DOMAIN requests' : InRequests(k, q)' PROVE Ahead(p, q)
  BY <1>4, <1>c, <1>r DEF Ahead
<1>5. ASSUME NEW n, InWork(p)', InRequests(n, q)' PROVE Ahead(p, q)
  BY <1>5, <1>r DEF Ahead
<1>6. Ahead(p, q)' => Ahead(p, q)
  BY <1>2, <1>3, <1>4, <1>5 DEF Ahead
<1> QED
  BY <1>1, <1>6

(* ... the thread of Me takes up the request for a history, or             *)
LEMMA FetchedItems ==
  ASSUME TInv, TInv', NEW r \in Peers, channel' = channel,
         \A p \in Peers : ~InWork(p), \A p \in Peers : InWork(p)' <=> p = r,
         InRequests(1, r), \A p \in Peers : InRequests(1, p) => p = r,
         \A k \in Nat \ {0}, p \in Peers : InRequests(k, p)' <=> InRequests(k + 1, p)
  PROVE  SameItems
<1>1. 1 \in DOMAIN requests
  BY Kinds
<1>c. \A n, p : InChannel(n, p)' <=> InChannel(n, p)
  BY DEF InChannel
<1>r. ASSUME NEW n, NEW p \in Peers, InRequests(n, p)'
      PROVE  n \in Nat \ {0} /\ n + 1 \in DOMAIN requests /\ InRequests(n + 1, p)
  BY <1>r, Kinds, KindsNext
<1>s. ASSUME NEW n, NEW p \in Peers, InRequests(n, p), p # r PROVE \E m \in DOMAIN requests' : InRequests(m, p)'
  <2>1. n \in Nat \ {0} /\ n # 1
    BY <1>s, Kinds
  <2>2. PICK m \in Nat \ {0} : m + 1 = n
    <3>1. n - 1 \in Nat \ {0} /\ (n - 1) + 1 = n
      BY <2>1
    <3> QED
      BY <3>1
  <2>3. InRequests(m, p)'
    BY <1>s, <2>2
  <2> QED
    BY <2>3, KindsNext
<1> SUFFICES ASSUME NEW p \in Peers, NEW q \in Peers
             PROVE  (Ahead(p, q)' => Ahead(p, q)) /\ (Awaited(p)' <=> Awaited(p))
  BY DEF SameItems
<1>2. Awaited(p)' => Awaited(p)
  BY <1>1, <1>c, <1>r DEF Awaited
<1>3. Awaited(p) => Awaited(p)'
  BY <1>c, <1>s DEF Awaited
<1>4. ASSUME NEW m, NEW n, m < n, InRequests(m, p)', InRequests(n, q)' PROVE Ahead(p, q)
  <2>1. /\ m \in Nat /\ m + 1 \in DOMAIN requests /\ InRequests(m + 1, p)
        /\ n \in Nat /\ n + 1 \in DOMAIN requests /\ InRequests(n + 1, q)
    BY <1>4, <1>r
  <2>2. m + 1 < n + 1
    BY <1>4, <2>1
  <2> QED
    BY <2>1, <2>2 DEF Ahead
<1>5. ASSUME NEW n, InWork(p)', InRequests(n, q)' PROVE Ahead(p, q)
  <2>1. InRequests(1, p) /\ n \in Nat \ {0} /\ n + 1 \in DOMAIN requests /\ InRequests(n + 1, q)
    BY <1>5, <1>r
  <2>2. 1 < n + 1
    BY <2>1
  <2> QED
    BY <1>1, <2>1, <2>2 DEF Ahead
<1>6. ASSUME NEW n, InChannel(n, p), InWork(q)' \/ \E k \in DOMAIN requests' : InRequests(k, q)' PROVE Ahead(p, q)
  <2>1. n \in DOMAIN channel
    BY <1>6, Kinds
  <2>2. \E k \in DOMAIN requests : InRequests(k, q)
    BY <1>1, <1>6, <1>r
  <2> QED
    BY <1>6, <2>1, <2>2 DEF Ahead
<1>7. ASSUME NEW m, NEW n, m < n, InChannel(m, p), InChannel(n, q) PROVE Ahead(p, q)
  <2>1. m \in DOMAIN channel /\ n \in DOMAIN channel
    BY <1>7, Kinds
  <2> QED
    BY <1>7, <2>1 DEF Ahead
<1>8. Ahead(p, q)' => Ahead(p, q)
  BY <1>4, <1>5, <1>6, <1>7, <1>c DEF Ahead
<1> QED
  BY <1>2, <1>3, <1>8

(* ... writes it.                                                          *)
LEMMA SentItems ==
  ASSUME TInv, TInv', NEW r \in Peers, NEW f, Put(f), f.code = "history", f.peer = r, requests' = requests,
         \A p \in Peers : InWork(p) <=> p = r, \A p \in Peers : ~InWork(p)'
  PROVE  SameItems
<1>r. \A n, p : InRequests(n, p)' <=> InRequests(n, p)
  BY DEF InRequests
<1>c. ASSUME NEW n, NEW p PROVE InChannel(n, p)' <=> InChannel(n, p) \/ (n = Len(channel) + 1 /\ p = r)
  BY DEF InChannel, Put
<1>d. /\ \A n : InChannel(n, r) => n \in DOMAIN channel'
      /\ Len(channel) \in Nat /\ Len(channel) + 1 \in DOMAIN channel'
      /\ \A n \in DOMAIN channel : n \in Nat /\ n < Len(channel) + 1
  BY DEF InChannel, Put
<1> SUFFICES ASSUME NEW p \in Peers, NEW q \in Peers
             PROVE  (Ahead(p, q)' => Ahead(p, q)) /\ (Awaited(p)' <=> Awaited(p))
  BY DEF SameItems
<1>1. Awaited(p)' => Awaited(p)
  BY <1>c, <1>r, Kinds DEF Awaited
<1>2. Awaited(p) => Awaited(p)'
  BY <1>c, <1>d, <1>r, Kinds, KindsNext DEF Awaited
<1>3. ASSUME NEW m, NEW n, m < n, InChannel(m, p)', InChannel(n, q)' PROVE Ahead(p, q)
  <2>1. m \in Nat /\ n \in Nat
    BY <1>3, KindsNext
  <2>2. InChannel(m, p)
    <3>1. CASE InChannel(n, q)
      BY <1>3, <1>c, <1>d, <2>1, <3>1, Kinds
    <3>2. CASE n = Len(channel) + 1
      <4>1. m # Len(channel) + 1
        BY <1>3, <2>1, <3>2
      <4> QED
        BY <1>3, <1>c, <4>1
    <3> QED
      BY <1>3, <1>c, <3>1, <3>2
  <2>3. m \in DOMAIN channel
    BY <2>2, Kinds
  <2>4. CASE InChannel(n, q)
    <3>1. n \in DOMAIN channel
      BY <2>4, Kinds
    <3> QED
      BY <1>3, <2>2, <2>3, <2>4, <3>1 DEF Ahead
  <2>5. CASE q = r
    BY <2>2, <2>3, <2>5 DEF Ahead
  <2> QED
    BY <1>3, <1>c, <2>4, <2>5
<1>4. ASSUME NEW n, NEW k, InChannel(n, p)', InRequests(k, q) PROVE Ahead(p, q)
  <2>1. k \in DOMAIN requests
    BY <1>4, Kinds
  <2>2. CASE InChannel(n, p)
    <3>1. n \in DOMAIN channel
      BY <2>2, Kinds
    <3> QED
      BY <1>4, <2>1, <2>2, <3>1 DEF Ahead
  <2>3. CASE p = r
    BY <1>4, <2>1, <2>3 DEF Ahead
  <2> QED
    BY <1>4, <1>c, <2>2, <2>3
<1>5. ASSUME NEW j, NEW k, j < k, InRequests(j, p), InRequests(k, q) PROVE Ahead(p, q)
  <2>1. j \in DOMAIN requests /\ k \in DOMAIN requests
    BY <1>5, Kinds
  <2> QED
    BY <1>5, <2>1 DEF Ahead
<1>6. Ahead(p, q)' => Ahead(p, q)
  BY <1>3, <1>4, <1>5, <1>r DEF Ahead
<1> QED
  BY <1>1, <1>2, <1>6

LEMMA OrderKept ==
  ASSUME SameItems, cursor' = cursor
  PROVE  /\ FirstOnes => FirstOnes'
         /\ Due' = Due
         /\ (\A p \in Peers : ~Awaited(p)) => \A p \in Peers : ~Awaited(p)'
  BY DEF SameItems, FirstOnes, Due

(* The requests after one has been read, or asked                          *)
LEMMA ReadEffect ==
  ASSUME TInv, NEW r, Read(Me, r)
  PROVE  /\ 1 \in DOMAIN requests /\ requests[1] = r
         /\ \A k \in Nat \ {0} : k \in DOMAIN requests' <=> k + 1 \in DOMAIN requests
         /\ \A k \in DOMAIN requests' : k \in Nat \ {0} /\ requests'[k] = requests[k + 1]
<1>1. requests \in Seq(Requests) /\ requests # <<>> /\ Head(requests) = r /\ requests' = Tail(requests)
  BY DEF Read, TInv, RequestsOK
<1>2. Len(requests) \in Nat \ {0} /\ DOMAIN requests = 1..Len(requests) /\ requests[1] = r
  BY <1>1, LenProperties, EmptySeq, HeadTailProperties
<1>3. /\ requests' \in Seq(Requests) /\ Len(requests') = Len(requests) - 1 /\ DOMAIN requests' = 1..Len(requests')
      /\ \A k \in 1..Len(requests') : requests'[k] = requests[k + 1]
  BY <1>1, HeadTailProperties, LenProperties
<1> DEFINE K == Len(requests)
           J == Len(requests')
<1>4. K \in Nat \ {0} /\ J = K - 1 /\ DOMAIN requests = 1..K /\ DOMAIN requests' = 1..J
  BY <1>2, <1>3
<1> HIDE DEF K, J
<1>5. 1 \in DOMAIN requests /\ \A k \in Nat \ {0} : k \in DOMAIN requests' <=> k + 1 \in DOMAIN requests
  BY <1>4
<1>6. \A k \in DOMAIN requests' : k \in Nat \ {0}
  BY <1>4
<1> QED
  BY <1>2, <1>3, <1>5, <1>6

LEMMA AskEffect ==
  ASSUME TInv, NEW r \in Requests, Ask(<<r>>)
  PROVE  /\ Len(requests) \in Nat /\ DOMAIN requests = 1..Len(requests) /\ DOMAIN requests' = 1..Len(requests) + 1
         /\ requests'[Len(requests) + 1] = r
         /\ \A k \in DOMAIN requests : k \in DOMAIN requests' /\ requests'[k] = requests[k]
         /\ \A k \in DOMAIN requests' : k \in DOMAIN requests \/ k = Len(requests) + 1
<1>1. requests \in Seq(Requests) /\ requests' = requests \o <<r>>
  BY DEF TInv, RequestsOK, Ask
<1>2. <<r>> \in Seq(Requests) /\ Len(<<r>>) = 1 /\ <<r>>[1] = r
  OBVIOUS
<1> DEFINE s == <<r>>
<1> HIDE DEF s
<1>3. /\ Len(requests') = Len(requests) + Len(s) /\ requests' \in Seq(Requests)
      /\ \A i \in 1..Len(requests) + Len(s) : requests'[i] = IF i <= Len(requests) THEN requests[i] ELSE s[i - Len(requests)]
  BY <1>1, <1>2, ConcatProperties DEF s
<1>4. Len(requests) \in Nat /\ Len(s) = 1 /\ s[1] = r /\ DOMAIN requests = 1..Len(requests) /\ DOMAIN requests' = 1..Len(requests')
  BY <1>1, <1>2, <1>3, LenProperties DEF s
<1> DEFINE K == Len(requests)
<1>5. K \in Nat /\ DOMAIN requests = 1..K /\ DOMAIN requests' = 1..K + 1
  BY <1>3, <1>4
<1>6. \A i \in 1..K + 1 : requests'[i] = IF i <= K THEN requests[i] ELSE s[i - K]
  BY <1>3, <1>4
<1>7. s[1] = r
  BY <1>4
<1> HIDE DEF K
<1>8. /\ requests'[K + 1] = r
      /\ \A k \in DOMAIN requests : k \in DOMAIN requests' /\ requests'[k] = requests[k]
      /\ \A k \in DOMAIN requests' : k \in DOMAIN requests \/ k = K + 1
  BY <1>5, <1>6, <1>7
<1> QED
  BY <1>5, <1>8 DEF K

Requested(e) ==
  /\ RequestsShift(e)
  /\ \A k \in DOMAIN requests' : \A r : r = requests'[k] /\ r.code = "history" => \E j \in DOMAIN requests : requests[j] = r
  /\ \A k \in DOMAIN requests' : requests'[k].code = "groups" => ~NoGroups

LEMMA NothingRequested == ASSUME TInv, requests' = requests PROVE Requested(0)
<1>1. \A k \in Nat \ {0}, p \in Peers : InRequests(k, p)' <=> InRequests(k, p)
  BY DEF InRequests
<1>2. RequestsShift(0)
  BY <1>1 DEF RequestsShift
<1> QED
  BY <1>2 DEF Requested, NoGroups

LEMMA OtherRead ==
  ASSUME TInv, NEW u \in Users, NEW r, Read(u, r), r.code # "history"
  PROVE  \E e \in {0, 1} : Requested(e)
<1>1. CASE u # Me
  BY <1>1, NothingRequested DEF Read
<1>2. CASE u = Me
  <2>1. /\ 1 \in DOMAIN requests /\ requests[1] = r
        /\ \A k \in Nat \ {0} : k \in DOMAIN requests' <=> k + 1 \in DOMAIN requests
        /\ \A k \in DOMAIN requests' : k \in Nat \ {0} /\ requests'[k] = requests[k + 1]
    BY <1>2, ReadEffect
  <2>2. \A k \in Nat \ {0}, p \in Peers : InRequests(k, p)' <=> InRequests(k + 1, p)
    BY <2>1 DEF InRequests
  <2>3. \A p \in Peers : ~InRequests(1, p)
    BY <2>1 DEF InRequests
  <2>4. RequestsShift(1)
    BY <2>2, <2>3 DEF RequestsShift
  <2>5. \A k \in DOMAIN requests' : k + 1 \in DOMAIN requests /\ requests'[k] = requests[k + 1]
    BY <2>1
  <2>6. Requested(1)
    BY <2>4, <2>5 DEF Requested, NoGroups
  <2> QED
    BY <2>6
<1> QED
  BY <1>1, <1>2

LEMMA OtherAsked ==
  ASSUME TInv, NEW r \in Requests, Ask(<<r>>), r.code \notin {"history", "groups"}
  PROVE  Requested(0)
<1>1. /\ requests'[Len(requests) + 1] = r
      /\ \A k \in DOMAIN requests : k \in DOMAIN requests' /\ requests'[k] = requests[k]
      /\ \A k \in DOMAIN requests' : k \in DOMAIN requests \/ k = Len(requests) + 1
  BY AskEffect
<1>2. \A k \in Nat \ {0}, p \in Peers : InRequests(k, p)' <=> InRequests(k, p)
  BY <1>1 DEF InRequests
<1>3. RequestsShift(0)
  BY <1>2 DEF RequestsShift
<1> QED
  BY <1>1, <1>3 DEF Requested, NoGroups

(* The frames after others than histories are written or received          *)
Framed(d) ==
  /\ ChannelShift(d)
  /\ \A n \in DOMAIN channel' : \A f : f = channel'[n] /\ f.code = "history" => \E m \in DOMAIN channel : channel[m] = f
  /\ \A n \in DOMAIN channel' : channel'[n].code = "groups" => ~NoGroups

LEMMA NothingWritten == ASSUME TInv, channel' = channel PROVE Framed(0)
<1>1. \A k \in Nat \ {0}, p \in Peers : InChannel(k, p)' <=> InChannel(k, p)
  BY DEF InChannel
<1>2. ChannelShift(0)
  BY <1>1 DEF ChannelShift
<1> QED
  BY <1>2 DEF Framed, NoGroups

LEMMA OtherWritten ==
  ASSUME TInv, NEW f, Put(f), f.code # "history", f.code = "groups" => ~NoGroups
  PROVE  Framed(0)
<1>1. /\ channel'[Len(channel) + 1] = f
      /\ \A n \in DOMAIN channel : n \in DOMAIN channel' /\ channel'[n] = channel[n]
      /\ \A n \in DOMAIN channel' : n \in DOMAIN channel \/ n = Len(channel) + 1
  BY DEF Put
<1>2. \A k \in Nat \ {0}, p \in Peers : InChannel(k, p)' <=> InChannel(k, p)
  BY <1>1 DEF InChannel
<1>3. ChannelShift(0)
  BY <1>2 DEF ChannelShift
<1> QED
  BY <1>1, <1>3 DEF Framed, NoGroups

LEMMA OtherTaken ==
  ASSUME TInv, NEW f, Took(f), f.code # "history"
  PROVE  Framed(1)
<1>1. /\ 1 \in DOMAIN channel /\ channel[1] = f
      /\ \A n \in Nat \ {0} : n \in DOMAIN channel' <=> n + 1 \in DOMAIN channel
      /\ \A n \in DOMAIN channel' : n \in Nat \ {0} /\ n + 1 \in DOMAIN channel /\ channel'[n] = channel[n + 1]
  BY DEF Took
<1>2. \A k \in Nat \ {0}, p \in Peers : InChannel(k, p)' <=> InChannel(k + 1, p)
  BY <1>1 DEF InChannel
<1>3. \A p \in Peers : ~InChannel(1, p)
  BY <1>1 DEF InChannel
<1>4. ChannelShift(1)
  BY <1>2, <1>3 DEF ChannelShift
<1> QED
  BY <1>1, <1>4 DEF Framed, NoGroups

(* The thread of Me has nothing to do with histories.                      *)
Worked ==
  /\ \A p \in Peers : InWork(p)' <=> InWork(p)
  /\ work'[Me].step = "history" => work'[Me] = work[Me]

LEMMA OtherWork ==
  ASSUME TInv, NEW u \in Users, Others(u), work[u].step # "history", work'[u].step # "history"
  PROVE  Worked
BY Apart DEF Worked, InWork, Others

LEMMA NoWorkDone == ASSUME work' = work PROVE Worked
BY DEF Worked, InWork

(* What all these leave of the invariant                                   *)
LEMMA PagesNext ==
  ASSUME TInv, [Next]_vars, phase # "off", phase' # "off",
         \A p \in Peers : cursor[p] # 0 => cursor'[p] # 0,
         \A n \in DOMAIN channel' : \A f : f = channel'[n] /\ f.code = "history" => f.peer \in Peers /\ PageReaches(f.peer, f.messages),
         \A w : w = work'[Me] /\ w.step = "history" => w.peer \in Peers /\ PageReaches(w.peer, w.messages),
         \A k \in DOMAIN requests' : \A r : r = requests'[k] /\ r.code = "history" /\ r.before # 0 =>
           r.peer \in Peers /\ cursor[r.peer] # 0 /\ Reach(r.peer, r.before, {})
  PROVE  Pages'
<1>1. ASSUME NEW p \in Peers, NEW ms, PageReaches(p, ms) PROVE PageReaches(p, ms)'
  <2>1. CASE ms = <<>>
    <3>1. cursor'[p] = 0 => Reach(p, 0, {})'
      BY <1>1, <2>1, ReachStep DEF PageReaches
    <3> QED
      BY <2>1, <3>1 DEF PageReaches
  <2>2. CASE ms # <<>>
    <3>1. Reach(p, ms[1].id, IdsOf(ms))'
      BY <1>1, <2>2, ReachStep DEF PageReaches
    <3> QED
      BY <2>2, <3>1 DEF PageReaches
  <2> QED
    BY <2>1, <2>2
<1>2. ASSUME NEW n \in DOMAIN channel', channel'[n].code = "history"
      PROVE  PageReaches(channel[n].peer, channel[n].messages)'
  <2>1. PICK f : f = channel'[n]
    OBVIOUS
  <2>2. PageReaches(f.peer, f.messages)'
    BY <1>1, <1>2, <2>1
  <2> QED
    BY <2>1, <2>2
<1>3. ASSUME work'[Me].step = "history" PROVE PageReaches(work[Me].peer, work[Me].messages)'
  <2>1. PICK w : w = work'[Me]
    OBVIOUS
  <2>2. PageReaches(w.peer, w.messages)'
    BY <1>1, <1>3, <2>1
  <2> QED
    BY <2>1, <2>2
<1>4. ASSUME NEW k \in DOMAIN requests', requests'[k].code = "history", requests'[k].before # 0
      PROVE  cursor'[requests'[k].peer] # 0 /\ Reach(requests[k].peer, requests[k].before, {})'
  <2>1. PICK r : r = requests'[k]
    OBVIOUS
  <2>2. r.peer \in Peers /\ cursor'[r.peer] # 0 /\ Reach(r.peer, r.before, {})'
    BY <1>4, <2>1, ReachStep
  <2> QED
    BY <2>1, <2>2
<1> QED
  BY <1>2, <1>3, <1>4 DEF Pages

LEMMA CalmPages ==
  ASSUME TInv, Pages
  PROVE  /\ \A n \in DOMAIN channel : channel[n].code = "history" =>
              channel[n].peer \in Peers /\ PageReaches(channel[n].peer, channel[n].messages)
         /\ work[Me].step = "history" => work[Me].peer \in Peers /\ PageReaches(work[Me].peer, work[Me].messages)
         /\ \A k \in DOMAIN requests : requests[k].code = "history" =>
              requests[k].peer \in Peers
         /\ \A k \in DOMAIN requests : requests[k].code = "history" /\ requests[k].before # 0 =>
              cursor[requests[k].peer] # 0 /\ Reach(requests[k].peer, requests[k].before, {})
<1>1. \A n \in DOMAIN channel : channel[n].code = "history" => channel[n].peer \in Peers
  BY FrameTypes DEF TInv, ChannelOK, FrameFits
<1>2. work[Me].step = "history" => work[Me].peer \in Peers
  BY WorkTypes, Apart DEF TInv, WorkOK, WorkFits
<1>3. \A k \in DOMAIN requests : requests[k].code = "history" => requests[k].peer \in Peers
  <2>1. \A k \in DOMAIN requests : requests[k] \in Requests
    BY ElementOfSeq, LenProperties DEF TInv, RequestsOK
  <2> QED
    BY <2>1, RequestTypes
<1> QED
  BY <1>1, <1>2, <1>3 DEF Pages

LEMMA SameOrder ==
  ASSUME TInv, TInv', [Next]_vars, phase # "off", NInv, SameItems, NoGroups => NoGroups', Pages',
         cursor' = cursor, phase' = phase, counter' = counter
  PROVE  NInv'
<1>1. FirstOnes' /\ Due' = Due
  BY OrderKept DEF NInv
<1>2. Counted'
  BY <1>1, OrderKept DEF NInv, Counted
<1>3. Reached'
  BY <1>1, ReachStep DEF NInv, Reached
<1> QED
  BY <1>1, <1>2, <1>3 DEF NInv

LEMMA CalmStep ==
  ASSUME TInv, TInv', [Next]_vars, phase # "off", NInv,
         NEW d \in {0, 1}, Framed(d), NEW e \in {0, 1}, Requested(e), Worked,
         cursor' = cursor, phase' = phase, counter' = counter
  PROVE  NInv'
<1>1. SameItems
  BY PlainItems DEF Framed, Requested, Worked
<1>2. NoGroups => NoGroups'
  BY DEF Framed, Requested, NoGroups
<1>3. Pages
  BY DEF NInv
<1>4. \A n \in DOMAIN channel' : \A f : f = channel'[n] /\ f.code = "history" => f.peer \in Peers /\ PageReaches(f.peer, f.messages)
  BY <1>3, CalmPages DEF Framed
<1>5. \A w : w = work'[Me] /\ w.step = "history" => w.peer \in Peers /\ PageReaches(w.peer, w.messages)
  BY <1>3, CalmPages DEF Worked
<1>6. \A k \in DOMAIN requests' : \A r : r = requests'[k] /\ r.code = "history" /\ r.before # 0 =>
        r.peer \in Peers /\ cursor[r.peer] # 0 /\ Reach(r.peer, r.before, {})
  BY <1>3, CalmPages DEF Requested
<1>7. Pages'
  BY <1>4, <1>5, <1>6, PagesNext
<1> QED
  BY <1>1, <1>2, <1>7, SameOrder

(* the steps that have nothing to do with histories                        *)
Calm ==
  /\ \E d, e \in {0, 1} : Framed(d) /\ Requested(e)
  /\ Worked /\ cursor' = cursor /\ phase' = phase /\ counter' = counter

LEMMA CalmThreads ==
  ASSUME TInv, phase # "off", NEW u \in Users,
         \/ (\E v \in Users \ {u} : Insert(u, v)) \/ AddContacts(u) \/ Deliver(u)
         \/ (\E i \in Ids : Update(u, i) \/ Delete(u, i)) \/ Notify(u)
  PROVE  Calm
<1>1. ASSUME NEW v \in Users \ {u}, Insert(u, v) PROVE Calm
  <2>1. /\ work' = work \/ (\E i : Inserts(u, v, i))
        /\ channel' = channel /\ phase' = phase /\ counter' = counter /\ cursor' = cursor
        /\ Read(u, [code |-> "send", peer |-> v])
    BY <1>1, InsertEffect DEF client
  <2>2. \E e \in {0, 1} : Requested(e)
    BY <2>1, OtherRead
  <2>3. Worked
    BY <2>1, NoWorkDone, OtherWork DEF Inserts, Idle
  <2> QED
    BY <2>1, <2>2, <2>3, NothingWritten DEF Calm
<1>2. ASSUME NEW i \in Ids, Update(u, i) \/ Delete(u, i) PROVE Calm
  <2>1. /\ work' = work \/ (\E t : Changes(u, i, t))
        /\ channel' = channel /\ phase' = phase /\ counter' = counter /\ cursor' = cursor
        /\ \E c \in {"update", "delete"} : Read(u, [code |-> c, id |-> i])
    BY <1>2, ChangeEffect DEF client
  <2>2. PICK c \in {"update", "delete"} : Read(u, [code |-> c, id |-> i])
    BY <2>1
  <2>3. \E e \in {0, 1} : Requested(e)
    BY <2>2, OtherRead
  <2>4. ASSUME NEW t, Changes(u, i, t) PROVE Worked
    <3>1. work'[u].step # "history"
      BY <2>4 DEF Changes, Notifying, NoWork
    <3> QED
      BY <2>4, <3>1, OtherWork DEF Changes, Idle
  <2> QED
    BY <2>1, <2>3, <2>4, NoWorkDone, NothingWritten DEF Calm
<1>3. CASE AddContacts(u)
  <2>1. /\ work[u].step = "contacts" /\ work' = [work EXCEPT ![u] = [work[u] EXCEPT !.step = "deliver"]]
        /\ channel' = channel /\ requests' = requests /\ phase' = phase /\ counter' = counter /\ cursor' = cursor
    BY <1>3 DEF AddContacts, Then, client
  <2>2. work[u] \in [step : {"contacts", "deliver"}, id : Ids]
    BY <2>1 DEF TInv, WorkOK, WorkFits, Works, NoWork
  <2>3. work'[u] = [work[u] EXCEPT !.step = "deliver"] /\ Others(u)
    BY <2>1, ThenEffect DEF TInv
  <2>4. work'[u].step = "deliver"
    BY <2>2, <2>3
  <2>5. Worked
    BY <2>1, <2>3, <2>4, OtherWork
  <2> QED
    BY <2>1, <2>5, NothingRequested, NothingWritten DEF Calm
<1>4. CASE Deliver(u)
  <2>1. /\ work[u].step = "deliver" /\ UNCHANGED <<rows, contacts, online, requests, client>>
        /\ work'[u].step = "idle" /\ Others(u)
        /\ channel' = channel \/ \E f : Put(f) /\ f.code \in {"sent", "message"}
    BY <1>4, DeliverEffect
  <2>2. Worked
    BY <2>1, OtherWork
  <2>3. Framed(0)
    BY <2>1, NothingWritten, OtherWritten
  <2> QED
    BY <2>1, <2>2, <2>3, NothingRequested DEF Calm, client
<1>5. CASE Notify(u)
  <2>1. /\ work[u].step = "notify" /\ UNCHANGED <<rows, contacts, online, requests, client>>
        /\ work'[u].step = "idle" /\ Others(u)
        /\ \E f : Put(f) /\ f.code \in {"changed", "deleted"}
    BY <1>5, NotifyEffect DEF Notify, Change
  <2>2. Worked
    BY <2>1, OtherWork
  <2>3. Framed(0)
    BY <2>1, OtherWritten
  <2> QED
    BY <2>1, <2>2, <2>3, NothingRequested DEF Calm, client
<1> QED
  BY <1>1, <1>2, <1>3, <1>4, <1>5

LEMMA CalmOthers ==
  ASSUME TInv, phase # "off", phase' # "off",
         \/ GetUsers \/ GetGroups
         \/ \E p \in Peers :
              UserSends(p) \/ \E k \in DOMAIN view[p] : UserChanges(p, k) \/ UserDeletes(p, k)
         \/ RecvSent \/ RecvMessage \/ RecvChange
         \/ UNCHANGED vars
  PROVE  Calm
<1>1. CASE GetUsers
  <2>0. PICK c \in {"users", "error"} : Write([code |-> c])
    BY <1>1 DEF GetUsers
  <2>1. /\ Read(Me, [code |-> "users"]) /\ Write([code |-> c])
        /\ work' = work /\ phase' = phase /\ counter' = counter /\ cursor' = cursor
    BY <1>1, <2>0 DEF GetUsers, server, client
  <2>2. [code |-> c] \in Frames
    BY DEF Frames
  <2>3. Framed(0)
    BY <2>1, <2>2, WriteEffect, OtherWritten
  <2>4. \E e \in {0, 1} : Requested(e)
    BY <2>1, Apart, OtherRead
  <2> QED
    BY <2>1, <2>3, <2>4, NoWorkDone DEF Calm
<1>2. CASE GetGroups
  <2>1. /\ Read(Me, [code |-> "groups"]) /\ Write([code |-> "groups"])
        /\ work' = work /\ phase' = phase /\ counter' = counter /\ cursor' = cursor
    BY <1>2 DEF GetGroups, server, client
  <2>2. [code |-> "groups"] \in Frames
    BY DEF Frames
  <2>3. ~NoGroups
    BY <2>1, ReadEffect DEF NoGroups
  <2>4. Framed(0)
    BY <2>1, <2>2, <2>3, WriteEffect, OtherWritten
  <2>5. \E e \in {0, 1} : Requested(e)
    BY <2>1, Apart, OtherRead
  <2> QED
    BY <2>1, <2>4, <2>5, NoWorkDone DEF Calm
<1>3. ASSUME NEW p \in Peers,
             UserSends(p) \/ \E k \in DOMAIN view[p] : UserChanges(p, k) \/ UserDeletes(p, k)
      PROVE  Calm
  <2>1. /\ work' = work /\ channel' = channel /\ phase' = phase /\ counter' = counter /\ cursor' = cursor
        /\ \/ Ask(<<[code |-> "send", peer |-> p]>>)
           \/ \E q \in Peers : \E k \in DOMAIN view[q], c \in {"update", "delete"} : Ask(<<[code |-> c, id |-> view[q][k].id]>>)
    BY <1>3 DEF UserSends, UserChanges, UserDeletes, server, client
  <2>2. [code |-> "send", peer |-> p] \in Requests
    BY Apart DEF Requests
  <2>3. \A q \in Peers : \A k \in DOMAIN view[q], c \in {"update", "delete"} : [code |-> c, id |-> view[q][k].id] \in Requests
    <3>1. \A q \in Peers : view[q] \in Seq(ShownEntries)
      BY DEF TInv, ViewOK
    <3>2. \A q \in Peers : \A k \in DOMAIN view[q] : view[q][k] \in ShownEntries
      BY <3>1, ElementOfSeq, LenProperties
    <3> QED
      BY <3>2 DEF ShownEntries, Requests
  <2>4. Requested(0)
    <3>1. CASE Ask(<<[code |-> "send", peer |-> p]>>)
      BY <2>2, <3>1, OtherAsked
    <3>2. ASSUME NEW q \in Peers, NEW k \in DOMAIN view[q], NEW c \in {"update", "delete"}, Ask(<<[code |-> c, id |-> view[q][k].id]>>)
          PROVE  Requested(0)
      BY <2>3, <3>2, OtherAsked
    <3> QED
      BY <2>1, <3>1, <3>2
  <2> QED
    BY <2>1, <2>4, NoWorkDone, NothingWritten DEF Calm
<1>4. CASE RecvSent \/ RecvMessage \/ RecvChange
  <2>1. /\ channel # <<>> /\ Taken /\ Head(channel).code \in {"sent", "message", "changed", "deleted"}
        /\ work' = work /\ requests' = requests /\ phase' = phase /\ counter' = counter /\ cursor' = cursor
    BY <1>4 DEF RecvSent, RecvMessage, RecvChange, Reads, server
  <2>2. Framed(1)
    BY <2>1, TakenEffect, OtherTaken
  <2> QED
    BY <2>1, <2>2, NoWorkDone, NothingRequested DEF Calm
<1>5. CASE UNCHANGED vars
  BY <1>5, NoWorkDone, NothingRequested, NothingWritten DEF Calm, vars, client, server
<1> QED
  BY <1>1, <1>2, <1>3, <1>4, <1>5

(* the last messages, or those before one that has been reached            *)
LEMMA PageRead ==
  ASSUME TInv, NEW p \in Peers, NEW before \in Nat, NEW qty \in Nat \ {0},
         before # 0 => Reach(p, before, {}),
         NEW s, s = LastMessages(Me, p, before, qty)
  PROVE  PageReaches(p, s)
<1> DEFINE fit == {i \in Conversation(Me, p) \cap Stored : before = 0 \/ i < before}
           R == {x \in fit \X fit : x[1] > x[2]}
           S == {i \in fit : Rank(fit, R, i) < qty}
<1>0. DOMAIN rows = 1..Len(rows) /\ Len(rows) \in Nat
  BY RowTypes DEF TInv
<1>1. fit \subseteq DOMAIN rows /\ IsFiniteSet(fit) /\ \A i \in fit : i \in Nat
  <2>1. fit \subseteq DOMAIN rows
    BY DEF Stored
  <2>2. IsFiniteSet(DOMAIN rows)
    <3>1. 1 \in Int /\ Len(rows) \in Int
      BY <1>0
    <3> QED
      BY <1>0, <3>1, FS_Interval
  <2> QED
    BY <1>0, <2>1, <2>2, FS_Subset
<1>2. \A i \in Stored : Is(i, p, Me, rows) => i \in Conversation(Me, p)
  BY DEF Stored, Is, Conversation
<1>f. \A i : i \in fit <=> i \in Conversation(Me, p) \cap Stored /\ (before = 0 \/ i < before)
  OBVIOUS
<1>r. \A i, j \in fit : <<i, j>> \in R <=> i > j
  OBVIOUS
<1>s. s = InOrderOfIds(S)
  <2>1. \A i \in fit : {j \in fit : j > i} = Before(fit, R, i)
    BY <1>r DEF Before
  <2>2. {i \in fit : Cardinality({j \in fit : j > i}) < qty} = S
    BY <2>1 DEF Rank
  <2> QED
    BY <2>2 DEF LastMessages
<1> HIDE DEF fit, R
<1>3. /\ \A i \in fit : Rank(fit, R, i) \in Nat
      /\ \A i \in fit, j \in fit : <<i, j>> \in R => Rank(fit, R, i) < Rank(fit, R, j)
      /\ Cardinality(fit) \in Nat
      /\ Cardinality(fit) # 0 => \E x \in fit : Rank(fit, R, x) = 0
  <2>1. \A x \in fit : <<x, x>> \notin R
    BY <1>1, <1>r
  <2>2. \A x, y, z \in fit : <<x, y>> \in R /\ <<y, z>> \in R => <<x, z>> \in R
    BY <1>1, <1>r
  <2>3. \A x, y \in fit : x # y => <<x, y>> \in R \/ <<y, x>> \in R
    BY <1>1, <1>r
  <2>4. /\ Cardinality(fit) \in Nat
        /\ \A x \in fit : Rank(fit, R, x) \in 0..Cardinality(fit)-1
        /\ \A n \in 1..Cardinality(fit) : \E x \in fit : Rank(fit, R, x) = n - 1
        /\ \A x, y \in fit : <<x, y>> \in R => Rank(fit, R, x) < Rank(fit, R, y)
    BY <1>1, <2>1, <2>2, <2>3, Numbering
  <2>5. ASSUME Cardinality(fit) # 0 PROVE \E x \in fit : Rank(fit, R, x) = 0
    <3>1. 1 \in 1..Cardinality(fit)
      BY <2>4, <2>5
    <3>2. \E x \in fit : Rank(fit, R, x) = 1 - 1
      BY <2>4, <3>1
    <3> QED
      BY <3>2
  <2> QED
    BY <2>4, <2>5
<1>4. S \in SUBSET (Conversation(Me, p) \cap Stored)
  BY <1>f
<1>i. \A i : i \in S <=> i \in fit /\ Rank(fit, R, i) < qty
  OBVIOUS
<1> HIDE DEF S
<1>5. /\ s \in MessageSeqs /\ DOMAIN s = 1..Cardinality(S) /\ Cardinality(S) \in Nat /\ IsFiniteSet(S)
      /\ \A k \in DOMAIN s : s[k].id \in S
      /\ \A i \in S : \E k \in DOMAIN s : s[k].id = i
      /\ \A j, k \in DOMAIN s : j < k => s[j].id < s[k].id
  <2>1. RowsOK
    BY DEF TInv
  <2> QED
    BY <1>4, <1>s, <2>1, PageFits
<1>6. CASE s = <<>>
  <2>1. S = {}
    BY <1>5, <1>6
  <2>2. fit = {}
    <3>1. ASSUME NEW x \in fit, Rank(fit, R, x) = 0 PROVE FALSE
      BY <1>i, <2>1, <3>1
    <3>2. Cardinality(fit) = 0
      BY <1>3, <3>1
    <3> QED
      BY <1>1, <3>2, FS_EmptySet
  <2>3. Reach(p, 0, {})
    <3> SUFFICES ASSUME NEW i \in Stored, Is(i, p, Me, rows)
                 PROVE  i \in Shown(p) \/ Coming(p, i)
      BY DEF Reach
    <3>1. i \in Nat /\ before # 0 /\ i >= before
      <4>1. i \in Nat
        BY <1>0 DEF Stored
      <4> QED
        BY <1>2, <1>f, <2>2, <4>1
    <3> QED
      BY <3>1 DEF Reach
  <2> QED
    BY <1>6, <2>3 DEF PageReaches
<1>7. CASE s # <<>>
  <2>1. 1 \in DOMAIN s /\ s[1].id \in S /\ s[1].id \in Nat
    <3>1. 1 \in DOMAIN s /\ s[1] \in [id : Ids, text : Texts]
      BY <1>5, <1>7, FirstMessage
    <3>2. s[1].id \in Nat
      BY <3>1, MessengerAssumption DEF Ids
    <3> QED
      BY <1>5, <3>1, <3>2
  <2>2. Reach(p, s[1].id, IdsOf(s))
    <3> SUFFICES ASSUME NEW i \in Stored, Is(i, p, Me, rows), i >= s[1].id
                 PROVE  i \in IdsOf(s) \/ i \in Shown(p) \/ Coming(p, i)
      BY DEF Reach
    <3>1. i \in Nat /\ i \in Conversation(Me, p)
      BY <1>0, <1>2 DEF Stored
    <3>2. CASE i \in fit
      <4>1. Rank(fit, R, i) <= Rank(fit, R, s[1].id)
        <5>1. s[1].id \in fit
          BY <1>i, <2>1
        <5>2. i = s[1].id \/ <<i, s[1].id>> \in R
          BY <1>r, <2>1, <3>1, <3>2, <5>1
        <5> QED
          BY <1>3, <3>2, <5>1, <5>2
      <4>2. Rank(fit, R, s[1].id) < qty /\ s[1].id \in fit
        BY <1>i, <2>1
      <4>3. Rank(fit, R, i) < qty
        BY <1>3, <3>2, <4>1, <4>2
      <4>4. i \in S
        BY <1>i, <3>2, <4>3
      <4> QED
        BY <1>5, <4>4 DEF IdsOf
    <3>3. CASE i \notin fit
      <4>1. before # 0 /\ i >= before
        BY <1>f, <3>1, <3>3
      <4> QED
        BY <4>1 DEF Reach
    <3> QED
      BY <3>2, <3>3
  <2> QED
    BY <1>7, <2>2 DEF PageReaches
<1> QED
  BY <1>6, <1>7

(* the steps that are about histories                                      *)
LEMMA LogInItems ==
  ASSUME TInv, LogIn
  PROVE  NInv'
<1>1. /\ channel' = <<>> /\ work' = work /\ Idle(Me) /\ cursor' = cursor /\ phase' = "users"
      /\ requests' = <<>> \o <<[code |-> "users"]>>
  BY DEF TInv, SessionOK, LogIn, Ask
<1>2. requests' = <<[code |-> "users"]>>
  BY <1>1
<1>3. /\ \A n \in DOMAIN channel' : FALSE
      /\ \A k \in DOMAIN requests' : requests'[k].code = "users"
      /\ work'[Me].step = "idle"
  BY <1>1, <1>2 DEF Idle
<1>4. \A n, p : ~InChannel(n, p)' /\ ~InWork(p)' /\ ~InRequests(n, p)'
  BY <1>3 DEF InChannel, InWork, InRequests
<1>5. FirstOnes' /\ \A p \in Peers : ~Awaited(p)'
  BY <1>4 DEF FirstOnes, Awaited, Ahead
<1>6. Counted'
  BY <1>1, <1>3, <1>5 DEF Counted, NoGroups
<1>7. Pages'
  BY <1>3 DEF Pages
<1>8. Reached'
  BY <1>1 DEF Reached
<1> QED
  BY <1>5, <1>6, <1>7, <1>8 DEF NInv

LEMMA FetchStep ==
  ASSUME TInv, TInv', [Next]_vars, phase # "off", phase' # "off", NInv,
         NEW p \in Peers, NEW b \in 0..MaxMessages, NEW q \in FirstPages \cup {Page}, GetLastMsgs(p, b, q)
  PROVE  NInv'
<1> DEFINE r == [code |-> "history", peer |-> p, before |-> b, qty |-> q]
           ms == LastMessages(Me, p, b, q)
<1>1. /\ Read(Me, r) /\ work[Me].step = "idle"
      /\ channel' = channel /\ cursor' = cursor /\ phase' = phase /\ counter' = counter
      /\ work' = [work EXCEPT ![Me] = [step |-> "history", peer |-> p, messages |-> ms]]
  BY DEF GetLastMsgs, Read, Idle, Then, client
<1>2. r.code = "history" /\ r.peer = p /\ r.before = b
  OBVIOUS
<1>m. PICK s : s = ms
  OBVIOUS
<1>3. work'[Me].step = "history" /\ work'[Me].peer = p /\ work'[Me].messages = s
  BY <1>1, <1>m, Apart DEF TInv, WorkOK
<1>p. LastMessages(Me, p, b, q) = s
  BY <1>m
<1> HIDE DEF r, ms
<1>4. /\ 1 \in DOMAIN requests /\ requests[1] = r
      /\ \A k \in Nat \ {0} : k \in DOMAIN requests' <=> k + 1 \in DOMAIN requests
      /\ \A k \in DOMAIN requests' : k \in Nat \ {0} /\ requests'[k] = requests[k + 1]
  BY <1>1, ReadEffect
<1>5. \A k \in Nat \ {0}, x \in Peers : InRequests(k, x)' <=> InRequests(k + 1, x)
  BY <1>4 DEF InRequests
<1>6. InRequests(1, p) /\ \A x \in Peers : InRequests(1, x) => x = p
  BY <1>2, <1>4 DEF InRequests
<1>7. \A x \in Peers : ~InWork(x) /\ (InWork(x)' <=> x = p)
  BY <1>1, <1>3 DEF InWork
<1>8. SameItems
  BY <1>1, <1>5, <1>6, <1>7, FetchedItems
<1>9. \A k \in DOMAIN requests' : k + 1 \in DOMAIN requests /\ requests'[k] = requests[k + 1]
  BY <1>4
<1>10. NoGroups => NoGroups'
  BY <1>1, <1>9 DEF NoGroups
<1>11. Pages
  BY DEF NInv
<1>12. PageReaches(p, s)
  <2>1. b \in Nat /\ q \in Nat \ {0}
    BY MessengerAssumption
  <2>2. b # 0 => Reach(p, b, {})
    BY <1>2, <1>4, <1>11, CalmPages
  <2> QED
    BY <1>p, <2>1, <2>2, PageRead
<1>13. \A w : w = work'[Me] /\ w.step = "history" => w.peer \in Peers /\ PageReaches(w.peer, w.messages)
  BY <1>3, <1>12
<1>14. \A n \in DOMAIN channel' : \A f : f = channel'[n] /\ f.code = "history" => f.peer \in Peers /\ PageReaches(f.peer, f.messages)
  BY <1>1, <1>11, CalmPages
<1>15. \A k \in DOMAIN requests' : \A x : x = requests'[k] /\ x.code = "history" /\ x.before # 0 =>
         x.peer \in Peers /\ cursor[x.peer] # 0 /\ Reach(x.peer, x.before, {})
  BY <1>9, <1>11, CalmPages
<1>16. Pages'
  BY <1>1, <1>13, <1>14, <1>15, PagesNext
<1> QED
  BY <1>1, <1>8, <1>10, <1>16, SameOrder

LEMMA SendStep ==
  ASSUME TInv, TInv', [Next]_vars, phase # "off", phase' # "off", NInv, SendHistory
  PROVE  NInv'
<1>1. /\ work[Me].step = "history" /\ Write([code |-> "history", peer |-> work[Me].peer, messages |-> work[Me].messages])
      /\ work' = [work EXCEPT ![Me] = NoWork]
      /\ requests' = requests /\ cursor' = cursor /\ phase' = phase /\ counter' = counter
  BY DEF SendHistory, Then, client
<1>2. PICK f : f = [code |-> "history", peer |-> work[Me].peer, messages |-> work[Me].messages]
  OBVIOUS
<1>3. f.code = "history" /\ f.peer = work[Me].peer /\ f.messages = work[Me].messages
  BY <1>2
<1>4. f \in Frames /\ f.peer \in Peers
  BY <1>1, <1>2, WorkTypes, Apart DEF TInv, WorkOK, WorkFits, Frames
<1>5. Put(f)
  BY <1>1, <1>2, <1>4, WriteEffect
<1>6. work'[Me].step = "idle"
  BY <1>1, Apart DEF TInv, WorkOK, NoWork
<1>7. \A p \in Peers : (InWork(p) <=> p = f.peer) /\ ~InWork(p)'
  BY <1>1, <1>3, <1>6 DEF InWork
<1>8. SameItems
  BY <1>1, <1>3, <1>4, <1>5, <1>7, SentItems
<1>9. \A n \in DOMAIN channel' : (n \in DOMAIN channel /\ channel'[n] = channel[n]) \/ channel'[n] = f
  BY <1>5, PutPlaces
<1>10. NoGroups => NoGroups'
  BY <1>1, <1>3, <1>9 DEF NoGroups
<1>11. Pages
  BY DEF NInv
<1>12. \A n \in DOMAIN channel' : \A x : x = channel'[n] /\ x.code = "history" => x.peer \in Peers /\ PageReaches(x.peer, x.messages)
  <2>1. PageReaches(f.peer, f.messages)
    BY <1>1, <1>3, <1>11, CalmPages
  <2> QED
    BY <1>4, <1>9, <1>11, <2>1, CalmPages
<1>13. \A w : w = work'[Me] /\ w.step = "history" => w.peer \in Peers /\ PageReaches(w.peer, w.messages)
  BY <1>6
<1>14. \A k \in DOMAIN requests' : \A x : x = requests'[k] /\ x.code = "history" /\ x.before # 0 =>
         x.peer \in Peers /\ cursor[x.peer] # 0 /\ Reach(x.peer, x.before, {})
  BY <1>1, <1>11, CalmPages
<1>15. Pages'
  BY <1>1, <1>12, <1>13, <1>14, PagesNext
<1> QED
  BY <1>1, <1>8, <1>10, <1>15, SameOrder

LEMMA ScrollStep ==
  ASSUME TInv, TInv', [Next]_vars, phase # "off", phase' # "off", NInv, NEW p \in Peers, UserScrollsUp(p)
  PROVE  NInv'
<1> DEFINE r == [code |-> "history", peer |-> p, before |-> cursor[p], qty |-> Page]
           K == Len(requests)
<1>1. /\ phase \notin {"off", "users"} /\ cursor[p] # 0 /\ Ask(<<r>>)
      /\ work' = work /\ channel' = channel /\ cursor' = cursor /\ phase' = phase /\ counter' = counter
  BY DEF UserScrollsUp, MayAsk, server, client
<1>2. r \in Requests /\ r.code = "history" /\ r.peer = p /\ r.before = cursor[p]
  BY DEF TInv, ClientOK, Requests
<1> HIDE DEF r
<1>3. /\ K \in Nat /\ DOMAIN requests = 1..K /\ DOMAIN requests' = 1..K + 1 /\ requests'[K + 1] = r
      /\ \A k \in DOMAIN requests : k \in DOMAIN requests' /\ requests'[k] = requests[k]
      /\ \A k \in DOMAIN requests' : k \in DOMAIN requests \/ k = K + 1
  BY <1>1, <1>2, AskEffect
<1> HIDE DEF K
<1>4. \A k, x : InRequests(k, x)' <=> InRequests(k, x) \/ (k = K + 1 /\ x = p)
  BY <1>2, <1>3 DEF InRequests
<1>5. \A n, x : (InChannel(n, x)' <=> InChannel(n, x)) /\ (InWork(x)' <=> InWork(x))
  BY <1>1 DEF InChannel, InWork
<1>6. ASSUME NEW x \in Peers, x # p PROVE Awaited(x)' <=> Awaited(x)
  <2>1. \A k : InRequests(k, x)' <=> InRequests(k, x)
    BY <1>4, <1>6
  <2>2. (\E k \in DOMAIN requests' : InRequests(k, x)') <=> \E k \in DOMAIN requests : InRequests(k, x)
    BY <1>3, <2>1, Kinds
  <2> QED
    BY <1>1, <1>5, <2>2 DEF Awaited
<1>7. ASSUME NEW x \in Peers, NEW y \in Peers, y # p, Ahead(x, y)' PROVE Ahead(x, y)
  <2>1. \A k : InRequests(k, y)' => InRequests(k, y) /\ k \in DOMAIN requests
    BY <1>4, <1>7, Kinds
  <2>2. \A j, k : j < k /\ InRequests(j, x)' /\ k \in DOMAIN requests => InRequests(j, x) /\ j \in DOMAIN requests
    BY <1>3, <1>4, Kinds
  <2> QED
    BY <1>1, <1>5, <1>7, <2>1, <2>2 DEF Ahead
<1>8. FirstOnes'
  BY <1>1, <1>7 DEF NInv, FirstOnes
<1>9. Due' = Due
  <2>1. \A x : x \in Due' <=> x \in Due
    BY <1>1, <1>6 DEF Due
  <2> QED
    BY <2>1
<1>10. NoGroups => NoGroups'
  BY <1>1, <1>2, <1>3 DEF NoGroups
<1>11. Counted'
  BY <1>1, <1>9, <1>10 DEF NInv, Counted
<1>12. Reached'
  BY <1>1, <1>9, ReachStep DEF NInv, Reached
<1>13. Pages
  BY DEF NInv
<1>14. Reach(p, cursor[p], {})
  BY <1>1 DEF NInv, Reached, Due
<1>15. \A n \in DOMAIN channel' : \A f : f = channel'[n] /\ f.code = "history" => f.peer \in Peers /\ PageReaches(f.peer, f.messages)
  BY <1>1, <1>13, CalmPages
<1>16. \A w : w = work'[Me] /\ w.step = "history" => w.peer \in Peers /\ PageReaches(w.peer, w.messages)
  BY <1>1, <1>13, CalmPages
<1>17. \A k \in DOMAIN requests' : \A x : x = requests'[k] /\ x.code = "history" /\ x.before # 0 =>
         x.peer \in Peers /\ cursor[x.peer] # 0 /\ Reach(x.peer, x.before, {})
  BY <1>1, <1>2, <1>3, <1>13, <1>14, CalmPages
<1>18. Pages'
  BY <1>1, <1>15, <1>16, <1>17, PagesNext
<1> QED
  BY <1>8, <1>11, <1>12, <1>18 DEF NInv

LEMMA GroupsStep ==
  ASSUME TInv, TInv', [Next]_vars, phase # "off", phase' # "off", NInv, RecvGroups
  PROVE  NInv'
<1>1. /\ channel # <<>> /\ Taken /\ Head(channel).code = "groups" /\ phase' = "ready"
      /\ work' = work /\ requests' = requests /\ cursor' = cursor /\ counter' = counter
  BY DEF RecvGroups, Reads, server
<1>2. PICK f : f = Head(channel)
  OBVIOUS
<1>3. Took(f) /\ f.code = "groups"
  BY <1>1, <1>2, TakenEffect
<1>4. ~NoGroups
  BY <1>3 DEF Took, NoGroups
<1>5. phase \in {"groups", "ready"} /\ Due = {}
  BY <1>4 DEF NInv, Counted, TInv, ClientOK
<1>6. Framed(1) /\ Requested(0) /\ Worked
  BY <1>1, <1>3, OtherTaken, NothingRequested, NoWorkDone
<1>7. SameItems
  BY <1>6, PlainItems DEF Framed, Requested, Worked
<1>8. FirstOnes' /\ Due' = {}
  BY <1>1, <1>5, <1>7, OrderKept DEF NInv
<1>9. Counted'
  BY <1>1, <1>8 DEF Counted
<1>10. Reached'
  BY <1>1, <1>5, <1>8, ReachStep DEF NInv, Reached
<1>11. Pages
  BY DEF NInv
<1>12. \A n \in DOMAIN channel' : \A x : x = channel'[n] /\ x.code = "history" => x.peer \in Peers /\ PageReaches(x.peer, x.messages)
  BY <1>6, <1>11, CalmPages DEF Framed
<1>13. \A w : w = work'[Me] /\ w.step = "history" => w.peer \in Peers /\ PageReaches(w.peer, w.messages)
  BY <1>1, <1>11, CalmPages
<1>14. \A k \in DOMAIN requests' : \A x : x = requests'[k] /\ x.code = "history" /\ x.before # 0 =>
         x.peer \in Peers /\ cursor[x.peer] # 0 /\ Reach(x.peer, x.before, {})
  BY <1>1, <1>11, CalmPages
<1>15. Pages'
  BY <1>1, <1>12, <1>13, <1>14, PagesNext
<1> QED
  BY <1>8, <1>9, <1>10, <1>15 DEF NInv

LEMMA AskAll ==
  ASSUME TInv, NEW s \in Seq(Requests), Ask(s)
  PROVE  /\ Len(requests) \in Nat /\ DOMAIN requests = 1..Len(requests)
         /\ \A k \in DOMAIN requests : k \in DOMAIN requests' /\ requests'[k] = requests[k]
         /\ \A j \in DOMAIN s : Len(requests) + j \in DOMAIN requests' /\ requests'[Len(requests) + j] = s[j]
         /\ \A k \in DOMAIN requests' :
              k \in DOMAIN requests \/ \E j \in DOMAIN s : k = Len(requests) + j /\ requests'[k] = s[j]
<1>1. requests \in Seq(Requests) /\ requests' = requests \o s
  BY DEF TInv, RequestsOK, Ask
<1> DEFINE K == Len(requests)
           J == Len(s)
<1>2. /\ Len(requests') = K + J /\ requests' \in Seq(Requests)
      /\ \A i \in 1..K + J : requests'[i] = IF i <= K THEN requests[i] ELSE s[i - K]
  BY <1>1, ConcatProperties
<1>3. K \in Nat /\ J \in Nat /\ DOMAIN requests = 1..K /\ DOMAIN s = 1..J
  BY <1>1, LenProperties
<1>4. DOMAIN requests' = 1..K + J
  <2>1. DOMAIN requests' = 1..Len(requests')
    BY <1>2, LenProperties
  <2> QED
    BY <1>2, <2>1
<1> HIDE DEF K, J
<1>5. \A k \in DOMAIN requests : k \in DOMAIN requests' /\ requests'[k] = requests[k]
  BY <1>2, <1>3, <1>4
<1>6. \A j \in DOMAIN s : K + j \in DOMAIN requests' /\ requests'[K + j] = s[j]
  <2> SUFFICES ASSUME NEW j \in 1..J PROVE K + j \in DOMAIN requests' /\ requests'[K + j] = s[j]
    BY <1>3
  <2>1. K + j \in 1..K + J /\ ~(K + j <= K) /\ (K + j) - K = j
    BY <1>3
  <2> QED
    BY <1>2, <1>4, <2>1
<1>7. ASSUME NEW k \in DOMAIN requests', k \notin DOMAIN requests
      PROVE  \E j \in DOMAIN s : k = K + j /\ requests'[k] = s[j]
  <2>1. k - K \in 1..J /\ K + (k - K) = k /\ ~(k <= K) /\ k \in 1..K + J
    BY <1>3, <1>4, <1>7
  <2> QED
    BY <1>2, <1>3, <2>1
<1> QED
  BY <1>3, <1>5, <1>6, <1>7 DEF K

(* the histories are asked for                                             *)
LEMMA UsersStep ==
  ASSUME TInv, TInv', [Next]_vars, phase # "off", phase' # "off", NInv,
         NEW first \in [Peers -> FirstPages], RecvUsers(first)
  PROVE  NInv'
<1> DEFINE H(p) == [code |-> "history", peer |-> p, before |-> 0, qty |-> first[p]]
           S == {H(p) : p \in Peers}
<1>1. /\ channel # <<>> /\ Taken /\ Head(channel).code = "users" /\ phase = "users" /\ phase' = "histories"
      /\ work' = work /\ cursor' = cursor /\ counter' = counter /\ Ask(SetToSeq(S))
  BY DEF RecvUsers, Reads, server
<1>2. IsFiniteSet(S)
  <2> DEFINE f == [p \in Peers |-> H(p)]
  <2>1. f \in Surjection(Peers, S)
    BY DEF Surjection
  <2> HIDE DEF f, S
  <2> QED
    BY <2>1, MessengerAssumption, FS_Surjection
<1>3. \A p \in Peers : H(p) \in Requests
  BY MessengerAssumption DEF Requests
<1>h. \A p : H(p).code = "history" /\ H(p).peer = p /\ H(p).before = 0
  OBVIOUS
<1>e. (\A p \in Peers : H(p) \in S) /\ \A x \in S : \E p \in Peers : x = H(p)
  OBVIOUS
<1>4. PICK s : s = SetToSeq(S)
  OBVIOUS
<1> HIDE DEF S, H
<1>5. s \in Seq(S) /\ s \in Seq(Requests)
  BY <1>2, <1>3, <1>4, <1>e, SetToSeqOf, SeqDef
<1>6. /\ \A j \in DOMAIN s : s[j] \in S
      /\ \A x \in S : \E j \in DOMAIN s : s[j] = x
      /\ \A j, k \in DOMAIN s : s[j] = s[k] => j = k
  <2>1. \A j \in DOMAIN s : s[j] \in S
    BY <1>5, ElementOfSeq, LenProperties
  <2> QED
    BY <1>2, <1>4, <2>1, SetToSeqOf
<1>7. \A j \in DOMAIN s : s[j].code = "history" /\ s[j].peer \in Peers /\ s[j].before = 0 /\ s[j] = H(s[j].peer)
  BY <1>6, <1>e, <1>h
<1>8. \A p \in Peers : \E j \in DOMAIN s : s[j] = H(p)
  BY <1>6, <1>e
<1> DEFINE K == Len(requests)
<1>9. /\ K \in Nat /\ DOMAIN requests = 1..K
      /\ \A k \in DOMAIN requests : k \in DOMAIN requests' /\ requests'[k] = requests[k]
      /\ \A j \in DOMAIN s : K + j \in DOMAIN requests' /\ requests'[K + j] = s[j]
      /\ \A k \in DOMAIN requests' :
           k \in DOMAIN requests \/ \E j \in DOMAIN s : k = K + j /\ requests'[k] = s[j]
  BY <1>1, <1>4, <1>5, AskAll
<1> HIDE DEF K
<1>10. (\A p \in Peers : ~Awaited(p)) /\ NoGroups /\ Pages
  BY <1>1 DEF NInv, Counted
<1>11. \A p \in Peers : (\A n : ~InChannel(n, p)) /\ ~InWork(p) /\ (\A k : ~InRequests(k, p))
  BY <1>10, Kinds DEF Awaited
<1>12. PICK f : f = Head(channel)
  OBVIOUS
<1>13. Framed(1)
  BY <1>1, <1>12, TakenEffect, OtherTaken
<1>14. \A p \in Peers : (\A n : ~InChannel(n, p)') /\ ~InWork(p)'
  <2>1. \A p \in Peers : \A n \in Nat \ {0} : ~InChannel(n, p)'
    BY <1>11, <1>13 DEF Framed, ChannelShift
  <2> QED
    BY <1>1, <1>11, <2>1, KindsNext DEF InWork
<1>15. \A k \in DOMAIN requests, p \in Peers : ~InRequests(k, p)'
  BY <1>9, <1>11 DEF InRequests
<1>16. ASSUME NEW p \in Peers, NEW q \in Peers, Ahead(p, q)' PROVE p # q
  <2>1. PICK j, k \in DOMAIN requests' : j < k /\ InRequests(j, p)' /\ InRequests(k, q)'
    BY <1>14, <1>16 DEF Ahead
  <2>2. PICK x \in DOMAIN s : j = K + x /\ requests'[j] = s[x]
    BY <1>9, <1>15, <2>1
  <2>3. PICK y \in DOMAIN s : k = K + y /\ requests'[k] = s[y]
    BY <1>9, <1>15, <2>1
  <2>4. s[x].peer = p /\ s[y].peer = q
    BY <2>1, <2>2, <2>3 DEF InRequests
  <2>5. x # y
    <3>1. j # k
      <4>1. j \in Nat /\ k \in Nat
        BY <2>1, KindsNext
      <4> QED
        BY <2>1, <4>1
    <3> QED
      BY <2>2, <2>3, <3>1
  <2>6. s[x] = H(p) /\ s[y] = H(q)
    BY <1>7, <2>4
  <2> QED
    BY <1>6, <2>5, <2>6
<1>17. \A p \in Peers : cursor'[p] = 0
  BY <1>1 DEF TInv, ClientOK
<1>18. FirstOnes'
  BY <1>16, <1>17 DEF FirstOnes
<1>19. \A p \in Peers : Awaited(p)'
  <2> SUFFICES ASSUME NEW p \in Peers PROVE Awaited(p)'
    OBVIOUS
  <2>1. PICK j \in DOMAIN s : s[j] = H(p)
    BY <1>8
  <2>m. PICK m : m = K + j
    OBVIOUS
  <2>2. InRequests(m, p)' /\ m \in DOMAIN requests'
    BY <1>9, <1>h, <2>1, <2>m DEF InRequests
  <2> QED
    BY <2>2 DEF Awaited
<1>20. Due' = Peers
  <2>1. \A p : p \in Due' <=> p \in Peers
    BY <1>17, <1>19 DEF Due
  <2> QED
    BY <2>1
<1>21. NoGroups'
  BY <1>7, <1>9, <1>10, <1>13 DEF Framed, NoGroups
<1>22. Counted'
  <2>1. counter = 0 /\ Cardinality(Peers) \in Nat
    BY <1>1, MessengerAssumption, FS_CardinalityType DEF TInv, ClientOK
  <2>2. Cardinality(Due') + counter' = Cardinality(Peers)
    BY <1>1, <1>20, <2>1
  <2> QED
    BY <1>1, <1>21, <2>2 DEF Counted
<1>23. Reached'
  BY <1>20 DEF Reached
<1>24. \A n \in DOMAIN channel' : \A x : x = channel'[n] /\ x.code = "history" => x.peer \in Peers /\ PageReaches(x.peer, x.messages)
  BY <1>10, <1>13, CalmPages DEF Framed
<1>25. \A w : w = work'[Me] /\ w.step = "history" => w.peer \in Peers /\ PageReaches(w.peer, w.messages)
  BY <1>1, <1>10, CalmPages
<1>26. \A k \in DOMAIN requests' : \A x : x = requests'[k] /\ x.code = "history" /\ x.before # 0 =>
         x.peer \in Peers /\ cursor[x.peer] # 0 /\ Reach(x.peer, x.before, {})
  BY <1>7, <1>9, <1>10, CalmPages
<1>27. Pages'
  BY <1>1, <1>24, <1>25, <1>26, PagesNext
<1> QED
  BY <1>18, <1>22, <1>23, <1>27 DEF NInv

(* one of them, or a page, is received                                     *)
LEMMA HistoryStep ==
  ASSUME TInv, TInv', [Next]_vars, phase # "off", phase' # "off", NInv, RecvHistory
  PROVE  NInv'
<1>f. PICK f : f = Head(channel)
  OBVIOUS
<1>1. /\ channel # <<>> /\ Taken /\ f.code = "history" /\ work' = work
      /\ cursor' = IF phase \in {"histories", "ready"} /\ f.messages # <<>>
                   THEN [cursor EXCEPT ![f.peer] = f.messages[1].id] ELSE cursor
      /\ IF phase = "histories"
         THEN /\ counter' = counter + 1
              /\ IF counter' = Cardinality(Peers)
                 THEN phase' = "groups" /\ Ask(<<[code |-> "groups"]>>)
                 ELSE phase' = phase /\ requests' = requests
         ELSE counter' = counter /\ phase' = phase /\ requests' = requests
  BY <1>f DEF RecvHistory, Reads, server
<1>2. Took(f)
  BY <1>1, <1>f, TakenEffect
<1>3. f.peer \in Peers /\ f.messages \in MessageSeqs
  BY <1>1, <1>2, FrameTypes DEF Took, FrameFits
<1>4. InChannel(1, f.peer) /\ 1 \in DOMAIN channel /\ \A p : InChannel(1, p) => p = f.peer
  BY <1>1, <1>2 DEF Took, InChannel
<1>5. \A n, p : InChannel(n, p)' => n \in Nat \ {0} /\ n + 1 \in DOMAIN channel /\ InChannel(n + 1, p)
  BY <1>2, KindsNext DEF Took, InChannel
<1>6. \A n \in Nat \ {0}, p \in Peers : InChannel(n + 1, p) => InChannel(n, p)' /\ n \in DOMAIN channel'
  BY <1>2 DEF Took, InChannel
<1>7. /\ \A k, p : InRequests(k, p)' <=> InRequests(k, p)
      /\ \A k \in DOMAIN requests' : \A x : x = requests'[k] /\ x.code = "history" => \E j \in DOMAIN requests : requests[j] = x
      /\ phase' = phase => requests' = requests
  <2>1. CASE requests' = requests
    BY <2>1 DEF InRequests
  <2>2. CASE phase = "histories" /\ phase' = "groups" /\ Ask(<<[code |-> "groups"]>>)
    <3> DEFINE r == [code |-> "groups"]
    <3>1. r \in Requests /\ r.code = "groups"
      BY DEF Requests
    <3> HIDE DEF r
    <3>2. Ask(<<r>>)
      BY <2>2 DEF r
    <3>3. /\ requests'[Len(requests) + 1] = r
          /\ \A k \in DOMAIN requests : k \in DOMAIN requests' /\ requests'[k] = requests[k]
          /\ \A k \in DOMAIN requests' : k \in DOMAIN requests \/ k = Len(requests) + 1
      BY <3>1, <3>2, AskEffect
    <3>4. \A k, p : InRequests(k, p)' <=> InRequests(k, p)
      BY <3>1, <3>3 DEF InRequests
    <3>5. \A k \in DOMAIN requests' : \A x : x = requests'[k] /\ x.code = "history" => \E j \in DOMAIN requests : requests[j] = x
      BY <3>1, <3>3
    <3> QED
      BY <2>2, <3>4, <3>5
  <2> QED
    BY <1>1, <2>1, <2>2
<1>8. \A p : InWork(p)' <=> InWork(p)
  BY <1>1 DEF InWork
<1>9. FirstOnes /\ Counted /\ Pages /\ Reached
  BY DEF NInv
<1>10. ASSUME NEW p \in Peers, NEW q \in Peers, Ahead(p, q)' PROVE Ahead(p, q) /\ Awaited(p)'
  <2>1. Awaited(p)'
    BY <1>10 DEF Ahead, Awaited
  <2>2. ASSUME NEW m, NEW n, m < n, InChannel(m, p)', InChannel(n, q)' PROVE Ahead(p, q)
    <3>1. m + 1 \in DOMAIN channel /\ n + 1 \in DOMAIN channel /\ InChannel(m + 1, p) /\ InChannel(n + 1, q) /\ m \in Nat /\ n \in Nat
      BY <1>5, <2>2
    <3>2. m + 1 < n + 1
      BY <2>2, <3>1
    <3> QED
      BY <3>1, <3>2 DEF Ahead
  <2>3. \A n : InChannel(n, p)' => \E m \in DOMAIN channel : InChannel(m, p)
    BY <1>5
  <2>4. \A k : InRequests(k, q)' => k \in DOMAIN requests /\ InRequests(k, q)
    BY <1>7, Kinds
  <2>5. \A k : InRequests(k, p)' => k \in DOMAIN requests /\ InRequests(k, p)
    BY <1>7, Kinds
  <2>6. Ahead(p, q)
    BY <1>8, <1>10, <2>2, <2>3, <2>4, <2>5 DEF Ahead
  <2> QED
    BY <2>1, <2>6
<1>11. ASSUME NEW p \in Peers, Awaited(p)' PROVE Awaited(p) /\ (p = f.peer => Ahead(p, p))
  <2>1. ASSUME NEW n, InChannel(n, p)' PROVE Awaited(p) /\ (p = f.peer => Ahead(p, p))
    <3>1. n + 1 \in DOMAIN channel /\ InChannel(n + 1, p) /\ 1 < n + 1
      BY <1>5, <2>1
    <3> QED
      BY <1>4, <3>1 DEF Awaited, Ahead
  <2>2. CASE InWork(p)'
    BY <1>4, <1>8, <2>2 DEF Awaited, Ahead
  <2>3. ASSUME NEW k, InRequests(k, p)' PROVE Awaited(p) /\ (p = f.peer => Ahead(p, p))
    <3>1. k \in DOMAIN requests /\ InRequests(k, p)
      BY <1>7, <2>3, Kinds
    <3> QED
      BY <1>4, <3>1 DEF Awaited, Ahead
  <2> QED
    BY <1>11, <2>1, <2>2, <2>3 DEF Awaited
<1>12. ASSUME NEW p \in Peers, p # f.peer, Awaited(p) PROVE Awaited(p)' /\ Ahead(f.peer, p)
  <2>1. ASSUME NEW n, InChannel(n, p) PROVE Awaited(p)' /\ Ahead(f.peer, p)
    <3>1. n \in Nat \ {0} /\ n # 1 /\ n \in DOMAIN channel
      BY <1>4, <1>12, <2>1, Kinds
    <3>2. PICK m \in Nat \ {0} : m + 1 = n
      <4>1. n - 1 \in Nat \ {0} /\ (n - 1) + 1 = n
        BY <3>1
      <4> QED
        BY <4>1
    <3>3. Awaited(p)'
      BY <1>6, <2>1, <3>2 DEF Awaited
    <3>4. 1 < n
      BY <3>1
    <3>5. Ahead(f.peer, p)
      BY <1>4, <2>1, <3>1, <3>4 DEF Ahead
    <3> QED
      BY <3>3, <3>5
  <2>2. CASE InWork(p)
    BY <1>4, <1>8, <2>2 DEF Awaited, Ahead
  <2>3. ASSUME NEW k, InRequests(k, p) PROVE Awaited(p)' /\ Ahead(f.peer, p)
    <3>1. k \in DOMAIN requests /\ k \in DOMAIN requests' /\ InRequests(k, p)'
      BY <1>7, <2>3, Kinds, KindsNext
    <3> QED
      BY <1>4, <2>3, <3>1 DEF Awaited, Ahead
  <2> QED
    BY <1>12, <2>1, <2>2, <2>3 DEF Awaited
<1>13. cursor[f.peer] = 0 => ~Awaited(f.peer)'
  BY <1>3, <1>9, <1>11 DEF FirstOnes
<1>14. /\ \A p \in Peers \ {f.peer} : cursor'[p] = cursor[p]
       /\ f.messages # <<>> /\ phase \in {"histories", "ready"} => cursor'[f.peer] = f.messages[1].id /\ cursor'[f.peer] # 0
       /\ f.messages = <<>> \/ phase \notin {"histories", "ready"} => cursor' = cursor
       /\ \A p \in Peers : cursor[p] # 0 => cursor'[p] # 0
  <2>1. cursor \in [Peers -> 0..MaxMessages]
    BY DEF TInv, ClientOK
  <2>2. ASSUME f.messages # <<>> PROVE f.messages[1].id # 0
    <3>1. f.messages[1].id \in Ids
      BY <1>3, <2>2, FirstMessage
    <3> QED
      BY <3>1, MessengerAssumption DEF Ids
  <2> QED
    BY <1>1, <1>3, <2>1, <2>2
<1>15. FirstOnes'
  <2> SUFFICES ASSUME NEW p \in Peers, NEW q \in Peers, cursor'[q] = 0, Ahead(p, q)'
               PROVE  cursor'[p] = 0 /\ p # q
    BY DEF FirstOnes
  <2>1. Ahead(p, q) /\ Awaited(p)' /\ cursor[q] = 0
    BY <1>10, <1>14
  <2>2. cursor[p] = 0 /\ p # q
    BY <1>9, <2>1 DEF FirstOnes
  <2>3. p # f.peer
    BY <1>13, <2>1, <2>2
  <2> QED
    BY <1>14, <2>2, <2>3
<1>16. phase # "users"
  <2>1. Awaited(f.peer)
    BY <1>4 DEF Awaited
  <2> QED
    BY <1>3, <1>9, <2>1 DEF Counted
<1>17. ASSUME NEW p \in Peers, p # f.peer PROVE p \in Due' <=> p \in Due
  BY <1>11, <1>12, <1>14, <1>17 DEF Due
<1>18. f.peer \notin Due' /\ Due' = Due \ {f.peer}
  <2>1. ASSUME f.peer \in Due' PROVE FALSE
    <3>1. cursor'[f.peer] = 0 /\ Awaited(f.peer)'
      BY <2>1 DEF Due
    <3>2. cursor[f.peer] = 0
      BY <1>3, <1>14, <3>1
    <3> QED
      BY <1>13, <3>1, <3>2
  <2>2. \A p : p \in Due' <=> p \in Due \ {f.peer}
    <3>1. Due' \subseteq Peers /\ Due \subseteq Peers
      BY DEF Due
    <3> QED
      BY <1>17, <2>1, <3>1
  <2> QED
    BY <2>1, <2>2
<1>19. Counted'
  <2>1. CASE phase = "histories"
    <3>1. Cardinality(Due) + counter = Cardinality(Peers) /\ counter < Cardinality(Peers) /\ counter \in Nat /\ Cardinality(Peers) \in Nat
      <4>1. Cardinality(Peers) \in Nat
        BY MessengerAssumption, FS_CardinalityType
      <4> QED
        BY <1>9, <2>1, <4>1 DEF Counted, TInv, ClientOK
    <3>2. IsFiniteSet(Due) /\ Cardinality(Due) \in Nat
      <4>1. Due \subseteq Peers
        BY DEF Due
      <4> QED
        BY <4>1, MessengerAssumption, FS_Subset, FS_CardinalityType
    <3>3. f.peer \in Due
      <4>1. Due # {}
        <5>1. Cardinality(Due) # 0
          BY <3>1, <3>2
        <5> QED
          BY <5>1, FS_EmptySet
      <4>2. PICK q \in Due : TRUE
        BY <4>1
      <4>3. q \in Peers /\ cursor[q] = 0 /\ Awaited(q)
        BY <4>2 DEF Due
      <4>4. cursor[f.peer] = 0
        BY <1>3, <1>9, <1>12, <4>3 DEF FirstOnes
      <4> QED
        BY <1>3, <1>4, <4>4 DEF Due, Awaited
    <3>4. Cardinality(Due') = Cardinality(Due) - 1 /\ IsFiniteSet(Due')
      BY <1>18, <3>2, <3>3, FS_RemoveElement
    <3>5. Cardinality(Due') + counter' = Cardinality(Peers)
      BY <1>1, <2>1, <3>1, <3>2, <3>4
    <3>6. CASE counter' = Cardinality(Peers)
      <4>1. phase' = "groups"
        BY <1>1, <2>1, <3>6
      <4>2. Cardinality(Due') = 0
        BY <3>1, <3>2, <3>4, <3>5, <3>6
      <4>3. Due' = {}
        BY <3>4, <4>2, FS_EmptySet
      <4> QED
        BY <4>1, <4>3 DEF Counted
    <3>7. CASE counter' # Cardinality(Peers)
      <4>1. phase' = "histories" /\ requests' = requests
        BY <1>1, <2>1, <3>7
      <4>2. NoGroups
        BY <1>9, <2>1 DEF Counted
      <4>3. NoGroups'
        BY <1>2, <4>1, <4>2 DEF NoGroups, Took
      <4> QED
        BY <3>5, <4>1, <4>3 DEF Counted
    <3> QED
      BY <3>6, <3>7
  <2>2. CASE phase \in {"groups", "ready"}
    <3>1. Due = {} /\ phase' = phase
      BY <1>1, <1>9, <2>2 DEF Counted
    <3>2. Due' = {}
      BY <1>18, <3>1
    <3> QED
      BY <2>2, <3>1, <3>2 DEF Counted
  <2> QED
    BY <1>16, <2>1, <2>2 DEF TInv, ClientOK
<1>20. PageReaches(f.peer, f.messages)
  BY <1>1, <1>2, <1>9, CalmPages DEF Took
<1>21. Reached'
  <2> SUFFICES ASSUME NEW p \in Peers, p \notin Due' PROVE Reach(p, cursor[p], {})'
    BY DEF Reached
  <2>c. PICK c : c = cursor'[p]
    OBVIOUS
  <2>0. SUFFICES Reach(p, c, {})'
    BY <2>c
  <2>1. CASE p # f.peer \/ (cursor' = cursor /\ cursor[p] # 0) \/ (cursor' = cursor /\ p \notin Due)
    <3>1. p \notin Due /\ cursor'[p] = cursor[p]
      BY <1>14, <1>17, <2>1 DEF Due
    <3>2. Reach(p, c, {})
      BY <1>9, <1>16, <2>c, <3>1 DEF Reached
    <3> QED
      BY <3>2, ReachStep
  <2>2. CASE p = f.peer /\ f.messages = <<>> /\ cursor[p] = 0
    <3>1. c = 0 /\ Reach(p, c, {})
      BY <1>14, <1>20, <2>2, <2>c DEF PageReaches
    <3> QED
      BY <3>1, ReachStep
  <2>3. CASE p = f.peer /\ f.messages # <<>> /\ phase \in {"histories", "ready"}
    <3>1. Adds(f)
      BY <1>f, <2>3, ShownGrows
    <3>2. PICK X : X = IdsOf(f.messages)
      OBVIOUS
    <3>3. c = f.messages[1].id /\ Reach(p, c, X)
      BY <1>14, <1>20, <2>3, <2>c, <3>2 DEF PageReaches
    <3>4. Reach(p, c, X)'
      BY <3>3, ReachStep
    <3>5. X \subseteq Shown(p)'
      BY <2>3, <3>1, <3>2 DEF Adds
    <3> QED
      BY <3>4, <3>5 DEF Reach
  <2>4. CASE phase = "groups"
    <3>1. Due = {} /\ cursor' = cursor
      BY <1>9, <1>14, <2>4 DEF Counted
    <3> QED
      BY <2>1, <3>1
  <2> QED
    BY <1>14, <1>16, <2>1, <2>2, <2>3, <2>4 DEF TInv, ClientOK
<1>22. \A n \in DOMAIN channel' : \A x : x = channel'[n] /\ x.code = "history" => x.peer \in Peers /\ PageReaches(x.peer, x.messages)
  BY <1>2, <1>9, CalmPages DEF Took
<1>23. \A w : w = work'[Me] /\ w.step = "history" => w.peer \in Peers /\ PageReaches(w.peer, w.messages)
  BY <1>1, <1>9, CalmPages
<1>24. \A k \in DOMAIN requests' : \A x : x = requests'[k] /\ x.code = "history" /\ x.before # 0 =>
         x.peer \in Peers /\ cursor[x.peer] # 0 /\ Reach(x.peer, x.before, {})
  BY <1>7, <1>9, CalmPages
<1>25. Pages'
  BY <1>14, <1>22, <1>23, <1>24, PagesNext
<1> QED
  BY <1>15, <1>19, <1>21, <1>25 DEF NInv

LEMMA OnlyLogIn ==
  ASSUME [Next]_vars, phase = "off", phase' # "off"
  PROVE  LogIn
<1>1. CASE Next
  <2>1. ASSUME NEW u \in Users,
          \/ (\E v \in Users \ {u} : Insert(u, v)) \/ AddContacts(u) \/ Deliver(u)
          \/ (\E i \in Ids : Update(u, i) \/ Delete(u, i)) \/ Notify(u)
        PROVE  phase' = phase
    BY <2>1 DEF Insert, AddContacts, Deliver, Update, Delete, Notify, client
  <2>2. ASSUME NEW p \in Peers,
          \/ UserSends(p) \/ UserScrollsUp(p)
          \/ \E k \in DOMAIN view[p] : UserChanges(p, k) \/ UserDeletes(p, k)
        PROVE  phase # "off"
    BY <2>2 DEF UserSends, UserScrollsUp, UserChanges, UserDeletes, MayAsk
  <2>3. CASE \/ \E first \in [Peers -> FirstPages] : RecvUsers(first)
             \/ RecvHistory \/ RecvGroups \/ RecvSent \/ RecvMessage \/ RecvChange
    BY <2>3 DEF RecvUsers, RecvHistory, RecvGroups, RecvSent, RecvMessage, RecvChange, Reads
  <2>4. CASE \/ GetUsers \/ GetGroups \/ SendHistory \/ LogOut \/ Restart \/ Quit
             \/ \E p \in Peers, b \in 0..MaxMessages, q \in FirstPages \cup {Page} : GetLastMsgs(p, b, q)
    BY <2>4 DEF GetUsers, GetGroups, SendHistory, LogOut, Restart, Quit, Ended, GetLastMsgs, client
  <2> QED
    BY <1>1, <2>1, <2>2, <2>3, <2>4, Steps
<1>2. CASE UNCHANGED vars
  BY <1>2 DEF vars, client
<1> QED
  BY <1>1, <1>2

LEMMA NInvStep ==
  ASSUME TInv, TInv', NInv, [Next]_vars
  PROVE  NInv'
<1>1. CASE phase' = "off"
  BY <1>1 DEF NInv
<1>2. CASE phase = "off" /\ phase' # "off"
  <2>1. LogIn
    BY <1>2, OnlyLogIn
  <2> QED
    BY <2>1, LogInItems
<1>3. CASE phase # "off" /\ phase' # "off"
  <2>c. CASE Calm
    <3>1. PICK d, e \in {0, 1} : Framed(d) /\ Requested(e)
      BY <2>c DEF Calm
    <3> QED
      BY <1>3, <2>c, <3>1, CalmStep DEF Calm
  <2>1. ASSUME NEW u \in Users,
              \/ (\E v \in Users \ {u} : Insert(u, v)) \/ AddContacts(u) \/ Deliver(u)
              \/ (\E i \in Ids : Update(u, i) \/ Delete(u, i)) \/ Notify(u)
        PROVE  Calm
    BY <1>3, <2>1, CalmThreads
  <2>2. CASE \/ GetUsers \/ GetGroups
             \/ \E p \in Peers :
                  UserSends(p) \/ \E k \in DOMAIN view[p] : UserChanges(p, k) \/ UserDeletes(p, k)
             \/ RecvSent \/ RecvMessage \/ RecvChange
             \/ UNCHANGED vars
    BY <1>3, <2>2, <2>c, CalmOthers
  <2>3. CASE SendHistory \/ RecvHistory \/ RecvGroups
    BY <1>3, <2>3, SendStep, HistoryStep, GroupsStep
  <2>4. CASE \/ \E p \in Peers, b \in 0..MaxMessages, q \in FirstPages \cup {Page} : GetLastMsgs(p, b, q)
             \/ \E p \in Peers : UserScrollsUp(p)
             \/ \E first \in [Peers -> FirstPages] : RecvUsers(first)
    BY <1>3, <2>4, FetchStep, ScrollStep, UsersStep
  <2> QED
    BY <1>3, <2>1, <2>2, <2>3, <2>4, <2>c, RunningSteps
<1> QED
  BY <1>1, <1>2, <1>3

(* The histories are answered in the order in which the client asked for   *)
(* them, the counter counts the first ones, and each answer reaches up to  *)
(* what is shown.                                                          *)
THEOREM NInvAlways == Spec => []NInv
<1>1. Init => NInv
  BY DEF Init, NInv
<1> QED
  BY <1>1, NInvStep, TInvAlways, PTL DEF Spec

LEMMA ComingOnItsWay ==
  ASSUME TInv, NEW p, NEW i, NEW n, Coming(p, i), n = Len(channel)
  PROVE  OnItsWay(p, i, n)
<1>1. DOMAIN channel = 1..n
  BY LenProperties DEF TInv, ChannelOK
<1> QED
  BY <1>1 DEF Coming, Sending, OnItsWay

(* No message of a peer from the oldest shown one on is missing to a       *)
(* client that has loaded its histories: every one is shown or on its way. *)
(* Histories, pages and events leave no gap between them.                  *)
THEOREM NoGap == Spec => []NothingMissing
<1>1. TInv /\ NInv => NothingMissing
  <2> SUFFICES ASSUME TInv, NInv, phase \in {"groups", "ready"}, NEW p \in Peers, NEW i \in Stored,
                      rows[i].from = p, rows[i].to = Me, i >= cursor[p]
               PROVE  i \in Shown(p) \/ OnItsWay(p, i, Len(channel))
    BY DEF NothingMissing
  <2>1. Reach(p, cursor[p], {})
    BY DEF NInv, Counted, Reached
  <2>2. Is(i, p, Me, rows)
    BY DEF Is, Stored
  <2>3. i \in Shown(p) \/ Coming(p, i)
    BY <2>1, <2>2 DEF Reach
  <2> QED
    BY <2>3, ComingOnItsWay
<1> QED
  BY <1>1, TInvAlways, NInvAlways, PTL

(* A change is never read before its message is shown or read: the client  *)
(* does not go down by it.                                                 *)
THEOREM ChangeAfterMessage == Spec => []ChangeFindsMessage
<1>1. TInv /\ OInv /\ NInv => ChangeFindsMessage
  <2> SUFFICES ASSUME TInv, OInv, NInv, phase \in {"groups", "ready"}, NEW n \in DOMAIN channel, NEW f, f = channel[n],
                      f.code = "changed", f.id >= cursor[f.peer], rows[f.id].text # Gone
               PROVE  f.id \in Shown(f.peer) \/ OnItsWay(f.peer, f.id, n - 1)
    BY DEF ChangeFindsMessage
  <2>1. f.peer \in Peers /\ Is(f.id, f.peer, Me, rows)
    BY FrameTypes DEF TInv, ChannelOK, FrameFits
  <2>2. Reach(f.peer, cursor[f.peer], {}) /\ f.id \in Stored
    BY <2>1 DEF NInv, Counted, Reached, Stored, Is
  <2>3. CASE f.id \in Shown(f.peer) \/ Sending(f.peer, f.id)
    BY <2>3 DEF Sending, OnItsWay
  <2>4. ASSUME NEW m \in DOMAIN channel, channel[m].code = "message", channel[m].id = f.id
        PROVE  OnItsWay(f.peer, f.id, n - 1)
    <3>1. m < n
      <4>1. About(channel[m], f.id) /\ channel[m].code = "message" /\ Change(channel[n], f.id) /\ f.id \in DOMAIN rows
        BY <2>1, <2>4 DEF About, Change, Is
      <4> QED
        BY <4>1 DEF OInv, MessageFirst
    <3>2. m \in 1..n-1
      <4>1. DOMAIN channel = 1..Len(channel) /\ Len(channel) \in Nat
        BY LenProperties DEF TInv, ChannelOK
      <4> QED
        BY <3>1, <4>1
    <3> QED
      BY <2>4, <3>2 DEF OnItsWay
  <2> QED
    BY <2>1, <2>2, <2>3, <2>4 DEF Reach, Coming
<1> QED
  BY <1>1, TInvAlways, OInvAlways, NInvAlways, PTL

-----------------------------------------------------------------------------
(* What is shown is as it is stored                                        *)

(* the text is the stored one, or a change is still to come                *)
Fresh(i, text) ==
  \/ text = rows[i].text
  \/ BeingTold(i)
  \/ \E m \in DOMAIN channel : Change(channel[m], i)

Twice(p, k) == \E j \in DOMAIN view[p] : j # k /\ view[p][j].id = view[p][k].id

PageFresh(p, ms) ==
  \A k \in DOMAIN ms : rows[ms[k].id].from = p => Fresh(ms[k].id, ms[k].text) \/ ms[k].id \in Shown(p)

PagesFresh ==
  /\ \A n \in DOMAIN channel : channel[n].code = "history" => PageFresh(channel[n].peer, channel[n].messages)
  /\ work[Me].step = "history" => PageFresh(work[Me].peer, work[Me].messages)

ViewFresh ==
  \A p \in Peers : \A k \in Live(p) :
    rows[view[p][k].id].from = p => Fresh(view[p][k].id, view[p][k].text) \/ Twice(p, k)

SInv == phase # "off" => PagesFresh /\ (~Dangling => ViewFresh)

(* what is shown already, from the place a on, and the messages ms, from   *)
(* the place b on                                                          *)
Placed(p, ms, by, a, b) ==
  /\ a \in Nat /\ b \in Nat
  /\ \A k \in DOMAIN view[p] :
       /\ a + k \in DOMAIN view'[p] /\ view'[p][a + k].id = view[p][k].id
       /\ view'[p][a + k].text = view[p][k].text /\ view'[p][a + k].by = view[p][k].by
       /\ view'[p][a + k].live => view[p][k].live /\ view[p][k].id \notin IdsOf(ms)
  /\ \A j \in DOMAIN ms :
       b + j \in DOMAIN view'[p] /\ view'[p][b + j] = [id |-> ms[j].id, text |-> ms[j].text, by |-> by, live |-> TRUE]
  /\ \A k \in DOMAIN view'[p] : (\E j \in DOMAIN view[p] : k = a + j) \/ (\E j \in DOMAIN ms : k = b + j)
  /\ \A j \in DOMAIN view[p], i \in DOMAIN ms : a + j # b + i
  /\ \A q \in Peers \ {p} : view'[q] = view[q]

LEMMA SupersededEntries ==
  ASSUME NEW s \in Seq(ShownEntries), NEW ids, NEW t, t = Superseded(s, ids), NEW k \in DOMAIN s
  PROVE  t[k].id = s[k].id /\ t[k].text = s[k].text /\ t[k].by = s[k].by /\ (t[k].live => s[k].live /\ s[k].id \notin ids)
<1>1. t = [j \in DOMAIN s |-> IF s[j].id \in ids THEN [s[j] EXCEPT !.live = FALSE] ELSE s[j]]
  BY DEF Superseded
<1>2. s[k] \in ShownEntries
  BY LenProperties, ElementOfSeq
<1>3. t[k] = IF s[k].id \in ids THEN [s[k] EXCEPT !.live = FALSE] ELSE s[k]
  BY <1>1
<1> QED
  BY <1>2, <1>3 DEF ShownEntries

LEMMA Placing ==
  ASSUME ViewOK, rows' = rows, NEW p \in Peers, NEW ms, Showable(ms, p, rows), NEW by \in {"list", "event"},
         NEW below \in BOOLEAN, IF below THEN Below(p, ms, by) ELSE by = "list" /\ Above(p, ms)
  PROVE  \E a, b : /\ Placed(p, ms, by, a, b)
                   /\ IF below THEN a = 0 /\ (\A k \in DOMAIN view[p] : k <= b) ELSE b = 0 /\ (\A j \in DOMAIN ms : j <= a)
<1> DEFINE s == Superseded(view[p], IdsOf(ms))
           e == Entries(ms, by)
           c == IF below THEN s \o e ELSE e \o s
<1>0. view[p] \in Seq(ShownEntries) /\ AllAmong(view[p], p, rows) /\ view \in [Peers -> Seq(ShownEntries)]
  BY DEF ViewOK
<1>1. SameIds(view[p], s)
  BY <1>0, SupersededOK
<1>2. \A k \in DOMAIN view[p] :
        /\ s[k].id = view[p][k].id /\ s[k].text = view[p][k].text /\ s[k].by = view[p][k].by
        /\ s[k].live => view[p][k].live /\ view[p][k].id \notin IdsOf(ms)
  BY <1>0, SupersededEntries
<1>3. /\ e \in Seq(ShownEntries) /\ DOMAIN e = DOMAIN ms /\ AllAmong(e, p, rows)
      /\ \A j \in DOMAIN ms : e[j] = [id |-> ms[j].id, text |-> ms[j].text, by |-> by, live |-> TRUE]
  BY EntriesOK
<1>4. view' = [view EXCEPT ![p] = c]
  BY DEF Below, Above
<1> HIDE DEF s, e
<1>5. s \in Seq(ShownEntries) /\ DOMAIN s = DOMAIN view[p] /\ AllAmong(s, p, rows)
  BY <1>0, <1>1 DEF SameIds, AllAmong
<1>6. view'[p] = c /\ \A q \in Peers \ {p} : view'[q] = view[q]
  BY <1>0, <1>4
<1>p. ASSUME NEW a \in Nat, NEW b \in Nat,
             \A k \in DOMAIN view[p] : a + k \in DOMAIN c /\ c[a + k] = s[k],
             \A j \in DOMAIN ms : b + j \in DOMAIN c /\ c[b + j] = e[j],
             \A k \in DOMAIN c : (\E j \in DOMAIN view[p] : k = a + j) \/ (\E j \in DOMAIN ms : k = b + j),
             \A j \in DOMAIN view[p], i \in DOMAIN ms : a + j # b + i
      PROVE  Placed(p, ms, by, a, b)
  <2> HIDE DEF c
  <2>1. \A k \in DOMAIN view[p] :
          /\ a + k \in DOMAIN view'[p] /\ view'[p][a + k].id = view[p][k].id
          /\ view'[p][a + k].text = view[p][k].text /\ view'[p][a + k].by = view[p][k].by
          /\ view'[p][a + k].live => view[p][k].live /\ view[p][k].id \notin IdsOf(ms)
    BY <1>2, <1>6, <1>p
  <2>2. \A j \in DOMAIN ms :
          b + j \in DOMAIN view'[p] /\ view'[p][b + j] = [id |-> ms[j].id, text |-> ms[j].text, by |-> by, live |-> TRUE]
    BY <1>3, <1>6, <1>p
  <2> QED
    BY <1>6, <1>p, <2>1, <2>2 DEF Placed
<1>7. CASE below
  <2>1. c = s \o e
    BY <1>7
  <2> DEFINE L == Len(s)
             N == Len(e)
  <2> HIDE DEF c
  <2>2. /\ L \in Nat /\ N \in Nat /\ DOMAIN s = 1..L /\ DOMAIN e = 1..N
        /\ \A k \in DOMAIN s : k \in DOMAIN c /\ c[k] = s[k]
        /\ \A k \in DOMAIN e : L + k \in DOMAIN c /\ c[L + k] = e[k]
        /\ \A k \in DOMAIN c : k \in DOMAIN s \/ k - L \in DOMAIN e
        /\ DOMAIN c = 1..(L + N)
    BY <1>3, <1>5, <2>1, Joined
  <2>L. \A k \in DOMAIN view[p] : k <= L
    BY <1>5, <2>2
  <2> HIDE DEF L, N
  <2>3. \A k \in DOMAIN view[p] : 0 + k \in DOMAIN c /\ c[0 + k] = s[k]
    <3>1. \A k \in DOMAIN view[p] : 0 + k = k
      BY <1>5, <2>2
    <3> QED
      BY <1>5, <2>2, <3>1
  <2>4. \A j \in DOMAIN ms : L + j \in DOMAIN c /\ c[L + j] = e[j]
    BY <1>3, <2>2
  <2>5. \A k \in DOMAIN c : (\E j \in DOMAIN view[p] : k = 0 + j) \/ (\E j \in DOMAIN ms : k = L + j)
    <3> SUFFICES ASSUME NEW k \in DOMAIN c, k \notin DOMAIN view[p] PROVE \E j \in DOMAIN ms : k = L + j
      <4>1. \A k \in DOMAIN view[p] : k = 0 + k
        BY <1>5, <2>2
      <4> QED
        BY <4>1
    <3>1. k - L \in DOMAIN ms /\ k = L + (k - L)
      BY <1>3, <1>5, <2>2
    <3> QED
      BY <3>1
  <2>6. \A j \in DOMAIN view[p], i \in DOMAIN ms : 0 + j # L + i
    BY <1>3, <1>5, <2>2
  <2>7. Placed(p, ms, by, 0, L)
    BY <1>p, <2>2, <2>3, <2>4, <2>5, <2>6
  <2> QED
    BY <1>7, <2>7, <2>L
<1>8. CASE ~below
  <2>1. c = e \o s /\ by = "list"
    BY <1>8
  <2> DEFINE L == Len(s)
             N == Len(e)
  <2> HIDE DEF c
  <2>2. /\ L \in Nat /\ N \in Nat /\ DOMAIN s = 1..L /\ DOMAIN e = 1..N
        /\ \A k \in DOMAIN e : k \in DOMAIN c /\ c[k] = e[k]
        /\ \A k \in DOMAIN s : N + k \in DOMAIN c /\ c[N + k] = s[k]
        /\ \A k \in DOMAIN c : k \in DOMAIN e \/ k - N \in DOMAIN s
        /\ DOMAIN c = 1..(N + L)
    BY <1>3, <1>5, <2>1, Joined
  <2>L. \A j \in DOMAIN ms : j <= N
    BY <1>3, <2>2
  <2> HIDE DEF L, N
  <2>3. \A k \in DOMAIN view[p] : N + k \in DOMAIN c /\ c[N + k] = s[k]
    BY <1>5, <2>2
  <2>4. \A j \in DOMAIN ms : 0 + j \in DOMAIN c /\ c[0 + j] = e[j]
    <3>1. \A k \in DOMAIN ms : 0 + k = k
      BY <1>3, <2>2
    <3> QED
      BY <1>3, <2>2, <3>1
  <2>5. \A k \in DOMAIN c : (\E j \in DOMAIN view[p] : k = N + j) \/ (\E j \in DOMAIN ms : k = 0 + j)
    <3> SUFFICES ASSUME NEW k \in DOMAIN c, k \notin DOMAIN ms PROVE \E j \in DOMAIN view[p] : k = N + j
      <4>1. \A k \in DOMAIN ms : k = 0 + k
        BY <1>3, <2>2
      <4> QED
        BY <4>1
    <3>1. k - N \in DOMAIN view[p] /\ k = N + (k - N)
      BY <1>3, <1>5, <2>2
    <3> QED
      BY <3>1
  <2>6. \A j \in DOMAIN view[p], i \in DOMAIN ms : N + j # 0 + i
    BY <1>3, <1>5, <2>2
  <2>7. Placed(p, ms, by, N, 0)
    BY <1>p, <2>2, <2>3, <2>4, <2>5, <2>6
  <2> QED
    BY <1>8, <2>7, <2>L
<1> QED
  BY <1>7, <1>8

(* What is shown twice goes on being shown twice.                          *)
LEMMA TwicePlaced ==
  ASSUME ViewOK, NEW p \in Peers, NEW ms, NEW by, NEW a, NEW b, Placed(p, ms, by, a, b)
  PROVE  /\ \A k \in DOMAIN view[p] : \A m : m = a + k /\ Twice(p, k) => Twice(p, m)'
         /\ \A j \in DOMAIN ms : \A m : m = b + j /\ ms[j].id \in Shown(p) => Twice(p, m)'
<1>1. ASSUME NEW k \in DOMAIN view[p], NEW m, m = a + k, Twice(p, k) PROVE Twice(p, m)'
  <2>1. PICK j \in DOMAIN view[p] : j # k /\ view[p][j].id = view[p][k].id
    BY <1>1 DEF Twice
  <2>2. PICK x : x = a + j
    OBVIOUS
  <2>3. x \in DOMAIN view'[p] /\ view'[p][x].id = view'[p][m].id
    BY <1>1, <2>1, <2>2 DEF Placed
  <2>4. x # m
    <3>1. a \in Nat /\ DOMAIN view[p] \subseteq Int
      BY LenProperties DEF Placed, ViewOK
    <3> QED
      BY <1>1, <2>1, <2>2, <3>1
  <2> QED
    BY <2>3, <2>4 DEF Twice
<1>2. ASSUME NEW j \in DOMAIN ms, NEW m, m = b + j, ms[j].id \in Shown(p) PROVE Twice(p, m)'
  <2>1. PICK k \in DOMAIN view[p] : view[p][k].id = ms[j].id
    BY <1>2 DEF Shown
  <2>2. PICK x : x = a + k
    OBVIOUS
  <2>3. x \in DOMAIN view'[p] /\ view'[p][x].id = ms[j].id /\ x # m
    BY <1>2, <2>1, <2>2 DEF Placed
  <2>4. view'[p][m].id = ms[j].id
    <3>1. view'[p][m] = [id |-> ms[j].id, text |-> ms[j].text, by |-> by, live |-> TRUE]
      BY <1>2 DEF Placed
    <3> QED
      BY <3>1
  <2> QED
    BY <2>3, <2>4 DEF Twice
<1> QED
  BY <1>1, <1>2

(* what happens to the channel while the client runs                       *)
LEMMA ChannelMoves ==
  ASSUME TInv, [Next]_vars, phase # "off", phase' # "off"
  PROVE  \/ channel' = channel
         \/ \E f : Put(f)
         \/ /\ Took(Head(channel)) /\ work' = work /\ rows' = rows
            /\ RecvChange \/ Head(channel).code \notin {"changed", "deleted"}
<1>1. ASSUME NEW u \in Users,
              \/ (\E v \in Users \ {u} : Insert(u, v)) \/ AddContacts(u) \/ Deliver(u)
              \/ (\E i \in Ids : Update(u, i) \/ Delete(u, i)) \/ Notify(u)
      PROVE  channel' = channel \/ (\E f : Put(f))
  <2>1. CASE (\E v \in Users \ {u} : Insert(u, v)) \/ AddContacts(u) \/ (\E i \in Ids : Update(u, i) \/ Delete(u, i))
    BY <2>1 DEF Insert, AddContacts, Update, Delete
  <2>2. CASE Deliver(u)
    BY <2>2, DeliverEffect
  <2>3. CASE Notify(u)
    BY <2>3, NotifyEffect
  <2> QED
    BY <1>1, <2>1, <2>2, <2>3
<1>2. CASE GetUsers \/ GetGroups
  <2>1. \A c \in {"users", "error", "groups"} : [code |-> c] \in Frames
    BY DEF Frames
  <2>2. \E c \in {"users", "error", "groups"} : Write([code |-> c])
    BY <1>2 DEF GetUsers, GetGroups
  <2> QED
    BY <2>1, <2>2, WriteEffect
<1>3. CASE SendHistory
  <2> DEFINE f == [code |-> "history", peer |-> work[Me].peer, messages |-> work[Me].messages]
  <2>1. work[Me].step = "history" /\ Write(f)
    BY <1>3 DEF SendHistory
  <2>2. f \in Frames
    BY <2>1, WorkTypes, Apart DEF TInv, WorkOK, WorkFits, Frames
  <2> HIDE DEF f
  <2> QED
    BY <2>1, <2>2, WriteEffect
<1>4. CASE \/ \E p \in Peers, b \in 0..MaxMessages, q \in FirstPages \cup {Page} : GetLastMsgs(p, b, q)
           \/ \E p \in Peers :
                \/ UserSends(p) \/ UserScrollsUp(p)
                \/ \E k \in DOMAIN view[p] : UserChanges(p, k) \/ UserDeletes(p, k)
           \/ UNCHANGED vars
  BY <1>4 DEF GetLastMsgs, UserSends, UserScrollsUp, UserChanges, UserDeletes, vars
<1>5. CASE \/ \E first \in [Peers -> FirstPages] : RecvUsers(first)
           \/ RecvHistory \/ RecvGroups \/ RecvSent \/ RecvMessage \/ RecvChange
  <2>1. channel # <<>> /\ Taken /\ work' = work /\ rows' = rows /\ (RecvChange \/ Head(channel).code \notin {"changed", "deleted"})
    BY <1>5 DEF RecvUsers, RecvHistory, RecvGroups, RecvSent, RecvMessage, RecvChange, server, Reads
  <2> QED
    BY <2>1, TakenEffect
<1> QED
  BY <1>1, <1>2, <1>3, <1>4, <1>5, RunningSteps

(* A change that is to come is written, and then read.                     *)
LEMMA ToCome ==
  ASSUME TInv, [Next]_vars, phase # "off", phase' # "off", NEW i,
         BeingTold(i) \/ \E m \in DOMAIN channel : Change(channel[m], i)
  PROVE  \/ BeingTold(i)'
         \/ \E m \in DOMAIN channel' : Change(channel'[m], i)
         \/ RecvChange /\ Head(channel).id = i
<1>w. ASSUME NEW f, Put(f), Change(f, i) PROVE \E m \in DOMAIN channel' : Change(channel'[m], i)
  <2>1. Len(channel) + 1 \in DOMAIN channel' /\ channel'[Len(channel) + 1] = f
    BY <1>w DEF Put
  <2> QED
    BY <1>w, <2>1
<1>1. ASSUME NEW m \in DOMAIN channel, Change(channel[m], i)
      PROVE  (\E n \in DOMAIN channel' : Change(channel'[n], i)) \/ (RecvChange /\ Head(channel).id = i)
  <2>1. CASE channel' = channel
    BY <1>1, <2>1
  <2>2. ASSUME NEW f, Put(f) PROVE \E n \in DOMAIN channel' : Change(channel'[n], i)
    <3>1. m \in DOMAIN channel' /\ channel'[m] = channel[m]
      BY <2>2 DEF Put
    <3> QED
      BY <1>1, <3>1
  <2>3. CASE Took(Head(channel)) /\ (RecvChange \/ Head(channel).code \notin {"changed", "deleted"})
    <3>1. CASE m = 1
      <4>1. Head(channel) = channel[m]
        BY <2>3, <3>1 DEF Took
      <4> QED
        BY <1>1, <2>3, <4>1 DEF Change
    <3>2. CASE m # 1
      <4>1. m - 1 \in DOMAIN channel' /\ channel'[m - 1] = channel[(m - 1) + 1] /\ (m - 1) + 1 = m
        BY <2>3, <3>2 DEF Took
      <4> QED
        BY <1>1, <4>1
    <3> QED
      BY <3>1, <3>2
  <2> QED
    BY <2>1, <2>2, <2>3, ChannelMoves
<1>2. ASSUME NEW x \in Users, Telling(x, i)
      PROVE  BeingTold(i)' \/ \E m \in DOMAIN channel' : Change(channel'[m], i)
  <2>k. ASSUME work'[x] = work[x] PROVE BeingTold(i)'
    BY <1>2, <2>k DEF Telling, BeingTold
  <2>1. ASSUME NEW u \in Users,
              \/ (\E v \in Users \ {u} : Insert(u, v)) \/ AddContacts(u) \/ Deliver(u)
              \/ (\E j \in Ids : Update(u, j) \/ Delete(u, j)) \/ Notify(u)
        PROVE  BeingTold(i)' \/ \E m \in DOMAIN channel' : Change(channel'[m], i)
    <3>1. CASE u # x
      <4>1. work' = work \/ Others(u)
        <5>1. CASE (\E v \in Users \ {u} : Insert(u, v))
          BY <5>1, InsertEffect DEF Inserts
        <5>2. CASE AddContacts(u)
          BY <5>2, ThenEffect DEF AddContacts, Then, TInv
        <5>3. CASE Deliver(u) \/ Notify(u)
          BY <5>3, DeliverEffect, NotifyEffect
        <5>4. CASE \E j \in Ids : Update(u, j) \/ Delete(u, j)
          BY <5>4, ChangeEffect DEF Changes
        <5> QED
          BY <2>1, <5>1, <5>2, <5>3, <5>4
      <4> QED
        BY <2>k, <3>1, <4>1 DEF Others
    <3>2. CASE u = x
      <4>1. work[u].step = "notify" /\ work[u].id = i
        BY <1>2, <3>2 DEF Telling
      <4>2. Notify(u)
        BY <2>1, <4>1 DEF Insert, AddContacts, Deliver, Update, Delete, Read, Idle
      <4>3. \E f : Put(f) /\ Change(f, i)
        BY <4>1, <4>2, NotifyEffect
      <4> QED
        BY <1>w, <4>3
    <3> QED
      BY <3>1, <3>2
  <2>2. CASE SendHistory \/ \E p \in Peers, b \in 0..MaxMessages, q \in FirstPages \cup {Page} : GetLastMsgs(p, b, q)
    <3>1. work[Me].step # "notify" /\ \E w : work' = [work EXCEPT ![Me] = w]
      BY <2>2 DEF SendHistory, GetLastMsgs, Then, Read, Idle
    <3>2. x # Me /\ work'[x] = work[x]
      BY <1>2, <3>1 DEF Telling, TInv, WorkOK
    <3> QED
      BY <2>k, <3>2
  <2>3. CASE \/ GetUsers \/ GetGroups
             \/ \E p \in Peers :
                  \/ UserSends(p) \/ UserScrollsUp(p)
                  \/ \E k \in DOMAIN view[p] : UserChanges(p, k) \/ UserDeletes(p, k)
             \/ \E first \in [Peers -> FirstPages] : RecvUsers(first)
             \/ RecvHistory \/ RecvGroups \/ RecvSent \/ RecvMessage \/ RecvChange
             \/ UNCHANGED vars
    <3>1. work' = work
      BY <2>3 DEF GetUsers, GetGroups, UserSends, UserScrollsUp, UserChanges, UserDeletes, RecvUsers,
                  RecvHistory, RecvGroups, RecvSent, RecvMessage, RecvChange, vars, server
    <3> QED
      BY <2>k, <3>1
  <2> QED
    BY <2>1, <2>2, <2>3, RunningSteps
<1> QED
  BY <1>1, <1>2 DEF BeingTold

LEMMA FreshStep ==
  ASSUME TInv, [Next]_vars, phase # "off", phase' # "off",
         NEW p \in Peers, NEW i, Is(i, p, Me, rows), NEW text, Fresh(i, text)
  PROVE  Fresh(i, text)' \/ (RecvChange /\ Head(channel).id = i)
<1>1. CASE BeingTold(i) \/ \E m \in DOMAIN channel : Change(channel[m], i)
  BY <1>1, ToCome DEF Fresh
<1>2. CASE text = rows[i].text
  <2>1. ASSUME rows'[i] = rows[i] PROVE Fresh(i, text)'
    BY <1>2, <2>1 DEF Fresh
  <2>2. ASSUME NEW u \in Users, NEW v \in Users \ {u}, Insert(u, v) PROVE rows'[i] = rows[i]
    BY <2>2, InsertEffect DEF Inserts, Is
  <2>3. ASSUME NEW u \in Users, NEW j \in Ids, Update(u, j) \/ Delete(u, j) PROVE Fresh(i, text)'
    <3>1. CASE rows' = rows
      BY <2>1, <3>1
    <3>2. ASSUME NEW t, Changes(u, j, t) PROVE Fresh(i, text)'
      <4>1. CASE i # j
        BY <2>1, <3>2, <4>1 DEF Changes, Is
      <4>2. CASE i = j
        <5>1. work'[u] = [step |-> "notify", id |-> i, text |-> t]
          BY <3>2, <4>2 DEF Changes, Notifying, Is
        <5>2. BeingTold(i)'
          BY <5>1 DEF BeingTold, Telling
        <5> QED
          BY <5>2 DEF Fresh
      <4> QED
        BY <4>1, <4>2
    <3> QED
      BY <2>3, <3>1, <3>2, ChangeEffect
  <2>4. ASSUME NEW u \in Users, AddContacts(u) \/ Deliver(u) \/ Notify(u) PROVE rows'[i] = rows[i]
    BY <2>4 DEF AddContacts, Deliver, Notify
  <2>5. CASE Restart \/ Quiet
    BY <2>1, <2>5 DEF Restart, Quiet
  <2> QED
    BY <2>1, <2>2, <2>3, <2>4, <2>5, OtherSteps
<1> QED
  BY <1>1, <1>2 DEF Fresh

(* a page goes on saying what is stored, or what is corrected later        *)
LEMMA PageFreshStep ==
  ASSUME TInv, [Next]_vars, phase # "off", phase' # "off",
         NEW p \in Peers, NEW ms, AllAmong(ms, p, rows), PageFresh(p, ms)
  PROVE  PageFresh(p, ms)'
<1> SUFFICES ASSUME NEW k \in DOMAIN ms, NEW i, i = ms[k].id, NEW t, t = ms[k].text, rows'[i].from = p
             PROVE  Fresh(i, t)' \/ i \in Shown(p)'
  BY DEF PageFresh
<1>1. Among(i, p, rows)
  BY DEF AllAmong
<1>2. Is(i, p, Me, rows)
  <2>1. rows'[i].from = rows[i].from
    BY <1>1, RowsStep DEF TInv, Grows, Among, Is
  <2> QED
    BY <1>1, <2>1, MessengerAssumption DEF Among, Is
<1>3. Fresh(i, t) \/ i \in Shown(p)
  BY <1>2 DEF PageFresh, Is
<1>4. ASSUME RecvChange, Head(channel).id = i PROVE i \in Shown(p)
  <2>1. PICK f : f = Head(channel)
    OBVIOUS
  <2>2. f.id = i /\ f.code \in {"changed", "deleted"} /\ ~Unexpected(f) /\ channel # <<>>
    BY <1>4, <2>1 DEF RecvChange, Reads
  <2>3. FrameFits(f, rows)
    BY <2>1, <2>2, FirstFrame DEF TInv
  <2>4. f.peer = p
    BY <1>2, <2>2, <2>3 DEF FrameFits, Is
  <2> QED
    BY <2>2, <2>4 DEF Unexpected, Known, Shown
<1> QED
  BY <1>2, <1>3, <1>4, FreshStep, ShownGrows

(* what has just been read *)
LEMMA ReadFresh ==
  ASSUME TInv, NEW p \in Peers, NEW b, NEW q, NEW s, s = LastMessages(Me, p, b, q)
  PROVE  AllAmong(s, p, rows) /\ PageFresh(p, s)
<1> DEFINE fit == {i \in Conversation(Me, p) \cap Stored : b = 0 \/ i < b}
           S == {i \in fit : Cardinality({j \in fit : j > i}) < q}
<1>1. s = InOrderOfIds(S)
  BY DEF LastMessages
<1>2. S \in SUBSET (Conversation(Me, p) \cap Stored)
  OBVIOUS
<1> HIDE DEF S
<1>3. AllAmong(s, p, rows) /\ \A k \in DOMAIN s : s[k].text = rows[s[k].id].text
  <2>1. RowsOK
    BY DEF TInv
  <2> QED
    BY <1>1, <1>2, <2>1, PageFits
<1> QED
  BY <1>3 DEF PageFresh, Fresh

LEMMA PagesFreshStep ==
  ASSUME TInv, [Next]_vars, phase # "off", phase' # "off", PagesFresh
  PROVE  PagesFresh'
<1>a. \A n \in DOMAIN channel : channel[n].code = "history" =>
        channel[n].peer \in Peers /\ AllAmong(channel[n].messages, channel[n].peer, rows) /\ PageFresh(channel[n].peer, channel[n].messages)
  <2>1. \A n \in DOMAIN channel : FrameFits(channel[n], rows)
    BY DEF TInv, ChannelOK
  <2> QED
    BY <2>1, FrameTypes DEF FrameFits, PagesFresh
<1>b. work[Me].step = "history" =>
        work[Me].peer \in Peers /\ AllAmong(work[Me].messages, work[Me].peer, rows) /\ PageFresh(work[Me].peer, work[Me].messages)
  BY WorkTypes, Apart DEF TInv, WorkOK, WorkFits, PagesFresh
<1>c. ASSUME \A n \in DOMAIN channel' : \A f : f = channel'[n] /\ f.code = "history" =>
               f.peer \in Peers /\ AllAmong(f.messages, f.peer, rows) /\ PageFresh(f.peer, f.messages),
             \A w : w = work'[Me] /\ w.step = "history" =>
               w.peer \in Peers /\ AllAmong(w.messages, w.peer, rows) /\ PageFresh(w.peer, w.messages)
      PROVE  PagesFresh'
  <2>1. ASSUME NEW n \in DOMAIN channel', channel'[n].code = "history" PROVE PageFresh(channel[n].peer, channel[n].messages)'
    <3>1. PICK f : f = channel'[n]
      OBVIOUS
    <3>2. PageFresh(f.peer, f.messages)'
      BY <1>c, <2>1, <3>1, PageFreshStep
    <3> QED
      BY <3>1, <3>2
  <2>2. ASSUME work'[Me].step = "history" PROVE PageFresh(work[Me].peer, work[Me].messages)'
    <3>1. PICK w : w = work'[Me]
      OBVIOUS
    <3>2. PageFresh(w.peer, w.messages)'
      BY <1>c, <2>2, <3>1, PageFreshStep
    <3> QED
      BY <3>1, <3>2
  <2> QED
    BY <2>1, <2>2 DEF PagesFresh
<1>d. CASE Calm
  <2>1. \A n \in DOMAIN channel' : \A f : f = channel'[n] /\ f.code = "history" => \E m \in DOMAIN channel : channel[m] = f
    BY <1>d DEF Calm, Framed
  <2>2. work'[Me].step = "history" => work'[Me] = work[Me]
    BY <1>d DEF Calm, Worked
  <2> QED
    BY <1>a, <1>b, <1>c, <2>1, <2>2
<1>1. CASE SendHistory
  <2>1. /\ work[Me].step = "history" /\ Write([code |-> "history", peer |-> work[Me].peer, messages |-> work[Me].messages])
        /\ work' = [work EXCEPT ![Me] = NoWork]
    BY <1>1 DEF SendHistory, Then
  <2>2. PICK f : f = [code |-> "history", peer |-> work[Me].peer, messages |-> work[Me].messages]
    OBVIOUS
  <2>3. f.peer = work[Me].peer /\ f.messages = work[Me].messages
    BY <2>2
  <2>4. f \in Frames
    BY <2>1, <2>2, WorkTypes, Apart DEF TInv, WorkOK, WorkFits, Frames
  <2>5. Put(f)
    BY <2>1, <2>2, <2>4, WriteEffect
  <2>6. work'[Me].step = "idle"
    BY <2>1, Apart DEF TInv, WorkOK, NoWork
  <2>7. \A n \in DOMAIN channel' : (n \in DOMAIN channel /\ channel'[n] = channel[n]) \/ channel'[n] = f
    BY <2>5, PutPlaces
  <2> QED
    BY <1>a, <1>b, <1>c, <2>1, <2>3, <2>6, <2>7
<1>2. ASSUME NEW p \in Peers, NEW b, NEW q, GetLastMsgs(p, b, q) PROVE PagesFresh'
  <2>1. PICK s : s = LastMessages(Me, p, b, q)
    OBVIOUS
  <2>2. channel' = channel /\ work' = [work EXCEPT ![Me] = [step |-> "history", peer |-> p, messages |-> s]]
    BY <1>2, <2>1 DEF GetLastMsgs, Then
  <2>3. work'[Me].peer = p /\ work'[Me].messages = s
    BY <2>2, Apart DEF TInv, WorkOK
  <2>4. AllAmong(s, p, rows) /\ PageFresh(p, s)
    BY <2>1, ReadFresh
  <2> QED
    BY <1>a, <1>c, <2>2, <2>3, <2>4
<1>3. CASE \E p \in Peers : UserScrollsUp(p)
  <2>1. channel' = channel /\ work' = work
    BY <1>3 DEF UserScrollsUp, server
  <2> QED
    BY <1>a, <1>b, <1>c, <2>1
<1>4. CASE (\E first \in [Peers -> FirstPages] : RecvUsers(first)) \/ RecvHistory \/ RecvGroups
  <2>1. channel # <<>> /\ Taken /\ work' = work
    BY <1>4 DEF RecvUsers, RecvHistory, RecvGroups, Reads, server
  <2>2. \A n \in DOMAIN channel' : n + 1 \in DOMAIN channel /\ channel'[n] = channel[n + 1]
    BY <2>1, TakenEffect DEF Took
  <2> QED
    BY <1>a, <1>b, <1>c, <2>1, <2>2
<1>5. CASE \/ GetUsers \/ GetGroups
           \/ \E p \in Peers :
                UserSends(p) \/ \E k \in DOMAIN view[p] : UserChanges(p, k) \/ UserDeletes(p, k)
           \/ RecvSent \/ RecvMessage \/ RecvChange
           \/ UNCHANGED vars
  BY <1>5, <1>d, CalmOthers
<1>6. ASSUME NEW u \in Users,
            \/ (\E v \in Users \ {u} : Insert(u, v)) \/ AddContacts(u) \/ Deliver(u)
            \/ (\E i \in Ids : Update(u, i) \/ Delete(u, i)) \/ Notify(u)
      PROVE  PagesFresh'
  BY <1>6, <1>d, CalmThreads
<1> QED
  BY <1>1, <1>2, <1>3, <1>4, <1>5, <1>6, RunningSteps

(* the event that is read is right, or is corrected by a later one         *)
LEMMA HeadFresh ==
  ASSUME TInv, OInv, NEW f, Took(f), NEW i \in DOMAIN rows, About(f, i), rows' = rows, work' = work, NEW t, t = f.text
  PROVE  Fresh(i, t)'
<1>1. 1 \in DOMAIN channel /\ channel[1] = f
  BY DEF Took
<1>2. t = rows[i].text \/ BeingTold(i) \/ ToldAfter(i, 1)
  BY <1>1 DEF OInv, Corrected
<1>3. CASE t = rows[i].text
  BY <1>3 DEF Fresh
<1>4. CASE BeingTold(i)
  <2>1. BeingTold(i)'
    BY <1>4 DEF BeingTold, Telling
  <2> QED
    BY <2>1 DEF Fresh
<1>5. CASE ToldAfter(i, 1)
  <2>1. PICK m \in DOMAIN channel : 1 < m /\ Change(channel[m], i)
    BY <1>5 DEF ToldAfter
  <2>2. m - 1 \in DOMAIN channel' /\ channel'[m - 1] = channel[(m - 1) + 1] /\ (m - 1) + 1 = m
    BY <2>1 DEF Took
  <2> QED
    BY <2>1, <2>2 DEF Fresh
<1> QED
  BY <1>2, <1>3, <1>4, <1>5

LEMMA ShownAmong ==
  ASSUME TInv, NEW p \in Peers, NEW k \in DOMAIN view[p], NEW i, i = view[p][k].id
  PROVE  Is(i, Me, p, rows) \/ Is(i, p, Me, rows)
BY DEF TInv, ViewOK, AllAmong, Among

(* messages put into the view                                              *)
LEMMA PlacedFresh ==
  ASSUME TInv, [Next]_vars, phase # "off", phase' # "off", ViewFresh,
         NEW p \in Peers, NEW ms, NEW by, NEW a, NEW b, Placed(p, ms, by, a, b), rows' = rows, ~RecvChange,
         \A j \in DOMAIN ms : \A i, t : i = ms[j].id /\ t = ms[j].text /\ rows[i].from = p =>
           Fresh(i, t)' \/ i \in Shown(p)
  PROVE  ViewFresh'
<1>1. ASSUME NEW q \in Peers, NEW k \in Live(q), NEW i, i = view[q][k].id, NEW t, t = view[q][k].text, rows[i].from = q
      PROVE  Fresh(i, t)' \/ Twice(q, k)
  <2>1. Is(i, q, Me, rows)
    BY <1>1, ShownAmong, MessengerAssumption DEF Live, Is
  <2>2. Fresh(i, t) \/ Twice(q, k)
    BY <1>1 DEF ViewFresh
  <2> QED
    BY <2>1, <2>2, FreshStep
<1> SUFFICES ASSUME NEW q \in Peers, NEW k \in Live(q)', NEW i, i = view'[q][k].id, NEW t, t = view'[q][k].text, rows'[i].from = q
             PROVE  Fresh(i, t)' \/ Twice(q, k)'
  BY DEF ViewFresh
<1>2. k \in DOMAIN view'[q] /\ view'[q][k].live
  BY DEF Live
<1>3. CASE q # p
  <2>1. view'[q] = view[q]
    BY <1>3 DEF Placed
  <2>2. k \in Live(q) /\ i = view[q][k].id /\ t = view[q][k].text
    BY <1>2, <2>1 DEF Live
  <2>3. Fresh(i, t)' \/ Twice(q, k)
    BY <1>1, <2>2
  <2> QED
    BY <2>1, <2>3 DEF Twice
<1>4. CASE q = p
  <2>1. CASE \E j \in DOMAIN view[p] : k = a + j
    <3>1. PICK j \in DOMAIN view[p] : k = a + j
      BY <2>1
    <3>2. i = view[p][j].id /\ t = view[p][j].text /\ j \in Live(p)
      BY <1>2, <1>4, <3>1 DEF Placed, Live
    <3>3. Fresh(i, t)' \/ Twice(p, j)
      BY <1>1, <1>4, <3>2
    <3>4. Twice(p, j) => Twice(p, k)'
      BY <3>1, TwicePlaced DEF TInv
    <3> QED
      BY <1>4, <3>3, <3>4
  <2>2. CASE \E j \in DOMAIN ms : k = b + j
    <3>1. PICK j \in DOMAIN ms : k = b + j
      BY <2>2
    <3>2. view'[p][k] = [id |-> ms[j].id, text |-> ms[j].text, by |-> by, live |-> TRUE]
      BY <3>1 DEF Placed
    <3>3. i = ms[j].id /\ t = ms[j].text
      BY <1>4, <3>2
    <3>4. Fresh(i, t)' \/ i \in Shown(p)
      BY <1>4, <3>3
    <3>5. i \in Shown(p) => Twice(p, k)'
      BY <3>1, <3>3, TwicePlaced DEF TInv
    <3> QED
      BY <1>4, <3>4, <3>5
  <2> QED
    BY <1>2, <1>4, <2>1, <2>2 DEF Placed
<1> QED
  BY <1>3, <1>4

LEMMA StillTwice ==
  ASSUME NEW q \in Peers, NEW k \in DOMAIN view[q], DOMAIN view'[q] = DOMAIN view[q],
         \A j \in DOMAIN view[q] : view'[q][j].id = view[q][j].id, Twice(q, k)
  PROVE  Twice(q, k)'
BY DEF Twice

LEMMA ViewFreshStep ==
  ASSUME TInv, OInv, PagesFresh, ViewFresh, ~Dangling, [Next]_vars, phase # "off", phase' # "off"
  PROVE  ViewFresh'
<1>0. ViewOK /\ ChannelOK
  BY DEF TInv
<1>i. ASSUME NEW q \in Peers, NEW k \in Live(q), NEW i, i = view[q][k].id, NEW t, t = view[q][k].text, rows'[i].from = q
      PROVE  Is(i, q, Me, rows) /\ (Fresh(i, t) \/ Twice(q, k))
  <2>1. Is(i, Me, q, rows) \/ Is(i, q, Me, rows)
    BY <1>i, ShownAmong DEF Live
  <2>2. rows'[i].from = rows[i].from
    BY <2>1, RowsStep DEF TInv, Grows, Is
  <2> QED
    BY <1>i, <2>1, <2>2, MessengerAssumption DEF Is, ViewFresh
<1>1. CASE RecvMessage \/ RecvSent
  <2>0. PICK f : f = Head(channel)
    OBVIOUS
  <2>s. PICK s : s = <<f>>
    OBVIOUS
  <2>1. f.code \in {"sent", "message"} /\ FrameFits(f, rows) /\ rows' = rows /\ work' = work /\ channel # <<>> /\ Taken
    BY <1>0, <1>1, <2>0, FirstFrame DEF RecvSent, RecvMessage, Reads, server
  <2>2. f.peer \in Peers /\ Showable(s, f.peer, rows)
    BY <2>1, <2>s, EventShowable
  <2>3. Below(f.peer, s, "event") \/ view' = view
    BY <1>1, <2>0, <2>s DEF RecvSent, RecvMessage
  <2>4. ~RecvChange
    BY <2>0, <2>1 DEF RecvChange, Reads
  <2>5. CASE Below(f.peer, s, "event")
    <3>1. PICK a, b : Placed(f.peer, s, "event", a, b)
      BY <1>0, <2>1, <2>2, <2>5, Placing
    <3>2. ASSUME NEW j \in DOMAIN s, NEW i, NEW t, i = s[j].id, t = s[j].text, rows[i].from = f.peer PROVE Fresh(i, t)'
      <4>1. i = f.id /\ t = f.text
        BY <2>s, <3>2
      <4>2. f.code = "message" /\ i \in DOMAIN rows
        BY <2>1, <2>2, <3>2, <4>1, MessengerAssumption DEF FrameFits, Is
      <4>3. About(f, i) /\ Took(f)
        BY <2>0, <2>1, <4>1, <4>2, TakenEffect DEF About
      <4> QED
        BY <2>1, <4>1, <4>2, <4>3, HeadFresh
    <3> QED
      BY <2>1, <2>2, <2>4, <3>1, <3>2, PlacedFresh
  <2>6. CASE view' = view
    <3> SUFFICES ASSUME NEW q \in Peers, NEW k \in Live(q), NEW i, i = view[q][k].id, NEW t, t = view[q][k].text, rows'[i].from = q
                 PROVE  Fresh(i, t)' \/ Twice(q, k)'
      BY <2>6 DEF ViewFresh, Live
    <3>1. Is(i, q, Me, rows) /\ (Fresh(i, t) \/ Twice(q, k))
      BY <1>i
    <3> QED
      BY <2>4, <2>6, <3>1, FreshStep DEF Twice
  <2> QED
    BY <2>3, <2>5, <2>6
<1>2. CASE RecvHistory /\ view' # view
  <2>0. PICK f : f = Head(channel)
    OBVIOUS
  <2>1. f.code = "history" /\ FrameFits(f, rows) /\ rows' = rows /\ channel # <<>> /\ 1 \in DOMAIN channel /\ channel[1] = f
    BY <1>0, <1>2, <2>0, FirstFrame DEF RecvHistory, Reads, server
  <2>2. f.peer \in Peers /\ Showable(f.messages, f.peer, rows) /\ AllAmong(f.messages, f.peer, rows)
    BY <2>1, ListShowable DEF FrameFits
  <2>3. Below(f.peer, f.messages, "list") \/ Above(f.peer, f.messages)
    BY <1>2, <2>0 DEF RecvHistory
  <2>4. ~RecvChange
    BY <2>0, <2>1 DEF RecvChange, Reads
  <2>5. \E a, b : Placed(f.peer, f.messages, "list", a, b)
    <3>1. CASE Below(f.peer, f.messages, "list")
      BY <1>0, <2>1, <2>2, <3>1, Placing
    <3>2. CASE Above(f.peer, f.messages)
      BY <1>0, <2>1, <2>2, <3>2, Placing
    <3> QED
      BY <2>3, <3>1, <3>2
  <2>6. PICK a, b : Placed(f.peer, f.messages, "list", a, b)
    BY <2>5
  <2>7. PageFresh(f.peer, f.messages)
    BY <2>1 DEF PagesFresh
  <2>8. ASSUME NEW j \in DOMAIN f.messages, NEW i, NEW t, i = f.messages[j].id, t = f.messages[j].text, rows[i].from = f.peer
        PROVE  Fresh(i, t)' \/ i \in Shown(f.peer)
    <3>1. Is(i, f.peer, Me, rows)
      BY <2>2, <2>8, MessengerAssumption DEF AllAmong, Among, Is
    <3>2. Fresh(i, t) \/ i \in Shown(f.peer)
      BY <2>7, <2>8 DEF PageFresh
    <3> QED
      BY <2>2, <2>4, <3>1, <3>2, FreshStep
  <2> QED
    BY <2>1, <2>2, <2>4, <2>6, <2>8, PlacedFresh
<1>3. CASE RecvChange
  <2>0. PICK f : f = Head(channel)
    OBVIOUS
  <2>1. f \in Frames /\ f.code \in {"changed", "deleted"} /\ FrameFits(f, rows) /\ rows' = rows /\ work' = work /\ channel # <<>> /\ Taken
    BY <1>0, <1>3, <2>0, FirstFrame DEF RecvChange, Reads, server
  <2>2. f.peer \in Peers /\ f.text \in Texts \cup {Gone} /\ Is(f.id, f.peer, Me, rows)
    BY <2>1, FrameTypes DEF FrameFits
  <2>3. PICK s : s = [k \in DOMAIN view[f.peer] |->
                        IF view[f.peer][k].id = f.id /\ view[f.peer][k].live THEN [view[f.peer][k] EXCEPT !.text = f.text] ELSE view[f.peer][k]]
    OBVIOUS
  <2>4. view' = [view EXCEPT ![f.peer] = s]
    BY <1>3, <2>0, <2>3 DEF RecvChange
  <2>5. SameIds(view[f.peer], s)
    BY <1>0, <2>2, <2>3, ChangedText
  <2>6. \A k \in DOMAIN view[f.peer] :
          /\ s[k].id = f.id /\ s[k].live => view[f.peer][k].live /\ s[k].text = f.text
          /\ s[k].id # f.id => s[k] = view[f.peer][k]
    <3> SUFFICES ASSUME NEW k \in DOMAIN view[f.peer]
                 PROVE  /\ s[k].id = f.id /\ s[k].live => view[f.peer][k].live /\ s[k].text = f.text
                        /\ s[k].id # f.id => s[k] = view[f.peer][k]
      OBVIOUS
    <3> DEFINE d == view[f.peer][k]
    <3>1. view[f.peer] \in Seq(ShownEntries)
      BY <1>0, <2>2 DEF ViewOK
    <3>2. d \in ShownEntries
      BY <3>1, ElementOfSeq, LenProperties
    <3>3. s[k] = IF d.id = f.id /\ d.live THEN [d EXCEPT !.text = f.text] ELSE d
      BY <2>3
    <3>4. s[k].id = d.id
      BY <2>5 DEF SameIds
    <3> HIDE DEF d
    <3>5. CASE d.id = f.id /\ d.live
      <4>1. s[k] = [d EXCEPT !.text = f.text]
        BY <3>3, <3>5
      <4> QED
        BY <3>2, <3>4, <3>5, <4>1 DEF ShownEntries, d
    <3>6. CASE ~(d.id = f.id /\ d.live)
      <4>1. s[k] = d
        BY <3>3, <3>6
      <4> QED
        BY <3>6, <4>1 DEF d
    <3> QED
      BY <3>5, <3>6
  <2>7. view'[f.peer] = s /\ \A q \in Peers \ {f.peer} : view'[q] = view[q]
    BY <1>0, <2>2, <2>4 DEF ViewOK
  <2>8. \A q \in Peers : DOMAIN view'[q] = DOMAIN view[q] /\ \A k \in DOMAIN view[q] : view'[q][k].id = view[q][k].id
    BY <2>5, <2>7 DEF SameIds
  <2> SUFFICES ASSUME NEW q \in Peers, NEW k \in Live(q)', NEW i, i = view'[q][k].id, NEW t, t = view'[q][k].text, rows'[i].from = q
               PROVE  Fresh(i, t)' \/ Twice(q, k)'
    BY DEF ViewFresh
  <2>9. k \in DOMAIN view[q] /\ view'[q][k].live /\ view[q][k].id = i
    BY <2>8 DEF Live
  <2>10. CASE i = f.id /\ q = f.peer
    <3>1. t = f.text
      BY <2>6, <2>7, <2>9, <2>10
    <3>2. Took(f) /\ About(f, i) /\ i \in DOMAIN rows
      BY <2>0, <2>1, <2>2, <2>10, TakenEffect DEF About, Is
    <3> QED
      BY <2>1, <3>1, <3>2, HeadFresh
  <2>11. CASE ~(i = f.id /\ q = f.peer)
    <3>1. view'[q][k] = view[q][k] /\ k \in Live(q) /\ t = view[q][k].text
      BY <2>6, <2>7, <2>9, <2>11 DEF Live
    <3>2. Is(i, q, Me, rows) /\ (Fresh(i, t) \/ Twice(q, k))
      BY <1>i, <2>9, <3>1
    <3>3. ~(Head(channel).id = i)
      BY <2>0, <2>2, <2>11, <3>2 DEF Is
    <3>4. Twice(q, k) => Twice(q, k)'
      BY <2>8, <2>9, StillTwice
    <3> QED
      BY <3>2, <3>3, <3>4, FreshStep
  <2> QED
    BY <2>10, <2>11
<1>4. ASSUME NEW p \in Peers, NEW l \in DOMAIN view[p], UserChanges(p, l) \/ UserDeletes(p, l) PROVE ViewFresh'
  <2>1. /\ rows' = rows /\ channel' = channel /\ channel' = channel
        /\ rows[view[p][l].id].from = Me
        /\ \E x : view' = [view EXCEPT ![p][l].text = x]
    BY <1>4 DEF UserChanges, UserDeletes, Clickable, Dangling, server
  <2>2. PICK x : view' = [view EXCEPT ![p][l].text = x]
    BY <2>1
  <2>c. ~RecvChange
    <3>1. ASSUME channel # <<>>, Taken PROVE FALSE
      <4>1. Took(Head(channel))
        BY <3>1, TakenEffect
      <4> QED
        BY <2>1, <4>1 DEF Took
    <3> QED
      BY <3>1 DEF RecvChange, Reads
  <2>3. PICK s : s = [view[p] EXCEPT ![l].text = x]
    OBVIOUS
  <2>4. view'[p] = s /\ \A q \in Peers \ {p} : view'[q] = view[q]
    BY <1>0, <2>2, <2>3 DEF ViewOK
  <2>5. view[p][l] \in ShownEntries
    <3>1. view[p] \in Seq(ShownEntries)
      BY <1>0 DEF ViewOK
    <3> QED
      BY <3>1, ElementOfSeq, LenProperties
  <2>6. DOMAIN s = DOMAIN view[p] /\ (\A k \in DOMAIN view[p] : s[k].id = view[p][k].id /\ (k # l => s[k] = view[p][k]))
    BY <2>3, <2>5 DEF ShownEntries
  <2>8. \A q \in Peers : DOMAIN view'[q] = DOMAIN view[q] /\ \A k \in DOMAIN view[q] : view'[q][k].id = view[q][k].id
    BY <2>4, <2>6
  <2> SUFFICES ASSUME NEW q \in Peers, NEW k \in Live(q)', NEW i, i = view'[q][k].id, NEW t, t = view'[q][k].text, rows'[i].from = q
               PROVE  Fresh(i, t)' \/ Twice(q, k)'
    BY DEF ViewFresh
  <2>9. k \in DOMAIN view[q] /\ view'[q][k].live /\ view[q][k].id = i
    BY <2>8 DEF Live
  <2>10. ~(q = p /\ k = l)
    BY <2>1, <2>9, MessengerAssumption
  <2>11. view'[q][k] = view[q][k] /\ k \in Live(q) /\ t = view[q][k].text
    BY <2>4, <2>6, <2>9, <2>10 DEF Live
  <2>12. Is(i, q, Me, rows) /\ (Fresh(i, t) \/ Twice(q, k))
    BY <1>i, <2>9, <2>11
  <2>13. Twice(q, k) => Twice(q, k)'
    BY <2>8, <2>9, StillTwice
  <2> QED
    BY <2>c, <2>12, <2>13, FreshStep
<1>5. CASE view' = view /\ ~RecvChange
  <2> SUFFICES ASSUME NEW q \in Peers, NEW k \in Live(q), NEW i, i = view[q][k].id, NEW t, t = view[q][k].text, rows'[i].from = q
               PROVE  Fresh(i, t)' \/ Twice(q, k)'
    BY <1>5 DEF ViewFresh, Live
  <2>1. Is(i, q, Me, rows) /\ (Fresh(i, t) \/ Twice(q, k))
    BY <1>i
  <2> QED
    BY <1>5, <2>1, FreshStep DEF Twice
<1>6. ASSUME NEW u \in Users,
            \/ (\E v \in Users \ {u} : Insert(u, v)) \/ AddContacts(u) \/ Deliver(u)
            \/ (\E i \in Ids : Update(u, i) \/ Delete(u, i)) \/ Notify(u)
      PROVE  view' = view
  BY <1>6 DEF Insert, AddContacts, Deliver, Update, Delete, Notify, client
<1>8. CASE view' = view
  BY <1>3, <1>5, <1>8
<1>7. CASE \/ GetUsers \/ GetGroups \/ SendHistory
           \/ \E p \in Peers, b \in 0..MaxMessages, q \in FirstPages \cup {Page} : GetLastMsgs(p, b, q)
           \/ \E p \in Peers : UserSends(p) \/ UserScrollsUp(p)
           \/ \E first \in [Peers -> FirstPages] : RecvUsers(first)
           \/ RecvGroups \/ UNCHANGED vars
  <2>1. view' = view
    BY <1>7 DEF GetUsers, GetGroups, SendHistory, GetLastMsgs, UserSends, UserScrollsUp, RecvUsers, RecvGroups, vars, client
  <2> QED
    BY <1>8, <2>1
<1> QED
  BY <1>1, <1>2, <1>3, <1>4, <1>6, <1>7, <1>8, RunningSteps

(* an entry stays, and its widget does not come to life again              *)
Stays ==
  \A q \in Peers : \A k \in DOMAIN view[q] :
    \E j \in DOMAIN view'[q] : view'[q][j].id = view[q][k].id /\ (view'[q][j].live => view[q][k].live)

LEMMA EntriesStay ==
  ASSUME TInv, [Next]_vars, phase # "off", phase' # "off"
  PROVE  Stays
<1>0. ViewOK /\ ChannelOK
  BY DEF TInv
<1>a. ASSUME NEW p \in Peers, NEW ms, NEW by, NEW a, NEW b, Placed(p, ms, by, a, b) PROVE Stays
  <2> SUFFICES ASSUME NEW q \in Peers, NEW k \in DOMAIN view[q]
               PROVE  \E j \in DOMAIN view'[q] : view'[q][j].id = view[q][k].id /\ (view'[q][j].live => view[q][k].live)
    BY DEF Stays
  <2>1. CASE q = p
    BY <1>a, <2>1 DEF Placed
  <2>2. CASE q # p
    BY <1>a, <2>2 DEF Placed
  <2> QED
    BY <2>1, <2>2
<1>b. ASSUME NEW p \in Peers, NEW s, view'[p] = s, \A q \in Peers \ {p} : view'[q] = view[q],
             DOMAIN s = DOMAIN view[p], \A k \in DOMAIN view[p] : s[k].id = view[p][k].id /\ s[k].live = view[p][k].live
      PROVE  Stays
  <2> SUFFICES ASSUME NEW q \in Peers, NEW k \in DOMAIN view[q]
               PROVE  \E j \in DOMAIN view'[q] : view'[q][j].id = view[q][k].id /\ (view'[q][j].live => view[q][k].live)
    BY DEF Stays
  <2>1. CASE q = p
    BY <1>b, <2>1
  <2>2. CASE q # p
    BY <1>b, <2>2
  <2> QED
    BY <2>1, <2>2
<1>c. CASE view' = view
  BY <1>c DEF Stays
<1>t. \A q \in Peers : \A k \in DOMAIN view[q] : \A x :
        [view[q][k] EXCEPT !.text = x].id = view[q][k].id /\ [view[q][k] EXCEPT !.text = x].live = view[q][k].live
  <2>1. \A q \in Peers : view[q] \in Seq(ShownEntries)
    BY <1>0 DEF ViewOK
  <2>2. \A q \in Peers : \A k \in DOMAIN view[q] : view[q][k] \in ShownEntries
    BY <2>1, ElementOfSeq, LenProperties
  <2> QED
    BY <2>2 DEF ShownEntries
<1>1. CASE RecvMessage \/ RecvSent
  <2>0. PICK f : f = Head(channel)
    OBVIOUS
  <2>s. PICK s : s = <<f>>
    OBVIOUS
  <2>1. f.code \in {"sent", "message"} /\ FrameFits(f, rows) /\ rows' = rows
    BY <1>0, <1>1, <2>0, FirstFrame DEF RecvSent, RecvMessage, Reads, server
  <2>2. f.peer \in Peers /\ Showable(s, f.peer, rows)
    BY <2>1, <2>s, EventShowable
  <2>3. Below(f.peer, s, "event") \/ view' = view
    BY <1>1, <2>0, <2>s DEF RecvSent, RecvMessage
  <2>4. ASSUME Below(f.peer, s, "event") PROVE \E a, b : Placed(f.peer, s, "event", a, b)
    BY <1>0, <2>1, <2>2, <2>4, Placing
  <2> QED
    BY <1>a, <1>c, <2>2, <2>3, <2>4
<1>2. CASE RecvHistory
  <2>0. PICK f : f = Head(channel)
    OBVIOUS
  <2>1. f.code = "history" /\ FrameFits(f, rows) /\ rows' = rows
    BY <1>0, <1>2, <2>0, FirstFrame DEF RecvHistory, Reads, server
  <2>2. f.peer \in Peers /\ Showable(f.messages, f.peer, rows)
    BY <2>1, ListShowable
  <2>3. Below(f.peer, f.messages, "list") \/ Above(f.peer, f.messages) \/ view' = view
    BY <1>2, <2>0 DEF RecvHistory
  <2>4. ASSUME Below(f.peer, f.messages, "list") PROVE \E a, b : Placed(f.peer, f.messages, "list", a, b)
    BY <1>0, <2>1, <2>2, <2>4, Placing
  <2>5. ASSUME Above(f.peer, f.messages) PROVE \E a, b : Placed(f.peer, f.messages, "list", a, b)
    BY <1>0, <2>1, <2>2, <2>5, Placing
  <2> QED
    BY <1>a, <1>c, <2>2, <2>3, <2>4, <2>5
<1>3. CASE RecvChange
  <2>0. PICK f : f = Head(channel)
    OBVIOUS
  <2>1. f.peer \in Peers
    <3>1. f \in Frames /\ f.code \in {"changed", "deleted"}
      BY <1>0, <1>3, <2>0, FirstFrame DEF RecvChange, Reads
    <3> QED
      BY <3>1, FrameTypes
  <2>2. PICK s : s = [k \in DOMAIN view[f.peer] |->
                        IF view[f.peer][k].id = f.id /\ view[f.peer][k].live THEN [view[f.peer][k] EXCEPT !.text = f.text] ELSE view[f.peer][k]]
    OBVIOUS
  <2>3. view'[f.peer] = s /\ \A q \in Peers \ {f.peer} : view'[q] = view[q]
    <3>1. view' = [view EXCEPT ![f.peer] = s]
      BY <1>3, <2>0, <2>2 DEF RecvChange
    <3> QED
      BY <1>0, <2>1, <3>1 DEF ViewOK
  <2>4. DOMAIN s = DOMAIN view[f.peer]
    BY <2>2
  <2>5. \A k \in DOMAIN view[f.peer] : s[k].id = view[f.peer][k].id /\ s[k].live = view[f.peer][k].live
    BY <1>t, <2>1, <2>2
  <2> QED
    BY <1>b, <2>1, <2>3, <2>4, <2>5
<1>4. ASSUME NEW p \in Peers, NEW l \in DOMAIN view[p], UserChanges(p, l) \/ UserDeletes(p, l) PROVE Stays
  <2>1. PICK x : view' = [view EXCEPT ![p][l].text = x]
    BY <1>4 DEF UserChanges, UserDeletes
  <2>2. PICK s : s = [view[p] EXCEPT ![l].text = x]
    OBVIOUS
  <2>3. view'[p] = s /\ \A q \in Peers \ {p} : view'[q] = view[q]
    BY <1>0, <2>1, <2>2 DEF ViewOK
  <2>4. DOMAIN s = DOMAIN view[p] /\ s[l] = [view[p][l] EXCEPT !.text = x] /\ \A k \in DOMAIN view[p] : k # l => s[k] = view[p][k]
    BY <2>2
  <2>l. s[l].id = view[p][l].id /\ s[l].live = view[p][l].live
    BY <1>t, <2>4
  <2>5. \A k \in DOMAIN view[p] : s[k].id = view[p][k].id /\ s[k].live = view[p][k].live
    BY <2>l, <2>4
  <2> QED
    BY <1>b, <2>3, <2>4, <2>5
<1>5. ASSUME NEW u \in Users,
            \/ (\E v \in Users \ {u} : Insert(u, v)) \/ AddContacts(u) \/ Deliver(u)
            \/ (\E i \in Ids : Update(u, i) \/ Delete(u, i)) \/ Notify(u)
      PROVE  view' = view
  BY <1>5 DEF Insert, AddContacts, Deliver, Update, Delete, Notify, client
<1>6. CASE \/ GetUsers \/ GetGroups \/ SendHistory
           \/ \E p \in Peers, b \in 0..MaxMessages, q \in FirstPages \cup {Page} : GetLastMsgs(p, b, q)
           \/ \E p \in Peers : UserSends(p) \/ UserScrollsUp(p)
           \/ \E first \in [Peers -> FirstPages] : RecvUsers(first)
           \/ RecvGroups \/ UNCHANGED vars
  <2>1. view' = view
    BY <1>6 DEF GetUsers, GetGroups, SendHistory, GetLastMsgs, UserSends, UserScrollsUp, RecvUsers, RecvGroups, vars, client
  <2> QED
    BY <1>c, <2>1
<1> QED
  BY <1>c, <1>1, <1>2, <1>3, <1>4, <1>5, <1>6, RunningSteps

LEMMA DanglingStays ==
  ASSUME TInv, [Next]_vars, phase # "off", phase' # "off", Dangling
  PROVE  Dangling'
<1>1. PICK p \in Peers : \E k \in DOMAIN view[p] : rows[view[p][k].id].from = Me /\ ~view[p][k].live
  BY DEF Dangling
<1>2. PICK k \in DOMAIN view[p] : rows[view[p][k].id].from = Me /\ ~view[p][k].live
  BY <1>1
<1>3. PICK i : i = view[p][k].id
  OBVIOUS
<1>4. rows'[i].from = Me
  <2>1. Is(i, Me, p, rows) \/ Is(i, p, Me, rows)
    BY <1>3, ShownAmong
  <2>2. Grows(rows, rows')
    BY RowsStep DEF TInv
  <2> QED
    BY <1>2, <1>3, <2>1, <2>2 DEF Is, Grows
<1>5. PICK j \in DOMAIN view'[p] : view'[p][j].id = i /\ ~view'[p][j].live
  BY <1>2, <1>3, EntriesStay DEF Stays
<1> QED
  BY <1>4, <1>5 DEF Dangling

LEMMA SInvStep ==
  ASSUME TInv, OInv, SInv, [Next]_vars
  PROVE  SInv'
<1>1. CASE phase' = "off"
  BY <1>1 DEF SInv
<1>2. CASE phase # "off" /\ phase' # "off"
  BY <1>2, PagesFreshStep, ViewFreshStep, DanglingStays DEF SInv
<1>3. CASE phase = "off" /\ phase' # "off"
  <2>1. LogIn
    BY <1>3, OnlyLogIn
  <2>2. channel' = <<>> /\ work' = work /\ Idle(Me) /\ view' = view /\ \A p \in Peers : view[p] = <<>>
    BY <1>3, <2>1 DEF TInv, SessionOK, ClientOK, LogIn
  <2>3. DOMAIN channel' = {} /\ work'[Me].step = "idle" /\ \A p \in Peers : DOMAIN view'[p] = {}
    BY <2>2 DEF Idle
  <2> QED
    BY <2>3 DEF SInv, PagesFresh, ViewFresh, Live
<1> QED
  BY <1>1, <1>2, <1>3

(* A text that is not the stored one, in an answer under way or shown, is  *)
(* still to be corrected, or the message is shown twice; what is shown is  *)
(* spoken of as long as no widget of an own message refers to freed data.  *)
THEOREM SInvAlways == Spec => []SInv
<1>1. Init => SInv
  BY DEF Init, SInv
<1> QED
  BY <1>1, SInvStep, TInvAlways, OInvAlways, PTL DEF Spec

(* What a peer has changed or deleted is shown so, or the event of it is   *)
(* still to come: a history that was read before does not bring the old    *)
(* text back, unless the message is shown twice, or a widget of an own     *)
(* message refers to freed data, so that a click may write anywhere.       *)
THEOREM ShownRight == Spec => []ShownAsStored
<1>1. TInv /\ SInv => ShownAsStored
  <2> SUFFICES ASSUME TInv, SInv, phase # "off", ~Dangling, NEW p \in Peers, NEW k \in Live(p), NEW e, e = view[p][k]
               PROVE  \/ rows[e.id].from = Me
                      \/ e.text = rows[e.id].text
                      \/ \E n \in DOMAIN channel : channel[n].code \in {"changed", "deleted"} /\ channel[n].id = e.id
                      \/ work[p].step = "notify" /\ work[p].id = e.id
                      \/ \E j \in DOMAIN view[p] : j # k /\ view[p][j].id = e.id
    BY DEF ShownAsStored
  <2>1. Is(e.id, Me, p, rows) \/ Is(e.id, p, Me, rows)
    BY ShownAmong DEF Live
  <2>2. CASE rows[e.id].from = p
    <3>1. Fresh(e.id, e.text) \/ Twice(p, k)
      BY <2>2 DEF SInv, ViewFresh
    <3>2. BeingTold(e.id) => work[p].step = "notify" /\ work[p].id = e.id
      <4>1. ASSUME NEW u \in Users, Telling(u, e.id) PROVE u = p
        BY <2>2, <4>1, WorkOf
      <4> QED
        BY <4>1 DEF BeingTold, Telling
    <3> QED
      BY <3>1, <3>2 DEF Fresh, Twice, Change
  <2> QED
    BY <2>1, <2>2 DEF Is
<1> QED
  BY <1>1, TInvAlways, SInvAlways, PTL
=============================================================================
