------------------------ MODULE MessengerOrder_proofs ------------------------
(***************************************************************************)
(* Messages are shown once, and in their order: the second part of the     *)
(* proofs about Messenger, for any number of peers, messages, changes and  *)
(* requests and any size of a page.                                        *)
(***************************************************************************)
EXTENDS Messenger_proofs

-----------------------------------------------------------------------------
(* What is shown once, and in order                                        *)

(* the pages for p that the client has not read, in their order            *)
HasPage(p, ms) ==
  \/ \E n \in DOMAIN channel : InChannel(n, p) /\ channel[n].messages = ms
  \/ InWork(p) /\ work[Me].messages = ms

PageThen(p, ms, ns) ==
  \/ \E m, n \in DOMAIN channel :
       m < n /\ InChannel(m, p) /\ InChannel(n, p) /\ channel[m].messages = ms /\ channel[n].messages = ns
  \/ \E n \in DOMAIN channel : InChannel(n, p) /\ channel[n].messages = ms /\ InWork(p) /\ work[Me].messages = ns

(* and those that are asked for, by the cursors they are before            *)
Asked(p, b) == \E k \in DOMAIN requests : InRequests(k, p) /\ requests[k].before = b

AskedThen(p, b, c) ==
  \E j, k \in DOMAIN requests :
    j < k /\ InRequests(j, p) /\ InRequests(k, p) /\ requests[j].before = b /\ requests[k].before = c

(* what u has sent, in the order in which it was written to the client     *)
News(f, u) == f.code \in {"message", "sent"} /\ rows[f.id].from = u
Bears(u, i) == \E n \in DOMAIN channel : News(channel[n], u) /\ channel[n].id = i

BearsThen(u, i, j) ==
  \E m, n \in DOMAIN channel :
    m < n /\ News(channel[m], u) /\ News(channel[n], u) /\ channel[m].id = i /\ channel[n].id = j

(* a page for p, and after it the event of the message i                   *)
PageThenNews(p, ms, i) ==
  \E m, n \in DOMAIN channel :
    /\ m < n /\ InChannel(m, p) /\ channel[m].messages = ms
    /\ channel[n].code \in {"message", "sent"} /\ channel[n].id = i

(* what the client shows because of events, and because of pages           *)
Heard(p, k, u) == view[p][k].by = "event" /\ rows[view[p][k].id].from = u
HeardIn(p, u, i) == \E k \in DOMAIN view[p] : Heard(p, k, u) /\ view[p][k].id = i

HeardThen(p, u, i, j) ==
  \E k, l \in DOMAIN view[p] :
    k < l /\ Heard(p, k, u) /\ Heard(p, l, u) /\ view[p][k].id = i /\ view[p][l].id = j

InList(p, x) == \E k \in DOMAIN view[p] : view[p][k].by = "list" /\ view[p][k].id = x

ListThen(p, x, y) ==
  \E j, k \in DOMAIN view[p] :
    j < k /\ view[p][j].by = "list" /\ view[p][k].by = "list" /\ view[p][j].id = x /\ view[p][k].id = y

LiveThen(p, x, y) ==
  \E j, k \in Live(p) :
    j < k /\ view[p][j].by = "list" /\ view[p][k].by = "list" /\ view[p][j].id = x /\ view[p][k].id = y

Within(ms, x) == \E k \in DOMAIN ms : ms[k].id = x
Sorted(ms) == \A j, k \in DOMAIN ms : j < k => ms[j].id < ms[k].id

(* A thread has its user's last message in hand.                           *)
LastSent == \A u \in Users : \A i, j : Sending(u, i) /\ j \in DOMAIN rows /\ rows[j].from = u => j <= i

(* A chat has a cursor from its first history on, and the others are       *)
(* pages.                                                                  *)
Cursors ==
  /\ \A p \in Peers :
       /\ cursor[p] <= Len(rows)
       /\ cursor[p] = 0 => \A x : ~InList(p, x)
       /\ \A b : Asked(p, b) => b <= Len(rows) /\ (b = 0 <=> cursor[p] = 0)
       /\ \A ms : HasPage(p, ms) => Sorted(ms)
  /\ \A k \in DOMAIN requests : requests[k].code = "history" /\ requests[k].before # 0 => requests[k].qty = Page

(* Events of one author are written, and shown, in the order of the ids.   *)
EventsInOrder ==
  \A u \in Users : \A i, j :
    /\ Sending(u, i) /\ Bears(u, j) => j < i
    /\ BearsThen(u, i, j) => i < j
    /\ \A p \in Peers :
         /\ Sending(u, i) /\ HeardIn(p, u, j) => j < i
         /\ Bears(u, i) /\ HeardIn(p, u, j) => j < i
         /\ HeardThen(p, u, i, j) => i < j

(* everything that is listed of p, or will be, is before i                 *)
ListedBefore(p, i) ==
  /\ cursor[p] < i
  /\ \A x : InList(p, x) => x < i
  /\ \A b : Asked(p, b) => b < i

PagesBefore(p, i) == \A ms : HasPage(p, ms) => \A x : Within(ms, x) => x < i

(* What Me has sent since the login comes after all that is listed: he     *)
(* sends when the first histories are asked for.                           *)
Sent(p, i) == Is(i, Me, p, rows) /\ (Sending(Me, i) \/ Bears(Me, i) \/ HeardIn(p, Me, i))
NoneSent == \A p \in Peers : \A i : ~Sent(p, i)
SendAsked == \E k \in DOMAIN requests : requests[k].code = "send"

SendThenFirst ==
  \E j, k \in DOMAIN requests :
    j < k /\ requests[j].code = "send" /\ requests[k].code = "history" /\ requests[k].before = 0

OwnLater ==
  /\ \A p \in Peers : \A i : Sent(p, i) => ListedBefore(p, i) /\ PagesBefore(p, i)
  /\ phase = "users" => NoneSent /\ ~SendAsked
  /\ (\E p \in Peers : Asked(p, 0)) => NoneSent
  /\ ~SendThenFirst

(* An event that is not shown above a list: what the peer has sent after   *)
(* it is not listed.                                                       *)
OnTimeShown(p, i) == \E k \in DOMAIN view[p] : view[p][k].by = "event" /\ view[p][k].id = i /\ ~CameEarly(p, k)
OnTime(p, i) == Bears(p, i) \/ OnTimeShown(p, i)

TheirsLater ==
  \A p \in Peers : \A i, j :
    Is(i, p, Me, rows) /\ Is(j, p, Me, rows) /\ i < j =>
      /\ OnTime(p, i) => ListedBefore(p, j) /\ (cursor[p] # 0 => PagesBefore(p, j))
      /\ \A ms, x : PageThenNews(p, ms, i) /\ Within(ms, x) => x < j

TwoLive(p) == \E j, k \in Live(p) : j # k /\ view[p][j].id = view[p][k].id
OneLive == \A p \in Peers : ~TwoLive(p)

(* Without overlapping requests each page ends before the last one begins. *)
Apiece ==
  \A p \in Peers \ overlap :
    /\ \A ms, ns : ~PageThen(p, ms, ns)
    /\ \A ms, b : ~(HasPage(p, ms) /\ Asked(p, b))
    /\ \A b, c : ~AskedThen(p, b, c)
    /\ \A b : Asked(p, b) => b = cursor[p]
    /\ cursor[p] # 0 => PagesBefore(p, cursor[p])
    /\ \A x : InList(p, x) => cursor[p] <= x
    /\ \A x, y : ListThen(p, x, y) => x < y

(* With them, pages overlap.  A page is what is stored of the last Page    *)
(* messages before its cursor, and a page that was read before has what is *)
(* still stored of them too.                                               *)
Chat(p) == Conversation(Me, p) \cap Stored

Near(p, x, b) == x >= b \/ Cardinality({y \in Chat(p) : x < y /\ y < b}) < Page

(* A page before a reaches back to b or further, and a is not before b.    *)
Under(p, a, b) == \A x \in Chat(p) : (x >= a => x >= b) /\ (x >= b => Near(p, x, a))

Overlapping ==
  \A p \in Peers : cursor[p] # 0 =>
    /\ \A b, c : AskedThen(p, b, c) => Under(p, b, c)
    /\ \A b : Asked(p, b) => Under(p, b, cursor[p])
    /\ \A ms : HasPage(p, ms) /\ ms # <<>> =>
         Under(p, cursor[p], ms[1].id) /\ \A b : Asked(p, b) => Under(p, b, ms[1].id)
    /\ \A ms, ns : PageThen(p, ms, ns) /\ ms # <<>> /\ ns # <<>> => Under(p, ms[1].id, ns[1].id)

Meets(p, x, ms) == x \in Chat(p) => Within(ms, x) \/ \A y : Within(ms, y) => y < x

Meeting ==
  \A p \in Peers : cursor[p] # 0 =>
    /\ \A x : InList(p, x) /\ x \in Chat(p) => cursor[p] <= x
    /\ \A ms, x : HasPage(p, ms) /\ InList(p, x) => Meets(p, x, ms)
    /\ \A ms, ns, x : PageThen(p, ms, ns) /\ Within(ms, x) => Meets(p, x, ns)
    /\ \A x, y : LiveThen(p, x, y) /\ x \in Chat(p) /\ y \in Chat(p) => x < y

WInv ==
  LastSent
  /\ (phase # "off" =>
        Cursors /\ EventsInOrder /\ OwnLater /\ TheirsLater /\ OneLive /\ Apiece /\ Overlapping /\ Meeting)

-----------------------------------------------------------------------------
(* What the steps do to all this                                           *)

PagesKept ==
  /\ \A p, ms : HasPage(p, ms)' => HasPage(p, ms)
  /\ \A p, ms, ns : PageThen(p, ms, ns)' => PageThen(p, ms, ns)

AsksKept ==
  /\ \A p, b : Asked(p, b)' => Asked(p, b)
  /\ \A p, b, c : AskedThen(p, b, c)' => AskedThen(p, b, c)
  /\ \A k \in DOMAIN requests' : \A r : r = requests'[k] /\ r.code = "history" => \E j \in DOMAIN requests : requests[j] = r

NewsKept ==
  /\ \A u, i : Bears(u, i)' => Bears(u, i)
  /\ \A u, i, j : BearsThen(u, i, j)' => BearsThen(u, i, j)
  /\ \A p, ms, i : PageThenNews(p, ms, i)' => PageThenNews(p, ms, i)

SendingKept == \A u \in Users : \A i : Sending(u, i)' => Sending(u, i)

SendsKept ==
  /\ phase' = "users" => phase = "users" /\ (SendAsked' => SendAsked)
  /\ SendThenFirst' => SendThenFirst

SameShown(p) ==
  /\ \A x : InList(p, x)' => InList(p, x)
  /\ \A x, y : ListThen(p, x, y)' => ListThen(p, x, y)
  /\ \A x, y : LiveThen(p, x, y)' => LiveThen(p, x, y)
  /\ TwoLive(p)' => TwoLive(p)
  /\ \A i : OnTimeShown(p, i)' => OnTimeShown(p, i)
  /\ \A u, i : HeardIn(p, u, i)' => HeardIn(p, u, i)
  /\ \A u, i, j : HeardThen(p, u, i, j)' => HeardThen(p, u, i, j)

(* The items of s with a code of C are those that were there, perhaps      *)
(* without the first.                                                      *)
Kin(s, t, C) ==
  \E d \in {0, 1} : \A n \in DOMAIN t :
    /\ n \in Nat
    /\ \/ n + d \in DOMAIN s /\ s[n + d] = t[n]
       \/ t[n].code \notin C /\ \A m \in DOMAIN t : m <= n

LEMMA KinSame ==
  ASSUME NEW s, NEW C, \A n \in DOMAIN s : n \in Nat
  PROVE  Kin(s, s, C)
<1>1. \A n \in DOMAIN s : n + 0 = n
  OBVIOUS
<1> QED
  BY <1>1 DEF Kin

LEMMA KinFrames ==
  ASSUME TInv, NEW C
  PROVE  /\ channel' = channel => Kin(channel, channel', C)
         /\ \A f : Put(f) /\ f.code \notin C => Kin(channel, channel', C)
         /\ \A f : Took(f) => Kin(channel, channel', C)
<1>1. \A n \in DOMAIN channel : n \in Nat
  BY LenProperties DEF TInv, ChannelOK
<1>2. channel' = channel => Kin(channel, channel', C)
  BY <1>1, KinSame
<1>3. ASSUME NEW f, Put(f), f.code \notin C PROVE Kin(channel, channel', C)
  <2>1. ASSUME NEW n \in DOMAIN channel'
        PROVE  /\ n \in Nat
               /\ \/ n + 0 \in DOMAIN channel /\ channel[n + 0] = channel'[n]
                  \/ channel'[n].code \notin C /\ \A m \in DOMAIN channel' : m <= n
    BY <1>3, <2>1, PutPlaces DEF Put
  <2> QED
    BY <2>1 DEF Kin
<1>4. ASSUME NEW f, Took(f) PROVE Kin(channel, channel', C)
  <2>1. ASSUME NEW n \in DOMAIN channel'
        PROVE  n \in Nat /\ n + 1 \in DOMAIN channel /\ channel[n + 1] = channel'[n]
    BY <1>4, <2>1 DEF Took
  <2> QED
    BY <2>1 DEF Kin
<1> QED
  BY <1>2, <1>3, <1>4

LEMMA KinRequests ==
  ASSUME TInv, NEW C
  PROVE  /\ requests' = requests => Kin(requests, requests', C)
         /\ \A u, r : Read(u, r) => Kin(requests, requests', C)
         /\ \A r \in Requests : Ask(<<r>>) /\ r.code \notin C => Kin(requests, requests', C)
<1>1. \A n \in DOMAIN requests : n \in Nat
  BY LenProperties DEF TInv, RequestsOK
<1>2. requests' = requests => Kin(requests, requests', C)
  BY <1>1, KinSame
<1>3. ASSUME NEW u, NEW r, Read(u, r) PROVE Kin(requests, requests', C)
  <2>1. CASE u # Me
    BY <1>2, <1>3, <2>1 DEF Read
  <2>2. CASE u = Me
    <3>1. ASSUME NEW n \in DOMAIN requests'
          PROVE  n \in Nat /\ n + 1 \in DOMAIN requests /\ requests[n + 1] = requests'[n]
      BY <1>3, <2>2, <3>1, ReadEffect
    <3> QED
      BY <3>1 DEF Kin
  <2> QED
    BY <2>1, <2>2
<1>4. ASSUME NEW r \in Requests, Ask(<<r>>), r.code \notin C PROVE Kin(requests, requests', C)
  <2>1. ASSUME NEW n \in DOMAIN requests'
        PROVE  /\ n \in Nat
               /\ \/ n + 0 \in DOMAIN requests /\ requests[n + 0] = requests'[n]
                  \/ requests'[n].code \notin C /\ \A m \in DOMAIN requests' : m <= n
    BY <1>4, <2>1, AskEffect
  <2> QED
    BY <2>1 DEF Kin
<1> QED
  BY <1>2, <1>3, <1>4

LEMMA KeepPages ==
  ASSUME TInv, NEW C, Kin(channel, channel', C), "history" \in C,
         work'[Me].step = "history" => work'[Me] = work[Me]
  PROVE  PagesKept
<1>1. PICK d \in {0, 1} : \A n \in DOMAIN channel' :
        /\ n \in Nat
        /\ \/ n + d \in DOMAIN channel /\ channel[n + d] = channel'[n]
           \/ channel'[n].code \notin C /\ \A m \in DOMAIN channel' : m <= n
  BY DEF Kin
<1>2. ASSUME NEW n, NEW p, InChannel(n, p)'
      PROVE  n \in Nat /\ n + d \in DOMAIN channel /\ InChannel(n + d, p) /\ channel[n + d].messages = channel'[n].messages
  BY <1>1, <1>2 DEF InChannel
<1>3. ASSUME NEW p, InWork(p)' PROVE InWork(p) /\ work'[Me].messages = work[Me].messages
  BY <1>3 DEF InWork
<1>4. ASSUME NEW p, NEW ms, HasPage(p, ms)' PROVE HasPage(p, ms)
  <2>1. CASE \E n \in DOMAIN channel' : InChannel(n, p)' /\ channel'[n].messages = ms
    <3>1. PICK n \in DOMAIN channel' : InChannel(n, p)' /\ channel'[n].messages = ms
      BY <2>1
    <3>2. n + d \in DOMAIN channel /\ InChannel(n + d, p) /\ channel[n + d].messages = ms
      BY <1>2, <3>1
    <3> QED
      BY <3>2 DEF HasPage
  <2>2. CASE InWork(p)' /\ work'[Me].messages = ms
    BY <1>3, <2>2 DEF HasPage
  <2> QED
    BY <1>4, <2>1, <2>2 DEF HasPage
<1>5. ASSUME NEW p, NEW ms, NEW ns, PageThen(p, ms, ns)' PROVE PageThen(p, ms, ns)
  <2>1. CASE \E m, n \in DOMAIN channel' :
               m < n /\ InChannel(m, p)' /\ InChannel(n, p)' /\ channel'[m].messages = ms /\ channel'[n].messages = ns
    <3>1. PICK m, n \in DOMAIN channel' :
               m < n /\ InChannel(m, p)' /\ InChannel(n, p)' /\ channel'[m].messages = ms /\ channel'[n].messages = ns
      BY <2>1
    <3>2. n + d \in DOMAIN channel /\ InChannel(n + d, p) /\ channel[n + d].messages = ns /\ n \in Nat
      BY <1>2, <3>1
    <3>3. m + d \in DOMAIN channel /\ InChannel(m + d, p) /\ channel[m + d].messages = ms /\ m \in Nat
      BY <1>2, <3>1
    <3>4. m + d < n + d
      BY <3>1, <3>2, <3>3
    <3> QED
      BY <3>2, <3>3, <3>4 DEF PageThen
  <2>2. CASE (\E n \in DOMAIN channel' : InChannel(n, p)' /\ channel'[n].messages = ms) /\ InWork(p)' /\ work'[Me].messages = ns
    <3>1. PICK n \in DOMAIN channel' : InChannel(n, p)' /\ channel'[n].messages = ms
      BY <2>2
    <3>2. n + d \in DOMAIN channel /\ InChannel(n + d, p) /\ channel[n + d].messages = ms
      BY <1>2, <3>1
    <3>3. InWork(p) /\ work[Me].messages = ns
      BY <1>3, <2>2
    <3> QED
      BY <3>2, <3>3 DEF PageThen
  <2> QED
    BY <1>5, <2>1, <2>2 DEF PageThen
<1> QED
  BY <1>4, <1>5 DEF PagesKept

LEMMA KeepAsks ==
  ASSUME TInv, NEW C, Kin(requests, requests', C), "history" \in C
  PROVE  AsksKept
<1>1. PICK d \in {0, 1} : \A n \in DOMAIN requests' :
        /\ n \in Nat
        /\ \/ n + d \in DOMAIN requests /\ requests[n + d] = requests'[n]
           \/ requests'[n].code \notin C /\ \A m \in DOMAIN requests' : m <= n
  BY DEF Kin
<1>2. ASSUME NEW n, NEW p, InRequests(n, p)'
      PROVE  n \in Nat /\ n + d \in DOMAIN requests /\ InRequests(n + d, p) /\ requests[n + d].before = requests'[n].before
  BY <1>1, <1>2 DEF InRequests
<1>4. ASSUME NEW p, NEW b, Asked(p, b)' PROVE Asked(p, b)
  <2>1. PICK n \in DOMAIN requests' : InRequests(n, p)' /\ requests'[n].before = b
    BY <1>4 DEF Asked
  <2>2. n + d \in DOMAIN requests /\ InRequests(n + d, p) /\ requests[n + d].before = b
    BY <1>2, <2>1
  <2> QED
    BY <2>2 DEF Asked
<1>5. ASSUME NEW p, NEW b, NEW c, AskedThen(p, b, c)' PROVE AskedThen(p, b, c)
  <2>1. PICK m, n \in DOMAIN requests' :
          m < n /\ InRequests(m, p)' /\ InRequests(n, p)' /\ requests'[m].before = b /\ requests'[n].before = c
    BY <1>5 DEF AskedThen
  <2>2. n + d \in DOMAIN requests /\ InRequests(n + d, p) /\ requests[n + d].before = c /\ n \in Nat
    BY <1>2, <2>1
  <2>3. m + d \in DOMAIN requests /\ InRequests(m + d, p) /\ requests[m + d].before = b /\ m \in Nat
    BY <1>2, <2>1
  <2>4. m + d < n + d
    BY <2>1, <2>2, <2>3
  <2> QED
    BY <2>2, <2>3, <2>4 DEF AskedThen
<1>6. \A k \in DOMAIN requests' : \A r : r = requests'[k] /\ r.code = "history" => \E j \in DOMAIN requests : requests[j] = r
  BY <1>1
<1> QED
  BY <1>4, <1>5, <1>6 DEF AsksKept

(* the places of the messages of one chat do not matter to who sent them   *)
LEMMA KeepNews ==
  ASSUME TInv, Grows(rows, rows'), NEW C, Kin(channel, channel', C), {"message", "sent"} \subseteq C
  PROVE  NewsKept
<1>1. PICK d \in {0, 1} : \A n \in DOMAIN channel' :
        /\ n \in Nat
        /\ \/ n + d \in DOMAIN channel /\ channel[n + d] = channel'[n]
           \/ channel'[n].code \notin C /\ \A m \in DOMAIN channel' : m <= n
  BY DEF Kin
<1>2. ASSUME NEW n \in DOMAIN channel', NEW f, f = channel'[n], f.code \in {"message", "sent"}
      PROVE  n \in Nat /\ n + d \in DOMAIN channel /\ channel[n + d] = f /\ rows'[f.id].from = rows[f.id].from
  <2>1. n \in Nat /\ n + d \in DOMAIN channel /\ channel[n + d] = f
    BY <1>1, <1>2
  <2>2. f.id \in DOMAIN rows
    BY <1>2, <2>1 DEF TInv, ChannelOK, FrameFits, Is
  <2> QED
    BY <2>1, <2>2 DEF Grows
<1>3. ASSUME NEW n \in DOMAIN channel', NEW u, NEW i, News(channel[n], u)', channel'[n].id = i
      PROVE  n \in Nat /\ n + d \in DOMAIN channel /\ News(channel[n + d], u) /\ channel[n + d].id = i
  BY <1>2, <1>3 DEF News
<1>4. ASSUME NEW u, NEW i, Bears(u, i)' PROVE Bears(u, i)
  <2>1. PICK n \in DOMAIN channel' : News(channel[n], u)' /\ channel'[n].id = i
    BY <1>4 DEF Bears
  <2> QED
    BY <1>3, <2>1 DEF Bears
<1>5. ASSUME NEW u, NEW i, NEW j, BearsThen(u, i, j)' PROVE BearsThen(u, i, j)
  <2>1. PICK m, n \in DOMAIN channel' :
          m < n /\ News(channel[m], u)' /\ News(channel[n], u)' /\ channel'[m].id = i /\ channel'[n].id = j
    BY <1>5 DEF BearsThen
  <2>2. m \in Nat /\ m + d \in DOMAIN channel /\ News(channel[m + d], u) /\ channel[m + d].id = i
    BY <1>3, <2>1
  <2>3. n \in Nat /\ n + d \in DOMAIN channel /\ News(channel[n + d], u) /\ channel[n + d].id = j
    BY <1>3, <2>1
  <2>4. m + d < n + d
    BY <2>1, <2>2, <2>3
  <2> QED
    BY <2>2, <2>3, <2>4 DEF BearsThen
<1>6. ASSUME NEW p, NEW ms, NEW i, PageThenNews(p, ms, i)' PROVE PageThenNews(p, ms, i)
  <2>1. PICK m, n \in DOMAIN channel' :
          /\ m < n /\ InChannel(m, p)' /\ channel'[m].messages = ms
          /\ channel'[n].code \in {"message", "sent"} /\ channel'[n].id = i
    BY <1>6 DEF PageThenNews
  <2>2. n \in Nat /\ n + d \in DOMAIN channel /\ channel[n + d] = channel'[n]
    BY <1>2, <2>1
  <2>3. m \in Nat /\ m + d \in DOMAIN channel /\ channel[m + d] = channel'[m]
    BY <1>1, <2>1, <2>2
  <2>4. m + d < n + d /\ InChannel(m + d, p)
    BY <2>1, <2>2, <2>3 DEF InChannel
  <2> QED
    BY <2>1, <2>2, <2>3, <2>4 DEF PageThenNews
<1> QED
  BY <1>4, <1>5, <1>6 DEF NewsKept

LEMMA KeepSends ==
  ASSUME TInv, NEW C, Kin(requests, requests', C), "send" \in C, "history" \in C,
         phase' = "users" => phase = "users"
  PROVE  SendsKept
<1>1. PICK d \in {0, 1} : \A n \in DOMAIN requests' :
        /\ n \in Nat
        /\ \/ n + d \in DOMAIN requests /\ requests[n + d] = requests'[n]
           \/ requests'[n].code \notin C /\ \A m \in DOMAIN requests' : m <= n
  BY DEF Kin
<1>2. ASSUME NEW n \in DOMAIN requests', requests'[n].code \in {"send", "history"}
      PROVE  n \in Nat /\ n + d \in DOMAIN requests /\ requests[n + d] = requests'[n]
  BY <1>1, <1>2
<1>3. SendAsked' => SendAsked
  BY <1>2 DEF SendAsked
<1>4. ASSUME SendThenFirst' PROVE SendThenFirst
  <2>1. PICK j, k \in DOMAIN requests' :
          j < k /\ requests'[j].code = "send" /\ requests'[k].code = "history" /\ requests'[k].before = 0
    BY <1>4 DEF SendThenFirst
  <2>2. /\ j \in Nat /\ j + d \in DOMAIN requests /\ requests[j + d] = requests'[j]
        /\ k \in Nat /\ k + d \in DOMAIN requests /\ requests[k + d] = requests'[k]
    BY <1>2, <2>1
  <2>3. j + d < k + d
    BY <2>1, <2>2
  <2> QED
    BY <2>1, <2>2, <2>3 DEF SendThenFirst
<1> QED
  BY <1>3, <1>4 DEF SendsKept

(* The view, when nothing is put into it                                   *)
LEMMA KeepShown ==
  ASSUME TInv, Grows(rows, rows'), NEW p \in Peers, DOMAIN view'[p] = DOMAIN view[p],
         \A k \in DOMAIN view[p] : /\ view'[p][k].id = view[p][k].id /\ view'[p][k].by = view[p][k].by
                                   /\ view'[p][k].live => view[p][k].live
  PROVE  SameShown(p)
<1>1. \A k \in DOMAIN view[p] : rows'[view[p][k].id].from = rows[view[p][k].id].from
  BY ShownAmong DEF Grows, Is
<1>2. \A k, u : k \in DOMAIN view[p] /\ Heard(p, k, u)' => Heard(p, k, u)
  BY <1>1 DEF Heard
<1>3. \A k : k \in Live(p)' => k \in Live(p)
  BY DEF Live
<1>4. \A k \in DOMAIN view[p] : CameEarly(p, k) => CameEarly(p, k)'
  BY DEF CameEarly
<1>5. \A x : InList(p, x)' => InList(p, x)
  BY DEF InList
<1>6. \A x, y : ListThen(p, x, y)' => ListThen(p, x, y)
  BY DEF ListThen
<1>7. \A x, y : LiveThen(p, x, y)' => LiveThen(p, x, y)
  BY <1>3 DEF LiveThen, Live
<1>8. TwoLive(p)' => TwoLive(p)
  BY <1>3 DEF TwoLive, Live
<1>9. \A i : OnTimeShown(p, i)' => OnTimeShown(p, i)
  BY <1>4 DEF OnTimeShown
<1>10. \A u, i : HeardIn(p, u, i)' => HeardIn(p, u, i)
  BY <1>2 DEF HeardIn
<1>11. \A u, i, j : HeardThen(p, u, i, j)' => HeardThen(p, u, i, j)
  BY <1>2 DEF HeardThen
<1> QED
  BY <1>5, <1>6, <1>7, <1>8, <1>9, <1>10, <1>11 DEF SameShown

LEMMA KeepShownAll ==
  ASSUME TInv, Grows(rows, rows'), view' = view
  PROVE  \A p \in Peers : SameShown(p)
<1>1. ASSUME NEW p \in Peers PROVE SameShown(p)
  <2>1. view'[p] = view[p]
    OBVIOUS
  <2> QED
    BY <2>1, KeepShown
<1> QED
  BY <1>1

LEMMA KeepOthersShown ==
  ASSUME TInv, Grows(rows, rows'), NEW p, \A q \in Peers \ {p} : view'[q] = view[q]
  PROVE  \A q \in Peers \ {p} : SameShown(q)
<1>1. ASSUME NEW q \in Peers \ {p} PROVE SameShown(q)
  <2>1. view'[q] = view[q]
    OBVIOUS
  <2> QED
    BY <2>1, KeepShown
<1> QED
  BY <1>1

(* when messages are put into it *)
LEMMA PlaceOf ==
  ASSUME TInv, NEW p \in Peers, NEW ms, NEW by, NEW a, NEW b, Placed(p, ms, by, a, b), NEW m \in DOMAIN view'[p]
  PROVE  \/ \E k \in DOMAIN view[p] :
              /\ k \in Nat /\ m = a + k /\ view'[p][m].id = view[p][k].id /\ view'[p][m].by = view[p][k].by
              /\ view'[p][m].live => view[p][k].live /\ view[p][k].id \notin IdsOf(ms)
         \/ \E j \in DOMAIN ms :
              m = b + j /\ view'[p][m].id = ms[j].id /\ view'[p][m].by = by
<1>1. \A k \in DOMAIN view[p] : k \in Nat
  BY LenProperties DEF TInv, ViewOK
<1>2. ASSUME NEW k \in DOMAIN view[p], m = a + k
      PROVE  /\ k \in Nat /\ view'[p][m].id = view[p][k].id /\ view'[p][m].by = view[p][k].by
             /\ view'[p][m].live => view[p][k].live /\ view[p][k].id \notin IdsOf(ms)
  BY <1>1, <1>2 DEF Placed
<1>3. ASSUME NEW j \in DOMAIN ms, m = b + j
      PROVE  view'[p][m].id = ms[j].id /\ view'[p][m].by = by
  <2>1. view'[p][m] = [id |-> ms[j].id, text |-> ms[j].text, by |-> by, live |-> TRUE]
    BY <1>3 DEF Placed
  <2> QED
    BY <2>1
<1>4. (\E k \in DOMAIN view[p] : m = a + k) \/ (\E j \in DOMAIN ms : m = b + j)
  BY DEF Placed
<1> QED
  BY <1>2, <1>3, <1>4

(* A list is shown below or above what there was.                          *)
Listed(p, ms, below) ==
  /\ \A q \in Peers \ {p} : SameShown(q)
  /\ \A x : InList(p, x)' => InList(p, x) \/ Within(ms, x)
  /\ \A x, y : ListThen(p, x, y)' =>
       \/ ListThen(p, x, y)
       \/ Within(ms, x) /\ Within(ms, y) /\ x < y
       \/ IF below THEN InList(p, x) /\ Within(ms, y) ELSE Within(ms, x) /\ InList(p, y)
  /\ \A x, y : LiveThen(p, x, y)' =>
       \/ LiveThen(p, x, y)
       \/ Within(ms, x) /\ Within(ms, y) /\ x < y
       \/ IF below THEN InList(p, x) /\ Within(ms, y) ELSE Within(ms, x) /\ InList(p, y) /\ ~Within(ms, y)
  /\ TwoLive(p)' => TwoLive(p)
  /\ \A i : OnTimeShown(p, i)' => OnTimeShown(p, i) /\ (below => DOMAIN ms = {})
  /\ \A u, i : HeardIn(p, u, i)' => HeardIn(p, u, i)
  /\ \A u, i, j : HeardThen(p, u, i, j)' => HeardThen(p, u, i, j)

LEMMA ListShown ==
  ASSUME TInv, rows' = rows, NEW p \in Peers, NEW ms, Sorted(ms), \A j \in DOMAIN ms : j \in Nat /\ j >= 1 /\ ms[j].id \in Nat,
         NEW a, NEW b, Placed(p, ms, "list", a, b), NEW below \in BOOLEAN,
         IF below THEN a = 0 /\ (\A k \in DOMAIN view[p] : k <= b) ELSE b = 0 /\ (\A j \in DOMAIN ms : j <= a)
  PROVE  Listed(p, ms, below)
<1> DEFINE Old(m, k) == /\ k \in DOMAIN view[p] /\ k \in Nat /\ m = a + k
                        /\ view'[p][m].id = view[p][k].id /\ view'[p][m].by = view[p][k].by
                        /\ view'[p][m].live => view[p][k].live /\ ~Within(ms, view[p][k].id)
           New(m, j) == j \in DOMAIN ms /\ j \in Nat /\ m = b + j /\ view'[p][m].id = ms[j].id /\ view'[p][m].by = "list"
<1>1. \A x : Within(ms, x) <=> x \in IdsOf(ms)
  BY DEF Within, IdsOf
<1>2. ASSUME NEW m \in DOMAIN view'[p] PROVE (\E k : Old(m, k)) \/ (\E j : New(m, j))
  BY <1>1, PlaceOf
<1>3. a \in Nat /\ b \in Nat /\ Grows(rows, rows') /\ \A q \in Peers \ {p} : view'[q] = view[q]
  BY DEF Placed, Grows
<1>4. \A q \in Peers \ {p} : SameShown(q)
  BY <1>3, KeepOthersShown
<1>5. \A m, n, k, l : Old(m, k) /\ Old(n, l) /\ m < n => k < l
  BY <1>3
<1>6. \A m, n, k, l : New(m, k) /\ New(n, l) /\ m < n => k < l
  BY <1>3
<1>7. \A m, n, k, l : Old(m, k) /\ New(n, l) /\ m < n => below = TRUE
  BY <1>3
<1>8. \A m, n, k, l : New(m, k) /\ Old(n, l) /\ m < n => below = FALSE
  BY <1>3
<1>9. \A m, n, k, l : New(m, k) /\ New(n, l) /\ m # n => k # l /\ ms[k].id # ms[l].id
  <2>1. \A k, l \in DOMAIN ms : k # l => ms[k].id # ms[l].id
    BY DEF Sorted
  <2> QED
    BY <1>3, <2>1
<1>10. \A m, n, k, l : Old(m, k) /\ Old(n, l) /\ m # n => k # l
  BY <1>3
<1>11. \A m, k, u : Old(m, k) /\ m \in DOMAIN view'[p] /\ Heard(p, m, u)' => Heard(p, k, u)
  BY DEF Heard
<1>12. \A m, k : Old(m, k) /\ m \in Live(p)' => k \in Live(p) /\ ~Within(ms, view[p][k].id)
  BY DEF Live
<1>13. \A m, j : New(m, j) => Within(ms, view'[p][m].id) /\ view'[p][m].id = ms[j].id
  BY DEF Within
<1>14. \A m, n, k, l : New(m, k) /\ New(n, l) /\ m < n => view'[p][m].id < view'[p][n].id
  BY <1>6 DEF Sorted
<1>15. \A m, k : Old(m, k) /\ view'[p][m].by = "list" => InList(p, view'[p][m].id)
  BY DEF InList
<1>16. ASSUME NEW x, InList(p, x)' PROVE InList(p, x) \/ Within(ms, x)
  <2>1. PICK m \in DOMAIN view'[p] : view'[p][m].by = "list" /\ view'[p][m].id = x
    BY <1>16 DEF InList
  <2> HIDE DEF Old, New
  <2> QED
    BY <1>2, <1>13, <1>15, <2>1
<1>17. ASSUME NEW x, NEW y, ListThen(p, x, y)'
       PROVE  \/ ListThen(p, x, y)
              \/ Within(ms, x) /\ Within(ms, y) /\ x < y
              \/ IF below THEN InList(p, x) /\ Within(ms, y) ELSE Within(ms, x) /\ InList(p, y)
  <2>1. PICK m, n \in DOMAIN view'[p] :
          m < n /\ view'[p][m].by = "list" /\ view'[p][n].by = "list" /\ view'[p][m].id = x /\ view'[p][n].id = y
    BY <1>17 DEF ListThen
  <2>2. ASSUME NEW k, NEW l, Old(m, k), Old(n, l) PROVE ListThen(p, x, y)
    BY <1>5, <2>1, <2>2 DEF ListThen
  <2> HIDE DEF Old, New
  <2>3. ASSUME NEW k, NEW l, New(m, k), New(n, l) PROVE Within(ms, x) /\ Within(ms, y) /\ x < y
    BY <1>13, <1>14, <2>1, <2>3
  <2>4. ASSUME NEW k, NEW l, Old(m, k), New(n, l) PROVE below /\ InList(p, x) /\ Within(ms, y)
    BY <1>7, <1>13, <1>15, <2>1, <2>4
  <2>5. ASSUME NEW k, NEW l, New(m, k), Old(n, l) PROVE ~below /\ Within(ms, x) /\ InList(p, y)
    BY <1>8, <1>13, <1>15, <2>1, <2>5
  <2> QED
    BY <1>2, <2>2, <2>3, <2>4, <2>5
<1>18. ASSUME NEW x, NEW y, LiveThen(p, x, y)'
       PROVE  \/ LiveThen(p, x, y)
              \/ Within(ms, x) /\ Within(ms, y) /\ x < y
              \/ IF below THEN InList(p, x) /\ Within(ms, y) ELSE Within(ms, x) /\ InList(p, y) /\ ~Within(ms, y)
  <2>1. PICK m, n \in Live(p)' :
          m < n /\ view'[p][m].by = "list" /\ view'[p][n].by = "list" /\ view'[p][m].id = x /\ view'[p][n].id = y
    BY <1>18 DEF LiveThen
  <2>2. m \in DOMAIN view'[p] /\ n \in DOMAIN view'[p]
    BY <2>1 DEF Live
  <2>3. ASSUME NEW k, NEW l, Old(m, k), Old(n, l) PROVE LiveThen(p, x, y)
    BY <1>5, <1>12, <2>1, <2>3 DEF LiveThen
  <2>4. ASSUME NEW k, Old(n, k) PROVE ~Within(ms, y)
    BY <1>12, <2>1, <2>4
  <2> HIDE DEF Old, New
  <2>5. ASSUME NEW k, NEW l, New(m, k), New(n, l) PROVE Within(ms, x) /\ Within(ms, y) /\ x < y
    BY <1>13, <1>14, <2>1, <2>5
  <2>6. ASSUME NEW k, NEW l, Old(m, k), New(n, l) PROVE below /\ InList(p, x) /\ Within(ms, y)
    BY <1>7, <1>13, <1>15, <2>1, <2>6
  <2>7. ASSUME NEW k, NEW l, New(m, k), Old(n, l) PROVE ~below /\ Within(ms, x) /\ InList(p, y) /\ ~Within(ms, y)
    BY <1>8, <1>13, <1>15, <2>1, <2>4, <2>7
  <2> QED
    BY <1>2, <2>2, <2>3, <2>5, <2>6, <2>7
<1>19. ASSUME TwoLive(p)' PROVE TwoLive(p)
  <2>1. PICK m, n \in Live(p)' : m # n /\ view'[p][m].id = view'[p][n].id
    BY <1>19 DEF TwoLive
  <2>2. m \in DOMAIN view'[p] /\ n \in DOMAIN view'[p]
    BY <2>1 DEF Live
  <2>3. ASSUME NEW k, NEW l, Old(m, k), Old(n, l) PROVE TwoLive(p)
    BY <1>10, <1>12, <2>1, <2>3 DEF TwoLive
  <2>4. \A k, l : ~(Old(m, k) /\ New(n, l))
    BY <1>12, <1>13, <2>1
  <2>5. \A k, l : ~(New(m, k) /\ Old(n, l))
    BY <1>12, <1>13, <2>1
  <2>6. \A k, l : ~(New(m, k) /\ New(n, l))
    BY <1>9, <1>13, <2>1
  <2> HIDE DEF Old, New
  <2> QED
    BY <1>2, <2>2, <2>3, <2>4, <2>5, <2>6
<1>20. ASSUME NEW i, OnTimeShown(p, i)' PROVE OnTimeShown(p, i) /\ (below => DOMAIN ms = {})
  <2>1. PICK m \in DOMAIN view'[p] : view'[p][m].by = "event" /\ view'[p][m].id = i /\ ~CameEarly(p, m)'
    BY <1>20 DEF OnTimeShown
  <2>2. PICK k : Old(m, k)
    BY <1>2, <2>1
  <2>3. \A l \in DOMAIN view'[p] : m < l => view'[p][l].by # "list"
    BY <2>1 DEF CameEarly
  <2>4. ASSUME NEW l \in DOMAIN view[p], k < l PROVE view[p][l].by # "list"
    <3>1. l \in Nat /\ a + l \in DOMAIN view'[p] /\ view'[p][a + l].by = view[p][l].by
      BY LenProperties DEF TInv, ViewOK, Placed
    <3>2. m < a + l
      BY <1>3, <2>2, <2>4, <3>1
    <3> QED
      BY <2>3, <3>1, <3>2
  <2>5. view[p][k].by = "event" /\ view[p][k].id = i /\ k \in DOMAIN view[p]
    BY <2>1, <2>2
  <2>6. OnTimeShown(p, i)
    BY <2>4, <2>5 DEF OnTimeShown, CameEarly
  <2>7. ASSUME below, NEW j \in DOMAIN ms PROVE FALSE
    <3>1. b + j \in DOMAIN view'[p] /\ view'[p][b + j].by = "list"
      <4>1. /\ b + j \in DOMAIN view'[p]
            /\ view'[p][b + j] = [id |-> ms[j].id, text |-> ms[j].text, by |-> "list", live |-> TRUE]
        BY DEF Placed
      <4> QED
        BY <4>1
    <3>2. m < b + j
      BY <1>3, <2>2, <2>7
    <3> QED
      BY <2>3, <3>1, <3>2
  <2> QED
    BY <2>6, <2>7
<1>21. ASSUME NEW u, NEW i, HeardIn(p, u, i)' PROVE HeardIn(p, u, i)
  <2>1. PICK m \in DOMAIN view'[p] : Heard(p, m, u)' /\ view'[p][m].id = i
    BY <1>21 DEF HeardIn
  <2>2. PICK k : Old(m, k)
    BY <1>2, <2>1 DEF Heard
  <2> QED
    BY <1>11, <2>1, <2>2 DEF HeardIn
<1>22. ASSUME NEW u, NEW i, NEW j, HeardThen(p, u, i, j)' PROVE HeardThen(p, u, i, j)
  <2>1. PICK m, n \in DOMAIN view'[p] : m < n /\ Heard(p, m, u)' /\ Heard(p, n, u)' /\ view'[p][m].id = i /\ view'[p][n].id = j
    BY <1>22 DEF HeardThen
  <2>2. PICK k : Old(m, k)
    BY <1>2, <2>1 DEF Heard
  <2>3. PICK l : Old(n, l)
    BY <1>2, <2>1 DEF Heard
  <2> QED
    BY <1>5, <1>11, <2>1, <2>2, <2>3 DEF HeardThen
<1> QED
  BY <1>4, <1>16, <1>17, <1>18, <1>19, <1>20, <1>21, <1>22 DEF Listed

(* An event is shown below.                                                *)
Told(p, f) ==
  /\ \A q \in Peers \ {p} : SameShown(q)
  /\ \A x : InList(p, x)' => InList(p, x)
  /\ \A x, y : ListThen(p, x, y)' => ListThen(p, x, y)
  /\ \A x, y : LiveThen(p, x, y)' => LiveThen(p, x, y)
  /\ TwoLive(p)' => TwoLive(p)
  /\ \A i : OnTimeShown(p, i)' => OnTimeShown(p, i) \/ i = f.id
  /\ \A u, i : HeardIn(p, u, i)' => HeardIn(p, u, i) \/ (i = f.id /\ rows[i].from = u)
  /\ \A u, i, j : HeardThen(p, u, i, j)' => HeardThen(p, u, i, j) \/ (HeardIn(p, u, i) /\ j = f.id /\ rows[j].from = u)

LEMMA EventShown ==
  ASSUME TInv, rows' = rows, NEW p \in Peers, NEW f, NEW ms, ms = <<f>>,
         NEW b, Placed(p, ms, "event", 0, b), \A k \in DOMAIN view[p] : k <= b
  PROVE  Told(p, f)
<1> DEFINE Old(m, k) == /\ k \in DOMAIN view[p] /\ k \in Nat /\ m = k
                        /\ view'[p][m].id = view[p][k].id /\ view'[p][m].by = view[p][k].by
                        /\ view'[p][m].live => view[p][k].live /\ view[p][k].id # f.id
           New(m) == m = b + 1 /\ view'[p][m].id = f.id /\ view'[p][m].by = "event"
<1>1. DOMAIN ms = {1} /\ ms[1] = f /\ f.id \in IdsOf(ms)
  BY DEF IdsOf
<1>2. ASSUME NEW m \in DOMAIN view'[p] PROVE (\E k : Old(m, k)) \/ New(m)
  <2>1. \A k \in Nat : 0 + k = k
    OBVIOUS
  <2> QED
    BY <1>1, <2>1, PlaceOf
<1>3. b \in Nat /\ Grows(rows, rows') /\ \A q \in Peers \ {p} : view'[q] = view[q]
  BY DEF Placed, Grows
<1>4. \A q \in Peers \ {p} : SameShown(q)
  BY <1>3, KeepOthersShown
<1>5. \A m, n, k, l : Old(m, k) /\ Old(n, l) /\ m < n => k < l
  OBVIOUS
<1>6. \A m, n, k : New(m) /\ Old(n, k) => n < m /\ ~(m < n)
  BY <1>3
<1>7. \A m, n : New(m) /\ New(n) => m = n /\ ~(m < n)
  BY <1>3
<1>11. \A m, k, u : Old(m, k) /\ m \in DOMAIN view'[p] /\ Heard(p, m, u)' => Heard(p, k, u)
  BY DEF Heard
<1>12. \A m, k : Old(m, k) /\ m \in Live(p)' => k \in Live(p) /\ view[p][k].id # f.id
  BY DEF Live
<1>13. \A m, u : New(m) /\ Heard(p, m, u)' => rows[f.id].from = u
  BY DEF Heard
<1>16. ASSUME NEW x, InList(p, x)' PROVE InList(p, x)
  <2>1. PICK m \in DOMAIN view'[p] : view'[p][m].by = "list" /\ view'[p][m].id = x
    BY <1>16 DEF InList
  <2>2. PICK k : Old(m, k)
    BY <1>2, <2>1
  <2> QED
    BY <2>1, <2>2 DEF InList
<1>17. ASSUME NEW x, NEW y, ListThen(p, x, y)' PROVE ListThen(p, x, y)
  <2>1. PICK m, n \in DOMAIN view'[p] :
          m < n /\ view'[p][m].by = "list" /\ view'[p][n].by = "list" /\ view'[p][m].id = x /\ view'[p][n].id = y
    BY <1>17 DEF ListThen
  <2>2. PICK k : Old(m, k)
    BY <1>2, <2>1
  <2>3. PICK l : Old(n, l)
    BY <1>2, <2>1
  <2> QED
    BY <1>5, <2>1, <2>2, <2>3 DEF ListThen
<1>18. ASSUME NEW x, NEW y, LiveThen(p, x, y)' PROVE LiveThen(p, x, y)
  <2>1. PICK m, n \in Live(p)' :
          m < n /\ view'[p][m].by = "list" /\ view'[p][n].by = "list" /\ view'[p][m].id = x /\ view'[p][n].id = y
    BY <1>18 DEF LiveThen
  <2>2. m \in DOMAIN view'[p] /\ n \in DOMAIN view'[p]
    BY <2>1 DEF Live
  <2>3. PICK k : Old(m, k)
    BY <1>2, <2>1, <2>2
  <2>4. PICK l : Old(n, l)
    BY <1>2, <2>1, <2>2
  <2> QED
    BY <1>5, <1>12, <2>1, <2>3, <2>4 DEF LiveThen
<1>19. ASSUME TwoLive(p)' PROVE TwoLive(p)
  <2>1. PICK m, n \in Live(p)' : m # n /\ view'[p][m].id = view'[p][n].id
    BY <1>19 DEF TwoLive
  <2>2. m \in DOMAIN view'[p] /\ n \in DOMAIN view'[p]
    BY <2>1 DEF Live
  <2>3. ASSUME NEW k, NEW l, Old(m, k), Old(n, l) PROVE TwoLive(p)
    BY <1>12, <2>1, <2>3 DEF TwoLive
  <2>4. \A k : ~(Old(m, k) /\ New(n))
    BY <1>12, <2>1
  <2>5. \A k : ~(New(m) /\ Old(n, k))
    BY <1>12, <2>1
  <2>6. ~(New(m) /\ New(n))
    BY <1>7, <2>1
  <2> HIDE DEF Old, New
  <2> QED
    BY <1>2, <2>2, <2>3, <2>4, <2>5, <2>6
<1>20. ASSUME NEW i, OnTimeShown(p, i)' PROVE OnTimeShown(p, i) \/ i = f.id
  <2>1. PICK m \in DOMAIN view'[p] : view'[p][m].by = "event" /\ view'[p][m].id = i /\ ~CameEarly(p, m)'
    BY <1>20 DEF OnTimeShown
  <2>2. CASE New(m)
    BY <2>1, <2>2
  <2>3. ASSUME NEW k, Old(m, k) PROVE OnTimeShown(p, i)
    <3>1. \A l \in DOMAIN view'[p] : m < l => view'[p][l].by # "list"
      BY <2>1 DEF CameEarly
    <3>2. ASSUME NEW l \in DOMAIN view[p], k < l PROVE view[p][l].by # "list"
      <4>1. l \in Nat /\ 0 + l \in DOMAIN view'[p] /\ view'[p][0 + l].by = view[p][l].by
        BY LenProperties DEF TInv, ViewOK, Placed
      <4>2. m < 0 + l
        BY <2>3, <3>2, <4>1
      <4> QED
        BY <3>1, <4>1, <4>2
    <3>3. view[p][k].by = "event" /\ view[p][k].id = i /\ k \in DOMAIN view[p]
      BY <2>1, <2>3
    <3> QED
      BY <3>2, <3>3 DEF OnTimeShown, CameEarly
  <2> HIDE DEF Old, New
  <2> QED
    BY <1>2, <2>2, <2>3
<1>21. ASSUME NEW u, NEW i, HeardIn(p, u, i)' PROVE HeardIn(p, u, i) \/ (i = f.id /\ rows[i].from = u)
  <2>1. PICK m \in DOMAIN view'[p] : Heard(p, m, u)' /\ view'[p][m].id = i
    BY <1>21 DEF HeardIn
  <2>2. CASE New(m)
    BY <1>13, <2>1, <2>2
  <2>3. ASSUME NEW k, Old(m, k) PROVE HeardIn(p, u, i)
    BY <1>11, <2>1, <2>3 DEF HeardIn
  <2> HIDE DEF Old, New
  <2> QED
    BY <1>2, <2>2, <2>3
<1>22. ASSUME NEW u, NEW i, NEW j, HeardThen(p, u, i, j)'
       PROVE  HeardThen(p, u, i, j) \/ (HeardIn(p, u, i) /\ j = f.id /\ rows[j].from = u)
  <2>1. PICK m, n \in DOMAIN view'[p] : m < n /\ Heard(p, m, u)' /\ Heard(p, n, u)' /\ view'[p][m].id = i /\ view'[p][n].id = j
    BY <1>22 DEF HeardThen
  <2>2. ~New(m)
    <3>1. New(m) /\ New(n) => FALSE
      BY <1>7, <2>1
    <3>2. \A k : New(m) /\ Old(n, k) => FALSE
      BY <1>6, <2>1
    <3> HIDE DEF Old, New
    <3> QED
      BY <1>2, <3>1, <3>2
  <2>3. PICK k : Old(m, k)
    BY <1>2, <2>2
  <2>4. HeardIn(p, u, i)
    BY <1>11, <2>1, <2>3 DEF HeardIn
  <2>5. ASSUME New(n) PROVE j = f.id /\ rows[j].from = u
    BY <1>13, <2>1, <2>5
  <2>6. ASSUME NEW l, Old(n, l) PROVE HeardThen(p, u, i, j)
    BY <1>5, <1>11, <2>1, <2>3, <2>6 DEF HeardThen
  <2> HIDE DEF Old, New
  <2> QED
    BY <1>2, <2>4, <2>5, <2>6
<1> QED
  BY <1>4, <1>16, <1>17, <1>18, <1>19, <1>20, <1>21, <1>22 DEF Told

(* The first page is read, or the first event.                             *)
LEMMA PageTaken ==
  ASSUME TInv, NEW f, Took(f), f.code = "history", work'[Me] = work[Me], NEW ms, ms = f.messages, NEW p, p = f.peer
  PROVE  /\ HasPage(p, ms)
         /\ \A ns : HasPage(p, ns)' => PageThen(p, ms, ns)
         /\ \A i : (\E n \in DOMAIN channel' : channel'[n].code \in {"message", "sent"} /\ channel'[n].id = i) => PageThenNews(p, ms, i)
<1>1. 1 \in DOMAIN channel /\ channel[1] = f /\ \A n \in DOMAIN channel' : n + 1 \in DOMAIN channel /\ channel'[n] = channel[n + 1] /\ 1 < n + 1
  BY DEF Took
<1>2. InChannel(1, p) /\ channel[1].messages = ms
  BY <1>1 DEF InChannel
<1>3. HasPage(p, ms)
  BY <1>1, <1>2 DEF HasPage
<1>4. ASSUME NEW ns, HasPage(p, ns)' PROVE PageThen(p, ms, ns)
  <2>1. ASSUME NEW n \in DOMAIN channel', InChannel(n, p)', channel'[n].messages = ns PROVE PageThen(p, ms, ns)
    <3>1. n + 1 \in DOMAIN channel /\ 1 < n + 1 /\ InChannel(n + 1, p) /\ channel[n + 1].messages = ns
      BY <1>1, <2>1 DEF InChannel
    <3> QED
      BY <1>1, <1>2, <3>1 DEF PageThen
  <2>2. ASSUME InWork(p)', work'[Me].messages = ns PROVE PageThen(p, ms, ns)
    <3>1. InWork(p) /\ work[Me].messages = ns
      BY <2>2 DEF InWork
    <3> QED
      BY <1>1, <1>2, <3>1 DEF PageThen
  <2> QED
    BY <1>4, <2>1, <2>2 DEF HasPage
<1>5. ASSUME NEW i, NEW n \in DOMAIN channel', channel'[n].code \in {"message", "sent"}, channel'[n].id = i PROVE PageThenNews(p, ms, i)
  <2>1. n + 1 \in DOMAIN channel /\ 1 < n + 1 /\ channel[n + 1] = channel'[n]
    BY <1>1
  <2> QED
    BY <1>1, <1>2, <1>5, <2>1 DEF PageThenNews
<1> QED
  BY <1>3, <1>4, <1>5

LEMMA NewsTaken ==
  ASSUME TInv, NEW f, Took(f), rows' = rows, NEW u, News(f, u)
  PROVE  Bears(u, f.id) /\ \A j : Bears(u, j)' => BearsThen(u, f.id, j)
<1>1. 1 \in DOMAIN channel /\ channel[1] = f /\ \A n \in DOMAIN channel' : n + 1 \in DOMAIN channel /\ channel'[n] = channel[n + 1] /\ 1 < n + 1
  BY DEF Took
<1>2. Bears(u, f.id)
  BY <1>1 DEF Bears
<1>3. ASSUME NEW j, Bears(u, j)' PROVE BearsThen(u, f.id, j)
  <2>1. PICK n \in DOMAIN channel' : News(channel[n], u)' /\ channel'[n].id = j
    BY <1>3 DEF Bears
  <2>2. n + 1 \in DOMAIN channel /\ 1 < n + 1 /\ News(channel[n + 1], u) /\ channel[n + 1].id = j
    BY <1>1, <2>1 DEF News
  <2> QED
    BY <1>1, <2>2 DEF BearsThen
<1> QED
  BY <1>2, <1>3

(* Deliver *)
Delivered(u, i) ==
  /\ Sending(u, i)
  /\ \A v \in Users : \A j : Sending(v, j)' => v # u /\ Sending(v, j)
  /\ \A v, j : Bears(v, j)' => Bears(v, j) \/ (v = u /\ j = i)
  /\ \A v, j, k : BearsThen(v, j, k)' => BearsThen(v, j, k) \/ (v = u /\ Bears(v, j) /\ k = i)
  /\ \A p, ms, j : PageThenNews(p, ms, j)' => PageThenNews(p, ms, j) \/ j = i

LEMMA NewsPut ==
  ASSUME TInv, rows' = rows, NEW u \in Users, NEW i, Sending(u, i), rows[i].from = u, work'[u].step = "idle", Others(u),
         NEW f, Put(f), f.code \in {"sent", "message"}, f.id = i
  PROVE  Delivered(u, i)
<1>1. \A n \in DOMAIN channel' : \/ n \in DOMAIN channel /\ channel'[n] = channel[n] /\ ~(Len(channel) + 1 < n)
                                 \/ n = Len(channel) + 1 /\ channel'[n] = f
  BY PutPlaces DEF Put
<1>2. \A m, n \in DOMAIN channel' : m < n => m \in DOMAIN channel
  BY PutPlaces DEF Put
<1>3. \A v \in Users : \A j : Sending(v, j)' => v # u /\ Sending(v, j)
  BY DEF Sending, Others
<1>4. ASSUME NEW n \in DOMAIN channel', NEW v, News(channel[n], v)'
      PROVE  (n \in DOMAIN channel /\ channel'[n] = channel[n] /\ News(channel[n], v)) \/ (v = u /\ channel'[n].id = i)
  BY <1>1, <1>4 DEF News
<1>5. ASSUME NEW v, NEW j, Bears(v, j)' PROVE Bears(v, j) \/ (v = u /\ j = i)
  <2>1. PICK n \in DOMAIN channel' : News(channel[n], v)' /\ channel'[n].id = j
    BY <1>5 DEF Bears
  <2> QED
    BY <1>4, <2>1 DEF Bears
<1>6. ASSUME NEW v, NEW j, NEW k, BearsThen(v, j, k)' PROVE BearsThen(v, j, k) \/ (v = u /\ Bears(v, j) /\ k = i)
  <2>1. PICK m, n \in DOMAIN channel' :
          m < n /\ News(channel[m], v)' /\ News(channel[n], v)' /\ channel'[m].id = j /\ channel'[n].id = k
    BY <1>6 DEF BearsThen
  <2>2. m \in DOMAIN channel /\ channel'[m] = channel[m]
    BY <1>2, <2>1 DEF Put
  <2>3. News(channel[m], v) /\ channel[m].id = j
    BY <2>1, <2>2 DEF News
  <2>4. Bears(v, j)
    BY <2>2, <2>3 DEF Bears
  <2> QED
    BY <1>4, <2>1, <2>2, <2>3, <2>4 DEF BearsThen
<1>7. ASSUME NEW p, NEW ms, NEW j, PageThenNews(p, ms, j)' PROVE PageThenNews(p, ms, j) \/ j = i
  <2>1. PICK m, n \in DOMAIN channel' :
          /\ m < n /\ InChannel(m, p)' /\ channel'[m].messages = ms
          /\ channel'[n].code \in {"message", "sent"} /\ channel'[n].id = j
    BY <1>7 DEF PageThenNews
  <2>2. m \in DOMAIN channel /\ channel'[m] = channel[m]
    BY <1>2, <2>1 DEF Put
  <2>3. InChannel(m, p) /\ channel[m].messages = ms
    BY <2>1, <2>2 DEF InChannel
  <2> QED
    BY <1>1, <2>1, <2>2, <2>3 DEF PageThenNews
<1> QED
  BY <1>3, <1>5, <1>6, <1>7 DEF Delivered

LEMMA NewsLost ==
  ASSUME TInv, rows' = rows, channel' = channel, NEW u \in Users, NEW i, Sending(u, i), work'[u].step = "idle", Others(u)
  PROVE  Delivered(u, i)
<1>1. \A v \in Users : \A j : Sending(v, j)' => v # u /\ Sending(v, j)
  BY DEF Sending, Others
<1>2. Grows(rows, rows') /\ Kin(channel, channel', {"message", "sent"})
  BY KinFrames DEF Grows
<1>3. NewsKept
  BY <1>2, KeepNews
<1> QED
  BY <1>1, <1>3 DEF Delivered, NewsKept

(* A page is read from the table.                                          *)
Fetched(p, b, ms) ==
  /\ Asked(p, b)
  /\ \A r, x : HasPage(r, x)' => HasPage(r, x) \/ (r = p /\ x = ms)
  /\ \A r, x, y : PageThen(r, x, y)' => PageThen(r, x, y) \/ (r = p /\ HasPage(p, x) /\ y = ms)
  /\ AsksKept
  /\ \A c : Asked(p, c)' => AskedThen(p, b, c)

LEMMA FetchEffect ==
  ASSUME TInv, NEW p \in Peers, NEW b, NEW q, GetLastMsgs(p, b, q), NEW ms, ms = LastMessages(Me, p, b, q)
  PROVE  /\ Fetched(p, b, ms) /\ SendingKept /\ NewsKept /\ SendsKept
         /\ \E r \in {requests[k] : k \in DOMAIN requests} : r.code = "history" /\ r.before = b /\ r.qty = q
<1>0. PICK r : r = [code |-> "history", peer |-> p, before |-> b, qty |-> q]
  OBVIOUS
<1>1. /\ Read(Me, r) /\ work[Me].step = "idle" /\ rows' = rows /\ channel' = channel /\ phase' = phase
      /\ work' = [work EXCEPT ![Me] = [step |-> "history", peer |-> p, messages |-> ms]]
  BY <1>0 DEF GetLastMsgs, Read, Idle, Then, client
<1>2. r.code = "history" /\ r.peer = p /\ r.before = b /\ r.qty = q
  BY <1>0
<1>3. work'[Me].step = "history" /\ work'[Me].peer = p /\ work'[Me].messages = ms /\ Others(Me)
  BY <1>1, Apart DEF TInv, WorkOK, Others
<1>4. /\ 1 \in DOMAIN requests /\ requests[1] = r
      /\ \A k \in Nat \ {0} : k \in DOMAIN requests' <=> k + 1 \in DOMAIN requests
      /\ \A k \in DOMAIN requests' : k \in Nat \ {0} /\ requests'[k] = requests[k + 1]
  BY <1>1, ReadEffect
<1>5. Kin(requests, requests', {"history", "send"})
  BY <1>1, KinRequests
<1>6. AsksKept /\ SendsKept
  BY <1>1, <1>5, KeepAsks, KeepSends
<1>7. Grows(rows, rows') /\ Kin(channel, channel', {"message", "sent"})
  BY <1>1, KinFrames DEF Grows
<1>8. NewsKept
  BY <1>7, KeepNews
<1>9. SendingKept
  BY <1>1, <1>3 DEF SendingKept, Sending, Others
<1>10. \A n, x : InChannel(n, x)' <=> InChannel(n, x)
  BY <1>1 DEF InChannel
<1>11. \A x : ~InWork(x) /\ (InWork(x)' <=> x = p)
  BY <1>1, <1>3 DEF InWork
<1>12. \A x, y : HasPage(x, y)' => HasPage(x, y) \/ (x = p /\ y = ms)
  BY <1>1, <1>3, <1>10, <1>11 DEF HasPage
<1>13. \A x, y, z : PageThen(x, y, z)' => PageThen(x, y, z) \/ (x = p /\ HasPage(p, y) /\ z = ms)
  BY <1>1, <1>3, <1>10, <1>11 DEF HasPage, PageThen
<1>14. InRequests(1, p) /\ requests[1].before = b
  BY <1>2, <1>4 DEF InRequests
<1>15. Asked(p, b)
  BY <1>4, <1>14 DEF Asked
<1>16. ASSUME NEW c, Asked(p, c)' PROVE AskedThen(p, b, c)
  <2>1. PICK k \in DOMAIN requests' : InRequests(k, p)' /\ requests'[k].before = c
    BY <1>16 DEF Asked
  <2>2. k + 1 \in DOMAIN requests /\ 1 < k + 1 /\ requests[k + 1] = requests'[k]
    BY <1>4
  <2>3. InRequests(k + 1, p) /\ requests[k + 1].before = c
    BY <2>1, <2>2 DEF InRequests
  <2> QED
    BY <1>4, <1>14, <2>2, <2>3 DEF AskedThen
<1>17. Fetched(p, b, ms)
  BY <1>6, <1>12, <1>13, <1>15, <1>16 DEF Fetched
<1> QED
  BY <1>2, <1>4, <1>6, <1>8, <1>9, <1>17

(* The user scrolls up.                                                    *)
ScrolledUp(p, c) ==
  /\ PagesKept
  /\ \A q, b : Asked(q, b)' => Asked(q, b) \/ (q = p /\ b = c)
  /\ \A q, b, d : AskedThen(q, b, d)' => AskedThen(q, b, d) \/ (q = p /\ Asked(p, b) /\ d = c)
  /\ \A k \in DOMAIN requests' : \A r : r = requests'[k] /\ r.code = "history" =>
       r.qty = Page \/ \E j \in DOMAIN requests : requests[j] = r
  /\ overlap \subseteq overlap'
  /\ p \notin overlap' => (\A ms : ~HasPage(p, ms)) /\ \A b : ~Asked(p, b)

LEMMA NoneOutstanding ==
  ASSUME TInv, NEW p \in Peers, ~(Outstanding(p) > 0)
  PROVE  (\A ms : ~HasPage(p, ms)) /\ \A b : ~Asked(p, b)
<1> DEFINE R == HistoriesIn(requests, p)
           C == HistoriesIn(channel, p)
<1>1. /\ DOMAIN requests = 1..Len(requests) /\ Len(requests) \in Nat
      /\ DOMAIN channel = 1..Len(channel) /\ Len(channel) \in Nat
  BY LenProperties DEF TInv, RequestsOK, ChannelOK
<1>2. IsFiniteSet(1..Len(requests)) /\ IsFiniteSet(1..Len(channel))
  BY <1>1, FS_Interval
<1>3. R \in SUBSET (1..Len(requests)) /\ C \in SUBSET (1..Len(channel))
  BY <1>1 DEF HistoriesIn
<1>4. IsFiniteSet(R) /\ IsFiniteSet(C)
  BY <1>2, <1>3, FS_Subset
<1>5. Cardinality(R) \in Nat /\ Cardinality(C) \in Nat
  BY <1>4, FS_CardinalityType
<1>6. Outstanding(p) = Cardinality(R) + Cardinality(C) + IF InWork(p) THEN 1 ELSE 0
  BY DEF Outstanding, InWork
<1> HIDE DEF R, C
<1>7. Cardinality(R) = 0 /\ Cardinality(C) = 0 /\ ~InWork(p)
  BY <1>5, <1>6
<1>8. R = {} /\ C = {}
  BY <1>4, <1>7, FS_EmptySet
<1>9. \A n : ~InChannel(n, p) /\ ~InRequests(n, p)
  BY <1>8 DEF R, C, HistoriesIn, InChannel, InRequests
<1> QED
  BY <1>7, <1>9 DEF HasPage, Asked

LEMMA ScrollEffect ==
  ASSUME TInv, NEW p \in Peers, UserScrollsUp(p), NEW c, c = cursor[p]
  PROVE  ScrolledUp(p, c) /\ SendingKept /\ NewsKept /\ SendsKept /\ c # 0
<1>0. PICK r : r = [code |-> "history", peer |-> p, before |-> c, qty |-> Page]
  OBVIOUS
<1>1. /\ Ask(<<r>>) /\ c # 0 /\ phase' = phase /\ overlap' = IF Outstanding(p) > 0 THEN overlap \cup {p} ELSE overlap
      /\ channel' = channel /\ work' = work /\ rows' = rows
  BY <1>0 DEF UserScrollsUp, server
<1>2. r.code = "history" /\ r.peer = p /\ r.before = c /\ r.qty = Page
  BY <1>0
<1>3. r \in Requests
  <2>1. c \in 0..MaxMessages
    BY DEF TInv, ClientOK
  <2> QED
    BY <1>0, <2>1 DEF Requests
<1> DEFINE N == Len(requests) + 1
<1>4. /\ Len(requests) \in Nat /\ DOMAIN requests = 1..Len(requests) /\ DOMAIN requests' = 1..N
      /\ requests'[N] = r
      /\ \A k \in DOMAIN requests : k \in DOMAIN requests' /\ requests'[k] = requests[k]
      /\ \A k \in DOMAIN requests' : k \in DOMAIN requests \/ k = N
  BY <1>1, <1>3, AskEffect
<1>5. \A j, k \in DOMAIN requests' : j < k => j \in DOMAIN requests
  BY <1>4
<1> HIDE DEF N
<1>6. \A k, q : InRequests(k, q)' => (k \in DOMAIN requests /\ InRequests(k, q)) \/ (k = N /\ q = p)
  BY <1>2, <1>4 DEF InRequests
<1>7. PagesKept
  <2>1. Kin(channel, channel', {"history"})
    BY <1>1, KinFrames
  <2> QED
    BY <1>1, <2>1, KeepPages
<1>8. NewsKept
  <2>1. Grows(rows, rows') /\ Kin(channel, channel', {"message", "sent"})
    BY <1>1, KinFrames DEF Grows
  <2> QED
    BY <2>1, KeepNews
<1>9. SendingKept
  BY <1>1 DEF SendingKept, Sending
<1>10. ASSUME NEW q, NEW b, Asked(q, b)' PROVE Asked(q, b) \/ (q = p /\ b = c)
  <2>1. PICK k \in DOMAIN requests' : InRequests(k, q)' /\ requests'[k].before = b
    BY <1>10 DEF Asked
  <2> QED
    BY <1>2, <1>4, <1>6, <2>1 DEF Asked
<1>11. ASSUME NEW q, NEW b, NEW d, AskedThen(q, b, d)' PROVE AskedThen(q, b, d) \/ (q = p /\ Asked(p, b) /\ d = c)
  <2>1. PICK j, k \in DOMAIN requests' :
          j < k /\ InRequests(j, q)' /\ InRequests(k, q)' /\ requests'[j].before = b /\ requests'[k].before = d
    BY <1>11 DEF AskedThen
  <2>2. j \in DOMAIN requests /\ requests'[j] = requests[j]
    BY <1>4, <1>5, <2>1
  <2>3. InRequests(j, q) /\ requests[j].before = b
    BY <2>1, <2>2 DEF InRequests
  <2>4. CASE k \in DOMAIN requests /\ InRequests(k, q)
    BY <1>4, <2>1, <2>2, <2>3, <2>4 DEF AskedThen
  <2>5. CASE k = N /\ q = p
    BY <1>2, <1>4, <2>1, <2>2, <2>3, <2>5 DEF Asked
  <2> QED
    BY <1>6, <2>1, <2>4, <2>5
<1>12. \A k \in DOMAIN requests' : \A x : x = requests'[k] /\ x.code = "history" =>
         x.qty = Page \/ \E j \in DOMAIN requests : requests[j] = x
  BY <1>2, <1>4
<1>13. SendsKept
  <2>1. ASSUME SendAsked' PROVE SendAsked
    BY <1>2, <1>4, <2>1 DEF SendAsked
  <2>2. ASSUME SendThenFirst' PROVE SendThenFirst
    <3>1. PICK j, k \in DOMAIN requests' :
            j < k /\ requests'[j].code = "send" /\ requests'[k].code = "history" /\ requests'[k].before = 0
      BY <2>2 DEF SendThenFirst
    <3>2. j \in DOMAIN requests /\ k \in DOMAIN requests
      BY <1>1, <1>2, <1>4, <1>5, <3>1
    <3> QED
      BY <1>4, <3>1, <3>2 DEF SendThenFirst
  <2> QED
    BY <1>1, <2>1, <2>2 DEF SendsKept
<1>14. p \notin overlap' => (\A ms : ~HasPage(p, ms)) /\ \A b : ~Asked(p, b)
  BY <1>1, NoneOutstanding
<1>15. ScrolledUp(p, c)
  BY <1>1, <1>7, <1>10, <1>11, <1>12, <1>14 DEF ScrolledUp
<1> QED
  BY <1>1, <1>8, <1>9, <1>13, <1>15

(* The client asks for the first histories.                                *)
AskedAll ==
  /\ \A p, ms : ~HasPage(p, ms)'
  /\ \A p, b : Asked(p, b)' => b = 0
  /\ SendThenFirst' => SendAsked
  /\ \A k \in DOMAIN requests' : requests'[k].code = "history" => requests'[k].before = 0

LEMMA UsersEffect ==
  ASSUME TInv, NInv, phase # "off", NEW first \in [Peers -> FirstPages], RecvUsers(first)
  PROVE  AskedAll /\ SendingKept /\ NewsKept
<1> DEFINE H(p) == [code |-> "history", peer |-> p, before |-> 0, qty |-> first[p]]
           S == {H(p) : p \in Peers}
<1>1. /\ channel # <<>> /\ Taken /\ Head(channel).code = "users" /\ phase = "users"
      /\ work' = work /\ rows' = rows /\ Ask(SetToSeq(S))
  BY DEF RecvUsers, Reads, server
<1>2. IsFiniteSet(S)
  <2> DEFINE f == [p \in Peers |-> H(p)]
  <2>1. f \in Surjection(Peers, S)
    BY DEF Surjection
  <2> HIDE DEF f, S
  <2> QED
    BY <2>1, MessengerAssumption, FS_Surjection
<1>3. \A p \in Peers : H(p) \in Requests
  BY MessengerAssumption DEF Requests
<1>e. \A x \in S : x \in Requests /\ x.code = "history" /\ x.before = 0
  BY <1>3
<1>4. PICK s : s = SetToSeq(S)
  OBVIOUS
<1> HIDE DEF S, H
<1>5. s \in Seq(S) /\ s \in Seq(Requests)
  BY <1>2, <1>4, <1>e, SetToSeqOf, SeqDef
<1>6. \A j \in DOMAIN s : s[j].code = "history" /\ s[j].before = 0
  BY <1>5, <1>e, ElementOfSeq, LenProperties
<1> DEFINE K == Len(requests)
<1>7. /\ K \in Nat /\ DOMAIN requests = 1..K
      /\ \A k \in DOMAIN requests : k \in DOMAIN requests' /\ requests'[k] = requests[k]
      /\ \A k \in DOMAIN requests' :
           k \in DOMAIN requests \/ \E j \in DOMAIN s : k = K + j /\ requests'[k] = s[j]
  BY <1>1, <1>4, <1>5, AskAll
<1> HIDE DEF K
<1>8. \A p \in Peers : ~Awaited(p)
  BY <1>1 DEF NInv, Counted
<1>9. \A k \in DOMAIN requests : requests[k].code # "history"
  <2>1. ASSUME NEW k \in DOMAIN requests, requests[k].code = "history" PROVE FALSE
    <3>1. requests[k].peer \in Peers
      BY <2>1, RequestTypes, ElementOfSeq, LenProperties DEF TInv, RequestsOK
    <3> QED
      BY <1>8, <2>1, <3>1 DEF Awaited, InRequests
  <2> QED
    BY <2>1
<1>10. \A k \in DOMAIN requests' : requests'[k].code = "history" => requests'[k].before = 0
  BY <1>6, <1>7, <1>9
<1>11. \A p, b : Asked(p, b)' => b = 0
  BY <1>10 DEF Asked, InRequests
<1>12. SendThenFirst' => SendAsked
  BY <1>6, <1>7 DEF SendThenFirst, SendAsked
<1>13. PICK f : f = Head(channel)
  OBVIOUS
<1>14. Took(f)
  BY <1>1, <1>13, TakenEffect
<1>15. Kin(channel, channel', {"history"}) /\ Kin(channel, channel', {"message", "sent"}) /\ Grows(rows, rows')
  BY <1>1, <1>14, KinFrames DEF Grows
<1>16. PagesKept /\ NewsKept
  BY <1>1, <1>15, KeepPages, KeepNews
<1>17. \A p, ms : ~HasPage(p, ms)
  <2>1. ASSUME NEW p, NEW ms, HasPage(p, ms) PROVE FALSE
    <3>1. (\E n \in DOMAIN channel : InChannel(n, p)) \/ InWork(p)
      BY <2>1 DEF HasPage
    <3>2. p \in Peers
      BY <3>1, WorkTypes DEF InChannel, InWork, TInv, ChannelOK, FrameFits, Frames, WorkOK, WorkFits, Users
    <3> QED
      BY <1>8, <3>1, <3>2 DEF Awaited
  <2> QED
    BY <2>1
<1>18. SendingKept
  BY <1>1 DEF SendingKept, Sending
<1> QED
  BY <1>10, <1>11, <1>12, <1>16, <1>17, <1>18 DEF AskedAll, PagesKept

-----------------------------------------------------------------------------
(* Every step does one of the following.                                   *)
ListsSame(p) ==
  /\ \A x : InList(p, x)' => InList(p, x)
  /\ \A x, y : ListThen(p, x, y)' => ListThen(p, x, y)
  /\ \A x, y : LiveThen(p, x, y)' => LiveThen(p, x, y)
  /\ TwoLive(p)' => TwoLive(p)

EventsSame(p) ==
  /\ \A i : OnTimeShown(p, i)' => OnTimeShown(p, i)
  /\ \A u, i : HeardIn(p, u, i)' => HeardIn(p, u, i)
  /\ \A u, i, j : HeardThen(p, u, i, j)' => HeardThen(p, u, i, j)

ListsStay == PagesKept /\ AsksKept /\ cursor' = cursor /\ overlap' = overlap /\ \A p \in Peers : ListsSame(p)
EventsStay == \A p \in Peers : EventsSame(p)

(* Nothing happens to any of it.                                           *)
Still == ListsStay /\ EventsStay /\ NewsKept /\ SendingKept /\ SendsKept /\ DOMAIN rows' = DOMAIN rows

(* u stores i for v *)
Stores(u, v, i) ==
  /\ ListsStay /\ EventsStay /\ NewsKept /\ SendsKept /\ Inserts(u, v, i)
  /\ u = Me => SendAsked /\ \A p : Asked(p, 0) => SendThenFirst

(* u is done with i *)
Delivers(u, i) == ListsStay /\ EventsStay /\ SendsKept /\ rows' = rows /\ Delivered(u, i)

LEMMA Standing ==
  ASSUME TInv, NEW C, Kin(channel, channel', C), "history" \in C, NEW B, Kin(requests, requests', B), {"history", "send"} \subseteq B,
         work'[Me].step = "history" => work'[Me] = work[Me], phase' = "users" => phase = "users",
         \A p \in Peers : SameShown(p), cursor' = cursor, overlap' = overlap
  PROVE  ListsStay /\ EventsStay /\ SendsKept
<1>1. PagesKept
  BY KeepPages
<1>2. AsksKept /\ SendsKept
  BY KeepAsks, KeepSends
<1>3. \A p \in Peers : ListsSame(p) /\ EventsSame(p)
  BY DEF SameShown, ListsSame, EventsSame
<1> QED
  BY <1>1, <1>2, <1>3 DEF ListsStay, EventsStay

LEMMA StandingNews ==
  ASSUME TInv, Grows(rows, rows'), DOMAIN rows' = DOMAIN rows,
         NEW C, Kin(channel, channel', C), {"history", "message", "sent"} \subseteq C,
         NEW B, Kin(requests, requests', B), {"history", "send"} \subseteq B,
         work'[Me].step = "history" => work'[Me] = work[Me], phase' = "users" => phase = "users", SendingKept,
         \A p \in Peers : SameShown(p), cursor' = cursor, overlap' = overlap
  PROVE  Still
<1>1. ListsStay /\ EventsStay /\ SendsKept
  BY Standing
<1>2. NewsKept
  BY KeepNews
<1> QED
  BY <1>1, <1>2 DEF Still

LEMMA InsertStores ==
  ASSUME TInv, [Next]_vars, NEW u \in Users, NEW v \in Users \ {u}, Insert(u, v)
  PROVE  Still \/ \E i : Stores(u, v, i)
<1>1. /\ UNCHANGED <<rows, work>> \/ (\E i : Inserts(u, v, i))
      /\ channel' = channel /\ phase' = phase /\ view' = view /\ cursor' = cursor /\ overlap' = overlap
      /\ Read(u, [code |-> "send", peer |-> v])
  BY InsertEffect DEF client
<1>2. Grows(rows, rows')
  BY RowsStep DEF TInv
<1>3. Kin(channel, channel', {"history", "message", "sent"}) /\ Kin(requests, requests', {"history", "send"})
  BY <1>1, KinFrames, KinRequests
<1>4. \A p \in Peers : SameShown(p)
  BY <1>1, <1>2, KeepShownAll
<1>5. CASE UNCHANGED <<rows, work>>
  <2>1. SendingKept
    BY <1>5 DEF SendingKept, Sending
  <2> QED
    BY <1>1, <1>2, <1>3, <1>4, <1>5, <2>1, StandingNews
<1>6. ASSUME NEW i, Inserts(u, v, i) PROVE Stores(u, v, i)
  <2>1. work'[Me].step = "history" => work'[Me] = work[Me]
    BY <1>6, Apart DEF Inserts, Others
  <2>2. ListsStay /\ EventsStay /\ SendsKept
    BY <1>1, <1>3, <1>4, <2>1, Standing
  <2>3. NewsKept
    BY <1>2, <1>3, KeepNews
  <2>4. ASSUME u = Me PROVE SendAsked /\ \A p : Asked(p, 0) => SendThenFirst
    <3> PICK r : r = [code |-> "send", peer |-> v]
      OBVIOUS
    <3>1. r.code = "send" /\ Read(Me, r)
      BY <1>1, <2>4
    <3>2. 1 \in DOMAIN requests /\ requests[1] = r
      BY <3>1, ReadEffect
    <3>3. \A k \in DOMAIN requests : k = 1 \/ 1 < k
      BY LenProperties DEF TInv, RequestsOK
    <3>4. SendAsked
      BY <3>1, <3>2 DEF SendAsked
    <3>5. ASSUME NEW p, Asked(p, 0) PROVE SendThenFirst
      BY <3>1, <3>2, <3>3, <3>5 DEF Asked, InRequests, SendThenFirst
    <3> QED
      BY <3>4, <3>5
  <2> QED
    BY <1>6, <2>2, <2>3, <2>4 DEF Stores
<1> QED
  BY <1>1, <1>5, <1>6

LEMMA DeliverDelivers ==
  ASSUME TInv, phase # "off", NEW u \in Users, Deliver(u)
  PROVE  \E i : Delivers(u, i)
<1>0. PICK i : i = work[u].id
  OBVIOUS
<1>1. /\ Sending(u, i) /\ rows' = rows /\ requests' = requests
      /\ phase' = phase /\ view' = view /\ cursor' = cursor /\ overlap' = overlap
      /\ work'[u].step = "idle" /\ Others(u) /\ rows[i].from = u
      /\ \/ channel' = channel
         \/ \E f : Put(f) /\ f.code \in {"sent", "message"} /\ f.id = i
  BY <1>0, DeliverEffect DEF client
<1>2. Grows(rows, rows')
  BY <1>1 DEF Grows
<1>3. Kin(channel, channel', {"history"}) /\ Kin(requests, requests', {"history", "send"})
  BY <1>1, KinFrames, KinRequests
<1>4. \A p \in Peers : SameShown(p)
  BY <1>1, <1>2, KeepShownAll
<1>5. work'[Me].step = "history" => work'[Me] = work[Me]
  BY <1>1, Apart DEF Others
<1>6. ListsStay /\ EventsStay /\ SendsKept
  BY <1>1, <1>3, <1>4, <1>5, Standing
<1>7. Delivered(u, i)
  BY <1>1, NewsPut, NewsLost
<1> QED
  BY <1>1, <1>6, <1>7 DEF Delivers

LEMMA ThreadsStill ==
  ASSUME TInv, [Next]_vars, phase # "off", NEW u \in Users,
         AddContacts(u) \/ (\E i \in Ids : Update(u, i) \/ Delete(u, i)) \/ Notify(u)
  PROVE  Still
<1>0. Grows(rows, rows')
  BY RowsStep DEF TInv
<1>1. ASSUME NEW i \in Ids, Update(u, i) \/ Delete(u, i) PROVE Still
  <2>1. /\ UNCHANGED <<rows, work>> \/ (\E t : Changes(u, i, t))
        /\ channel' = channel /\ phase' = phase /\ view' = view /\ cursor' = cursor /\ overlap' = overlap
        /\ \E c \in {"update", "delete"} : Read(u, [code |-> c, id |-> i])
    BY <1>1, ChangeEffect DEF client
  <2>2. Kin(channel, channel', {"history", "message", "sent"}) /\ Kin(requests, requests', {"history", "send"})
    BY <2>1, KinFrames, KinRequests
  <2>3. \A p \in Peers : SameShown(p)
    BY <1>0, <2>1, KeepShownAll
  <2>4. SendingKept /\ DOMAIN rows' = DOMAIN rows /\ (work'[Me].step = "history" => work'[Me] = work[Me])
    <3>1. CASE UNCHANGED <<rows, work>>
      BY <3>1 DEF SendingKept, Sending
    <3>2. ASSUME NEW t, Changes(u, i, t) PROVE SendingKept /\ DOMAIN rows' = DOMAIN rows /\ (work'[Me].step = "history" => work'[Me] = work[Me])
      <4>1. work'[u].step \in {"idle", "notify"} /\ Others(u) /\ DOMAIN rows' = DOMAIN rows
        BY <3>2 DEF Changes, Notifying, NoWork
      <4> QED
        BY <4>1, Apart DEF SendingKept, Sending, Others
    <3> QED
      BY <2>1, <3>1, <3>2
  <2> QED
    BY <1>0, <2>1, <2>2, <2>3, <2>4, StandingNews
<1>2. CASE AddContacts(u)
  <2>1. /\ work[u].step = "contacts" /\ work' = [work EXCEPT ![u] = [work[u] EXCEPT !.step = "deliver"]]
        /\ channel' = channel /\ requests' = requests /\ rows' = rows
        /\ phase' = phase /\ view' = view /\ cursor' = cursor /\ overlap' = overlap
    BY <1>2 DEF AddContacts, Then, client
  <2>2. work[u] \in [step : {"contacts", "deliver"}, id : Ids]
    BY <2>1 DEF TInv, WorkOK, WorkFits, Works, NoWork
  <2>3. work'[u] = [work[u] EXCEPT !.step = "deliver"] /\ Others(u)
    BY <2>1, ThenEffect DEF TInv
  <2>4. work'[u].step = "deliver" /\ work'[u].id = work[u].id
    BY <2>2, <2>3
  <2>5. SendingKept
    BY <2>1, <2>3, <2>4 DEF SendingKept, Sending, Others
  <2>6. work'[Me].step = "history" => work'[Me] = work[Me]
    BY <2>3, <2>4, Apart DEF Others
  <2>7. Kin(channel, channel', {"history", "message", "sent"}) /\ Kin(requests, requests', {"history", "send"})
    BY <2>1, KinFrames, KinRequests
  <2>8. \A p \in Peers : SameShown(p)
    BY <1>0, <2>1, KeepShownAll
  <2> QED
    BY <1>0, <2>1, <2>5, <2>6, <2>7, <2>8, StandingNews
<1>3. CASE Notify(u)
  <2>1. /\ rows' = rows /\ requests' = requests
        /\ phase' = phase /\ view' = view /\ cursor' = cursor /\ overlap' = overlap
        /\ work'[u].step = "idle" /\ Others(u)
        /\ \E f : Put(f) /\ f.code \in {"changed", "deleted"}
    BY <1>3, NotifyEffect DEF Change, client
  <2>2. Kin(channel, channel', {"history", "message", "sent"}) /\ Kin(requests, requests', {"history", "send"})
    BY <2>1, KinFrames, KinRequests
  <2>3. \A p \in Peers : SameShown(p)
    BY <1>0, <2>1, KeepShownAll
  <2>4. SendingKept /\ (work'[Me].step = "history" => work'[Me] = work[Me])
    BY <2>1, Apart DEF SendingKept, Sending, Others
  <2> QED
    BY <1>0, <2>1, <2>2, <2>3, <2>4, StandingNews
<1> QED
  BY <1>1, <1>2, <1>3

LEMMA GettingStill ==
  ASSUME TInv, phase # "off", GetUsers \/ GetGroups \/ UNCHANGED vars
  PROVE  Still
<1>1. /\ rows' = rows /\ work' = work
      /\ phase' = phase /\ view' = view /\ cursor' = cursor /\ overlap' = overlap
  BY DEF GetUsers, GetGroups, vars, server, client
<1>2. Kin(channel, channel', {"history", "message", "sent"}) /\ Kin(requests, requests', {"history", "send"})
  <2>1. CASE UNCHANGED vars
    <3>1. channel' = channel /\ requests' = requests
      BY <2>1 DEF vars
    <3> QED
      BY <3>1, KinFrames, KinRequests
  <2>2. ASSUME NEW c, NEW d \in {"users", "error", "groups"}, c \in {"users", "groups"}, Read(Me, [code |-> c]), Write([code |-> d])
        PROVE  Kin(channel, channel', {"history", "message", "sent"}) /\ Kin(requests, requests', {"history", "send"})
    <3> PICK f : f = [code |-> d]
      OBVIOUS
    <3>1. f \in Frames /\ f.code = d
      BY DEF Frames
    <3>2. Put(f)
      BY <2>2, <3>1, WriteEffect
    <3> QED
      BY <2>2, <3>1, <3>2, KinFrames, KinRequests
  <2> QED
    BY <2>1, <2>2 DEF GetUsers, GetGroups
<1>3. Grows(rows, rows') /\ SendingKept
  BY <1>1 DEF Grows, SendingKept, Sending
<1>4. \A p \in Peers : SameShown(p)
  BY <1>1, <1>3, KeepShownAll
<1> QED
  BY <1>1, <1>2, <1>3, <1>4, StandingNews

(* The page moves from the thread's hands to the end of the channel.       *)
LEMMA SendHistoryStill ==
  ASSUME TInv, phase # "off", SendHistory
  PROVE  Still
<1>0. PICK w : w = work[Me]
  OBVIOUS
<1>1. PICK f : f = [code |-> "history", peer |-> w.peer, messages |-> w.messages]
  OBVIOUS
<1>2. /\ w.step = "history" /\ Write(f) /\ work' = [work EXCEPT ![Me] = NoWork]
      /\ rows' = rows /\ requests' = requests
      /\ phase' = phase /\ view' = view /\ cursor' = cursor /\ overlap' = overlap
  BY <1>0, <1>1 DEF SendHistory, Then, client
<1>3. WorkFits(Me, w, rows)
  BY <1>0, Apart DEF TInv, WorkOK
<1>4. f \in Frames /\ f.code = "history" /\ f.peer = w.peer /\ f.messages = w.messages
  BY <1>1, <1>2, <1>3, WorkTypes DEF WorkFits, Frames
<1>5. Put(f)
  BY <1>2, <1>4, WriteEffect
<1>6. work'[Me].step = "idle" /\ Others(Me)
  <2>1. work'[Me] = NoWork /\ Others(Me)
    BY <1>2, Apart, ThenEffect DEF TInv
  <2> QED
    BY <2>1 DEF NoWork
<1>7. Kin(channel, channel', {"message", "sent"}) /\ Kin(requests, requests', {"history", "send"})
  BY <1>2, <1>4, <1>5, KinFrames, KinRequests
<1>8. Grows(rows, rows')
  BY <1>2 DEF Grows
<1>9. (\A p \in Peers : SameShown(p)) /\ AsksKept /\ SendsKept /\ NewsKept
  BY <1>2, <1>7, <1>8, KeepShownAll, KeepAsks, KeepSends, KeepNews
<1>10. SendingKept
  BY <1>0, <1>2, <1>6 DEF SendingKept, Sending, Others
<1> DEFINE N == Len(channel) + 1
<1>11. /\ \A n \in DOMAIN channel' : (n \in DOMAIN channel /\ channel'[n] = channel[n]) \/ (n = N /\ channel'[n] = f)
       /\ \A m, n \in DOMAIN channel' : m < n => m \in DOMAIN channel /\ channel'[m] = channel[m]
  <2>1. \A n \in DOMAIN channel' : (n \in DOMAIN channel /\ channel'[n] = channel[n]) \/ (n = N /\ channel'[n] = f)
    BY <1>5, PutPlaces
  <2>2. \A m, n \in DOMAIN channel' : m < n => m \in DOMAIN channel
    BY <1>5 DEF Put
  <2> QED
    BY <1>5, <2>1, <2>2 DEF Put
<1> HIDE DEF N
<1>12. /\ \A p : ~InWork(p)' /\ (InWork(p) <=> p = w.peer)
       /\ \A n, p : n \in DOMAIN channel' /\ InChannel(n, p)' => (n \in DOMAIN channel /\ InChannel(n, p)) \/ (n = N /\ p = w.peer)
  BY <1>0, <1>2, <1>4, <1>6, <1>11 DEF InWork, InChannel
<1>13. ASSUME NEW p, NEW ms, HasPage(p, ms)' PROVE HasPage(p, ms)
  <2>1. PICK n \in DOMAIN channel' : InChannel(n, p)' /\ channel'[n].messages = ms
    BY <1>12, <1>13 DEF HasPage
  <2>2. CASE n \in DOMAIN channel /\ channel'[n] = channel[n]
    BY <2>1, <2>2 DEF HasPage, InChannel
  <2>3. CASE n = N /\ channel'[n] = f
    <3>1. p = w.peer /\ ms = w.messages
      BY <1>4, <2>1, <2>3 DEF InChannel
    <3> QED
      BY <1>0, <1>12, <3>1 DEF HasPage
  <2> QED
    BY <1>11, <2>1, <2>2, <2>3
<1>14. ASSUME NEW p, NEW ms, NEW ns, PageThen(p, ms, ns)' PROVE PageThen(p, ms, ns)
  <2>1. PICK m, n \in DOMAIN channel' :
          m < n /\ InChannel(m, p)' /\ InChannel(n, p)' /\ channel'[m].messages = ms /\ channel'[n].messages = ns
    BY <1>12, <1>14 DEF PageThen
  <2>2. m \in DOMAIN channel /\ channel[m].messages = ms /\ InChannel(m, p)
    BY <1>11, <2>1 DEF InChannel
  <2>3. CASE n \in DOMAIN channel /\ channel'[n] = channel[n]
    BY <2>1, <2>2, <2>3 DEF PageThen, InChannel
  <2>4. CASE n = N /\ channel'[n] = f
    <3>1. p = w.peer /\ ns = w.messages
      BY <1>4, <2>1, <2>4 DEF InChannel
    <3> QED
      BY <1>0, <1>12, <2>2, <3>1 DEF PageThen
  <2> QED
    BY <1>11, <2>1, <2>3, <2>4
<1>15. PagesKept
  BY <1>13, <1>14 DEF PagesKept
<1> QED
  BY <1>2, <1>9, <1>10, <1>15 DEF Still, ListsStay, EventsStay, SameShown, ListsSame, EventsSame

LEMMA UserStill ==
  ASSUME TInv, phase # "off", NEW p \in Peers,
         UserSends(p) \/ \E k \in DOMAIN view[p] : UserChanges(p, k) \/ UserDeletes(p, k)
  PROVE  Still
<1>1. /\ rows' = rows /\ work' = work /\ channel' = channel /\ phase' = phase /\ phase # "users"
      /\ cursor' = cursor /\ overlap' = overlap
  BY DEF UserSends, UserChanges, UserDeletes, MayAsk, server, client
<1>2. Grows(rows, rows') /\ SendingKept
  BY <1>1 DEF Grows, SendingKept, Sending
<1>3. Kin(channel, channel', {"history", "message", "sent"})
  BY <1>1, KinFrames
<1>4. CASE UserSends(p)
  <2> PICK r : r = [code |-> "send", peer |-> p]
    OBVIOUS
  <2>1. Ask(<<r>>) /\ view' = view
    BY <1>4 DEF UserSends, client
  <2>2. r \in Requests /\ r.code = "send"
    BY Apart DEF Requests
  <2>3. Kin(requests, requests', {"history"})
    BY <2>1, <2>2, KinRequests
  <2>4. \A q \in Peers : SameShown(q)
    BY <1>2, <2>1, KeepShownAll
  <2>5. AsksKept /\ PagesKept /\ NewsKept
    BY <1>1, <1>2, <1>3, <2>3, KeepAsks, KeepPages, KeepNews
  <2>6. ASSUME SendThenFirst' PROVE SendThenFirst
    <3> DEFINE N == Len(requests) + 1
    <3>1. /\ Len(requests) \in Nat /\ DOMAIN requests = 1..Len(requests) /\ DOMAIN requests' = 1..N
          /\ requests'[N] = r
          /\ \A k \in DOMAIN requests : k \in DOMAIN requests' /\ requests'[k] = requests[k]
          /\ \A k \in DOMAIN requests' : k \in DOMAIN requests \/ k = N
      BY <2>1, <2>2, AskEffect
    <3>2. PICK j, k \in DOMAIN requests' :
            j < k /\ requests'[j].code = "send" /\ requests'[k].code = "history" /\ requests'[k].before = 0
      BY <2>6 DEF SendThenFirst
    <3>3. k \in DOMAIN requests /\ j \in DOMAIN requests
      BY <2>2, <3>1, <3>2
    <3> QED
      BY <3>1, <3>2, <3>3 DEF SendThenFirst
  <2>7. SendsKept
    BY <1>1, <2>6 DEF SendsKept
  <2> QED
    BY <1>1, <1>2, <2>4, <2>5, <2>7 DEF Still, ListsStay, EventsStay, SameShown, ListsSame, EventsSame
<1>5. ASSUME NEW l \in DOMAIN view[p], UserChanges(p, l) \/ UserDeletes(p, l) PROVE Still
  <2>1. PICK c \in {"update", "delete"}, o \in Peers : \E m \in DOMAIN view[o] : Ask(<<[code |-> c, id |-> view[o][m].id]>>)
    BY <1>5 DEF UserChanges, UserDeletes
  <2>m. PICK m \in DOMAIN view[o] : Ask(<<[code |-> c, id |-> view[o][m].id]>>)
    BY <2>1
  <2>2. view[p][l] \in ShownEntries
    <3>1. view[p] \in Seq(ShownEntries)
      BY DEF TInv, ViewOK
    <3> QED
      BY <3>1, ElementOfSeq, LenProperties
  <2>3. [code |-> c, id |-> view[o][m].id] \in Requests
    <3>1. view[o] \in Seq(ShownEntries)
      BY DEF TInv, ViewOK
    <3>2. view[o][m] \in ShownEntries
      BY <3>1, ElementOfSeq, LenProperties
    <3> QED
      BY <3>2 DEF ShownEntries, Requests
  <2>4. Kin(requests, requests', {"history", "send"})
    <3> PICK r : r = [code |-> c, id |-> view[o][m].id]
      OBVIOUS
    <3>1. r.code \notin {"history", "send"} /\ r \in Requests /\ Ask(<<r>>)
      BY <2>m, <2>3
    <3> QED
      BY <3>1, KinRequests
  <2>5. PICK x : view' = [view EXCEPT ![p][l].text = x]
    BY <1>5 DEF UserChanges, UserDeletes
  <2>6. PICK s : s = [view[p] EXCEPT ![l].text = x]
    OBVIOUS
  <2>7. view'[p] = s /\ \A q \in Peers \ {p} : view'[q] = view[q]
    BY <2>5, <2>6 DEF TInv, ViewOK
  <2>8. DOMAIN s = DOMAIN view[p] /\ (\A k \in DOMAIN view[p] : k # l => s[k] = view[p][k])
    BY <2>6
  <2>9. s[l].id = view[p][l].id /\ s[l].by = view[p][l].by /\ s[l].live = view[p][l].live
    BY <2>2, <2>6 DEF ShownEntries
  <2>10. \A k \in DOMAIN view[p] : /\ view'[p][k].id = view[p][k].id /\ view'[p][k].by = view[p][k].by
                                   /\ view'[p][k].live => view[p][k].live
    BY <2>7, <2>8, <2>9
  <2>11. SameShown(p)
    BY <1>2, <2>7, <2>8, <2>10, KeepShown
  <2>12. \A q \in Peers \ {p} : SameShown(q)
    BY <1>2, <2>7, KeepOthersShown
  <2> QED
    BY <1>1, <1>2, <1>3, <2>4, <2>11, <2>12, StandingNews
<1> QED
  BY <1>4, <1>5

LEMMA ReceivingStill ==
  ASSUME TInv, phase # "off",
         RecvGroups \/ RecvChange \/ (RecvSent /\ phase # "ready") \/ (RecvHistory /\ phase \notin {"histories", "ready"})
  PROVE  Still
<1>1. PICK f : f = Head(channel)
  OBVIOUS
<1>2. /\ rows' = rows /\ work' = work /\ requests' = requests /\ (phase' = "users" => phase = "users")
      /\ cursor' = cursor /\ overlap' = overlap /\ channel # <<>> /\ Taken
      /\ view' = view \/ RecvChange
  BY DEF RecvGroups, RecvChange, RecvSent, RecvHistory, Reads, server, client
<1>3. Took(f)
  BY <1>1, <1>2, TakenEffect
<1>4. Grows(rows, rows') /\ SendingKept
  BY <1>2 DEF Grows, SendingKept, Sending
<1>5. Kin(channel, channel', {"history", "message", "sent"}) /\ Kin(requests, requests', {"history", "send"})
  BY <1>2, <1>3, KinFrames, KinRequests
<1>6. \A p \in Peers : SameShown(p)
  <2>1. CASE view' = view
    BY <1>4, <2>1, KeepShownAll
  <2>2. CASE RecvChange
    <3>1. f \in Frames /\ f.code \in {"changed", "deleted"}
      BY <1>1, <1>3, <2>2 DEF RecvChange, Reads, Took, FrameFits
    <3>2. f.peer \in Peers
      BY <3>1, FrameTypes
    <3>3. PICK s : s = [k \in DOMAIN view[f.peer] |->
                          IF view[f.peer][k].id = f.id /\ view[f.peer][k].live THEN [view[f.peer][k] EXCEPT !.text = f.text] ELSE view[f.peer][k]]
      OBVIOUS
    <3>4. view' = [view EXCEPT ![f.peer] = s]
      BY <1>1, <2>2, <3>3 DEF RecvChange
    <3>5. view'[f.peer] = s /\ \A q \in Peers \ {f.peer} : view'[q] = view[q]
      BY <3>2, <3>4 DEF TInv, ViewOK
    <3>6. DOMAIN s = DOMAIN view[f.peer]
      BY <3>3
    <3>7. ASSUME NEW k \in DOMAIN view[f.peer]
          PROVE  s[k].id = view[f.peer][k].id /\ s[k].by = view[f.peer][k].by /\ (s[k].live => view[f.peer][k].live)
      <4> DEFINE d == view[f.peer][k]
      <4>1. view[f.peer] \in Seq(ShownEntries)
        BY <3>2 DEF TInv, ViewOK
      <4>2. d \in ShownEntries
        BY <4>1, ElementOfSeq, LenProperties
      <4>3. s[k] = [d EXCEPT !.text = f.text] \/ s[k] = d
        BY <3>3
      <4> HIDE DEF d
      <4>4. s[k].id = d.id /\ s[k].by = d.by /\ s[k].live = d.live
        <5>1. CASE s[k] = d
          BY <5>1
        <5>2. CASE s[k] = [d EXCEPT !.text = f.text]
          BY <4>2, <5>2 DEF ShownEntries
        <5> QED
          BY <4>3, <5>1, <5>2
      <4> QED
        BY <4>4 DEF d
    <3>8. SameShown(f.peer)
      BY <1>4, <3>2, <3>5, <3>6, <3>7, KeepShown
    <3>9. \A q \in Peers \ {f.peer} : SameShown(q)
      BY <1>4, <3>5, KeepOthersShown
    <3> QED
      BY <3>8, <3>9
  <2> QED
    BY <1>2, <2>1, <2>2
<1> QED
  BY <1>2, <1>4, <1>5, <1>6, StandingNews

(* An event of u is shown in the chat with p.                              *)
Tells(p, f, u) ==
  /\ PagesKept /\ AsksKept /\ NewsKept /\ SendingKept /\ SendsKept
  /\ cursor' = cursor /\ overlap' = overlap /\ rows' = rows
  /\ Told(p, f) /\ Is(f.id, u, IF u = Me THEN p ELSE Me, rows) /\ (u = p \/ u = Me)
  /\ Bears(u, f.id) /\ \A j : Bears(u, j)' => BearsThen(u, f.id, j)

LEMMA EventTells ==
  ASSUME TInv, phase # "off", RecvMessage \/ (RecvSent /\ phase = "ready")
  PROVE  \E p \in Peers, u \in Users : \E f : Tells(p, f, u)
<1>1. PICK f : f = Head(channel)
  OBVIOUS
<1>s. PICK s : s = <<f>>
  OBVIOUS
<1>2. /\ rows' = rows /\ work' = work /\ requests' = requests /\ phase' = phase
      /\ cursor' = cursor /\ overlap' = overlap /\ channel # <<>> /\ Taken
      /\ f.code \in {"sent", "message"} /\ Below(f.peer, s, "event")
  BY <1>1, <1>s DEF RecvMessage, RecvSent, Reads, server
<1>3. Took(f) /\ FrameFits(f, rows)
  BY <1>1, <1>2, TakenEffect DEF Took
<1>4. Grows(rows, rows') /\ SendingKept
  BY <1>2 DEF Grows, SendingKept, Sending
<1>5. Kin(channel, channel', {"history", "message", "sent"}) /\ Kin(requests, requests', {"history", "send"})
  BY <1>2, <1>3, KinFrames, KinRequests
<1>6. PagesKept /\ AsksKept /\ NewsKept /\ SendsKept
  BY <1>2, <1>4, <1>5, KeepPages, KeepAsks, KeepNews, KeepSends
<1>7. f.peer \in Peers /\ Showable(s, f.peer, rows)
  BY <1>2, <1>3, <1>s, EventShowable
<1>8. \E a, b : Placed(f.peer, s, "event", a, b) /\ a = 0 /\ \A k \in DOMAIN view[f.peer] : k <= b
  <2> PICK below \in BOOLEAN : below = TRUE
    OBVIOUS
  <2>1. IF below THEN Below(f.peer, s, "event") ELSE "event" = "list" /\ Above(f.peer, s)
    BY <1>2
  <2>2. ViewOK
    BY DEF TInv
  <2> QED
    BY <1>2, <1>7, <2>1, <2>2, Placing
<1>9. PICK b : Placed(f.peer, s, "event", 0, b) /\ \A k \in DOMAIN view[f.peer] : k <= b
  BY <1>8
<1>10. Told(f.peer, f)
  BY <1>2, <1>7, <1>9, <1>s, EventShown
<1>11. PICK u \in Users : /\ u = IF f.code = "sent" THEN Me ELSE f.peer
  BY <1>7, Apart
<1>12. Is(f.id, u, IF u = Me THEN f.peer ELSE Me, rows) /\ (u = f.peer \/ u = Me)
  BY <1>2, <1>3, <1>7, <1>11, MessengerAssumption DEF FrameFits
<1>13. News(f, u)
  BY <1>2, <1>12 DEF News, Is
<1>14. Bears(u, f.id) /\ \A j : Bears(u, j)' => BearsThen(u, f.id, j)
  BY <1>2, <1>3, <1>13, NewsTaken
<1>15. Tells(f.peer, f, u)
  BY <1>2, <1>4, <1>6, <1>10, <1>12, <1>14 DEF Tells
<1> QED
  BY <1>7, <1>15

(* the thread of Me reads a page of the chat with p *)
Fetches(p, b, q, ms) ==
  /\ NewsKept /\ SendingKept /\ SendsKept /\ EventsStay
  /\ cursor' = cursor /\ overlap' = overlap /\ rows' = rows
  /\ \A r \in Peers : ListsSame(r)
  /\ Fetched(p, b, ms) /\ ms = LastMessages(Me, p, b, q) /\ q \in Nat \ {0} /\ b \in Nat
  /\ \E k \in DOMAIN requests : requests[k].code = "history" /\ requests[k].before = b /\ requests[k].qty = q

LEMMA GetFetches ==
  ASSUME TInv, NEW p \in Peers, NEW b \in 0..MaxMessages, NEW q \in FirstPages \cup {Page}, GetLastMsgs(p, b, q)
  PROVE  \E ms : Fetches(p, b, q, ms)
<1> PICK ms : ms = LastMessages(Me, p, b, q)
  OBVIOUS
<1>1. rows' = rows /\ view' = view /\ cursor' = cursor /\ overlap' = overlap
  BY DEF GetLastMsgs, client
<1>2. Grows(rows, rows')
  BY <1>1 DEF Grows
<1>3. \A r \in Peers : SameShown(r)
  BY <1>1, <1>2, KeepShownAll
<1>4. /\ Fetched(p, b, ms) /\ SendingKept /\ NewsKept /\ SendsKept
      /\ \E r \in {requests[k] : k \in DOMAIN requests} : r.code = "history" /\ r.before = b /\ r.qty = q
  BY FetchEffect
<1>5. q \in Nat \ {0} /\ b \in Nat
  BY MessengerAssumption
<1> QED
  BY <1>1, <1>3, <1>4, <1>5 DEF Fetches, EventsStay, SameShown, ListsSame, EventsSame

(* the user scrolls up in it *)
Scrolls(p, c) ==
  /\ NewsKept /\ SendingKept /\ SendsKept /\ EventsStay
  /\ cursor' = cursor /\ rows' = rows
  /\ \A r \in Peers : ListsSame(r)
  /\ ScrolledUp(p, c) /\ c = cursor[p] /\ c # 0

LEMMA UserScrolls ==
  ASSUME TInv, NEW p \in Peers, UserScrollsUp(p)
  PROVE  \E c : Scrolls(p, c)
<1> PICK c : c = cursor[p]
  OBVIOUS
<1>1. rows' = rows /\ view' = view /\ cursor' = cursor
  BY DEF UserScrollsUp, server
<1>2. Grows(rows, rows')
  BY <1>1 DEF Grows
<1>3. \A r \in Peers : SameShown(r)
  BY <1>1, <1>2, KeepShownAll
<1>4. ScrolledUp(p, c) /\ SendingKept /\ NewsKept /\ SendsKept /\ c # 0
  BY ScrollEffect
<1> QED
  BY <1>1, <1>3, <1>4 DEF Scrolls, EventsStay, SameShown, ListsSame, EventsSame

LEMMA HeadAhead ==
  ASSUME TInv, NEW r \in Peers, InChannel(1, r), NEW q \in Peers
  PROVE  /\ q # r /\ Awaited(q) => Ahead(r, q)
         /\ \A ms, ns : PageThen(r, ms, ns) => Ahead(r, r)
         /\ \A b : Asked(r, b) => Ahead(r, r)
<1>1. 1 \in DOMAIN channel /\ (\A n \in DOMAIN channel : n = 1 \/ 1 < n) /\ (\A p : InChannel(1, p) => p = r)
  BY LenProperties DEF InChannel, TInv, ChannelOK
<1>2. q # r /\ Awaited(q) => Ahead(r, q)
  BY <1>1 DEF Awaited, Ahead
<1>3. \A ms, ns : PageThen(r, ms, ns) => Ahead(r, r)
  BY DEF PageThen, Ahead
<1>4. \A b : Asked(r, b) => Ahead(r, r)
  BY <1>1 DEF Asked, Ahead
<1> QED
  BY <1>2, <1>3, <1>4

(* A chat that waits for its first history waits for nothing else, and the *)
(* others come later.                                                      *)
LEMMA FirstOrLater ==
  ASSUME TInv, NInv, phase # "off", NEW r \in Peers, InChannel(1, r)
  PROVE  /\ phase # "users"
         /\ phase = "histories" => cursor[r] = 0
         /\ phase \in {"groups", "ready"} => cursor[r] # 0
         /\ cursor[r] = 0 => (\A ms, ns : ~PageThen(r, ms, ns)) /\ \A b : ~Asked(r, b)
<1>1. Awaited(r)
  BY DEF Awaited, InChannel
<1>2. FirstOnes /\ Counted
  BY DEF NInv
<1>3. phase # "users"
  BY <1>1, <1>2 DEF Counted
<1>4. ASSUME phase = "histories" PROVE cursor[r] = 0
  <2>1. Cardinality(Due) + counter = Cardinality(Peers) /\ counter < Cardinality(Peers) /\ counter \in Nat /\ Cardinality(Peers) \in Nat
    <3>1. Cardinality(Peers) \in Nat
      BY MessengerAssumption, FS_CardinalityType
    <3> QED
      BY <1>2, <1>4, <3>1 DEF Counted, TInv, ClientOK
  <2>2. Due # {}
    <3>1. ASSUME Due = {} PROVE FALSE
      <4>1. Cardinality(Due) = 0
        BY <3>1, FS_EmptySet
      <4> QED
        BY <2>1, <4>1
    <3> QED
      BY <3>1
  <2>3. PICK q \in Due : q \in Peers /\ cursor[q] = 0 /\ Awaited(q)
    BY <2>2 DEF Due
  <2> QED
    BY <1>2, <2>3, HeadAhead DEF FirstOnes
<1>5. phase \in {"groups", "ready"} => cursor[r] # 0
  BY <1>1, <1>2 DEF Counted, Due
<1>6. cursor[r] = 0 => ~Ahead(r, r)
  BY <1>2 DEF FirstOnes
<1> QED
  BY <1>3, <1>4, <1>5, <1>6, HeadAhead

(* a list is shown in the chat with p *)
Receives(p, ms, below) ==
  /\ PagesKept /\ AsksKept /\ NewsKept /\ SendingKept /\ SendsKept
  /\ overlap' = overlap /\ rows' = rows
  /\ \A q \in Peers \ {p} : cursor'[q] = cursor[q]
  /\ cursor'[p] = IF ms = <<>> THEN cursor[p] ELSE ms[1].id
  /\ Listed(p, ms, below) /\ ms \in MessageSeqs
  /\ HasPage(p, ms) /\ \A ns : HasPage(p, ns)' => PageThen(p, ms, ns)
  /\ \A u, i : Bears(u, i)' => PageThenNews(p, ms, i)
  /\ IF below THEN cursor[p] = 0 /\ (\A ns : ~HasPage(p, ns)') /\ (\A b : ~Asked(p, b)') ELSE cursor[p] # 0

LEMMA HistoryReceives ==
  ASSUME TInv, NInv, Cursors, phase # "off", RecvHistory, phase \in {"histories", "ready"}
  PROVE  \E p \in Peers, below \in BOOLEAN : \E ms : Receives(p, ms, below)
<1>f. PICK f : f = Head(channel)
  OBVIOUS
<1>b. PICK below \in BOOLEAN : below = (phase = "histories")
  OBVIOUS
<1>1. /\ channel # <<>> /\ Taken /\ f.code = "history" /\ work' = work /\ rows' = rows /\ overlap' = overlap
      /\ cursor' = IF f.messages # <<>> THEN [cursor EXCEPT ![f.peer] = f.messages[1].id] ELSE cursor
      /\ (phase' = "users" => phase = "users")
      /\ requests' = requests \/ Ask(<<[code |-> "groups"]>>)
      /\ IF below THEN Below(f.peer, f.messages, "list") ELSE Above(f.peer, f.messages)
  BY <1>f, <1>b DEF RecvHistory, Reads, server
<1>2. Took(f)
  BY <1>1, <1>f, TakenEffect
<1>p. PICK p : p = f.peer
  OBVIOUS
<1>m. PICK ms : ms = f.messages
  OBVIOUS
<1>3. p \in Peers /\ ms \in MessageSeqs /\ Showable(ms, p, rows)
  BY <1>1, <1>2, <1>m, <1>p, FrameTypes, ListShowable DEF Took, FrameFits
<1>4. InChannel(1, p)
  BY <1>1, <1>2, <1>p DEF Took, InChannel
<1>5. Grows(rows, rows') /\ SendingKept
  BY <1>1 DEF Grows, SendingKept, Sending
<1>6. Kin(channel, channel', {"history", "message", "sent"})
  BY <1>1, <1>2, KinFrames
<1>7. Kin(requests, requests', {"history", "send"})
  <2>1. CASE requests' = requests
    BY <2>1, KinRequests
  <2>2. CASE Ask(<<[code |-> "groups"]>>)
    <3> PICK r : r = [code |-> "groups"]
      OBVIOUS
    <3>1. r \in Requests /\ r.code = "groups" /\ Ask(<<r>>)
      BY <2>2 DEF Requests
    <3> QED
      BY <3>1, KinRequests
  <2> QED
    BY <1>1, <2>1, <2>2
<1>8. PagesKept /\ AsksKept /\ NewsKept /\ SendsKept
  BY <1>1, <1>5, <1>6, <1>7, KeepPages, KeepAsks, KeepNews, KeepSends
<1>9. /\ HasPage(p, ms) /\ \A ns : HasPage(p, ns)' => PageThen(p, ms, ns)
      /\ \A i : (\E n \in DOMAIN channel' : channel'[n].code \in {"message", "sent"} /\ channel'[n].id = i) => PageThenNews(p, ms, i)
  BY <1>1, <1>2, <1>m, <1>p, PageTaken
<1>10. \A u, i : Bears(u, i)' => PageThenNews(p, ms, i)
  BY <1>9 DEF Bears, News
<1>11. /\ \A q \in Peers \ {p} : cursor'[q] = cursor[q]
       /\ cursor'[p] = IF ms = <<>> THEN cursor[p] ELSE ms[1].id
  <2>1. cursor \in [Peers -> 0..MaxMessages]
    BY DEF TInv, ClientOK
  <2> QED
    BY <1>1, <1>3, <1>m, <1>p, <2>1
<1>12. \E a, b : /\ Placed(p, ms, "list", a, b)
                 /\ IF below THEN a = 0 /\ (\A k \in DOMAIN view[p] : k <= b) ELSE b = 0 /\ (\A j \in DOMAIN ms : j <= a)
  <2>1. IF below THEN Below(p, ms, "list") ELSE "list" = "list" /\ Above(p, ms)
    BY <1>1, <1>m, <1>p
  <2>2. ViewOK
    BY DEF TInv
  <2> QED
    BY <1>1, <1>3, <2>1, <2>2, Placing
<1>13. Sorted(ms)
  BY <1>3, <1>9 DEF Cursors
<1>14. \A j \in DOMAIN ms : j \in Nat /\ j >= 1 /\ ms[j].id \in Nat
  <2>1. \A j \in DOMAIN ms : ms[j].id \in Ids
    BY <1>3 DEF Showable
  <2> QED
    BY <1>3, <2>1 DEF Showable, Ids
<1>15. Listed(p, ms, below)
  BY <1>1, <1>3, <1>12, <1>13, <1>14, ListShown
<1>16. /\ phase = "histories" => cursor[p] = 0
       /\ phase \in {"groups", "ready"} => cursor[p] # 0
       /\ cursor[p] = 0 => (\A x, ns : ~PageThen(p, x, ns)) /\ \A b : ~Asked(p, b)
  BY <1>3, <1>4, FirstOrLater
<1>17. IF below THEN cursor[p] = 0 /\ (\A ns : ~HasPage(p, ns)') /\ (\A b : ~Asked(p, b)') ELSE cursor[p] # 0
  BY <1>8, <1>9, <1>16, <1>b DEF AsksKept
<1>18. Receives(p, ms, below)
  BY <1>1, <1>3, <1>5, <1>8, <1>9, <1>10, <1>11, <1>15, <1>17 DEF Receives
<1> QED
  BY <1>3, <1>18

(* What a step does while the client runs, but for the first request for   *)
(* the histories, of which there is nothing yet.                           *)
Goes ==
  \/ Still
  \/ \E u, v \in Users : \E i : u # v /\ Stores(u, v, i)
  \/ \E u \in Users : \E i : Delivers(u, i)
  \/ \E p \in Peers, u \in Users : \E f : Tells(p, f, u)
  \/ \E p \in Peers : \E b, q, ms : Fetches(p, b, q, ms)
  \/ \E p \in Peers : \E c : Scrolls(p, c)
  \/ \E p \in Peers, below \in BOOLEAN : \E ms : Receives(p, ms, below)

LEMMA GoesOn ==
  ASSUME TInv, NInv, Cursors, [Next]_vars, phase # "off", phase' # "off"
  PROVE  Goes \/ \E first \in [Peers -> FirstPages] : RecvUsers(first)
<1>1. ASSUME NEW u \in Users, NEW v \in Users \ {u}, Insert(u, v) PROVE Goes
  BY <1>1, InsertStores DEF Goes
<1>2. ASSUME NEW u \in Users, Deliver(u) PROVE Goes
  BY <1>2, DeliverDelivers DEF Goes
<1>3. ASSUME NEW u \in Users, AddContacts(u) \/ (\E i \in Ids : Update(u, i) \/ Delete(u, i)) \/ Notify(u) PROVE Goes
  BY <1>3, ThreadsStill DEF Goes
<1>4. CASE GetUsers \/ GetGroups \/ UNCHANGED vars
  BY <1>4, GettingStill DEF Goes
<1>5. CASE SendHistory
  BY <1>5, SendHistoryStill DEF Goes
<1>6. ASSUME NEW p \in Peers, NEW b \in 0..MaxMessages, NEW q \in FirstPages \cup {Page}, GetLastMsgs(p, b, q) PROVE Goes
  BY <1>6, GetFetches DEF Goes
<1>7. ASSUME NEW p \in Peers, UserScrollsUp(p) PROVE Goes
  BY <1>7, UserScrolls DEF Goes
<1>8. ASSUME NEW p \in Peers, UserSends(p) \/ \E k \in DOMAIN view[p] : UserChanges(p, k) \/ UserDeletes(p, k) PROVE Goes
  BY <1>8, UserStill DEF Goes
<1>9. CASE RecvMessage \/ (RecvSent /\ phase = "ready")
  BY <1>9, EventTells DEF Goes
<1>10. CASE RecvGroups \/ RecvChange \/ (RecvSent /\ phase # "ready") \/ (RecvHistory /\ phase \notin {"histories", "ready"})
  BY <1>10, ReceivingStill DEF Goes
<1>11. CASE RecvHistory /\ phase \in {"histories", "ready"}
  BY <1>11, HistoryReceives DEF Goes
<1> QED
  BY <1>1, <1>2, <1>3, <1>4, <1>5, <1>6, <1>7, <1>8, <1>9, <1>10, <1>11, RunningSteps

-----------------------------------------------------------------------------
(* The parts of the invariant                                              *)

LEMMA NewsIds ==
  ASSUME TInv, NEW u, NEW i
  PROVE  /\ Bears(u, i) => i \in DOMAIN rows /\ rows[i].from = u
         /\ \A p \in Peers : HeardIn(p, u, i) => i \in DOMAIN rows /\ rows[i].from = u
         /\ \A p, ms : PageThenNews(p, ms, i) => i \in DOMAIN rows
<1>1. \A n \in DOMAIN channel : FrameFits(channel[n], rows)
  BY DEF TInv, ChannelOK
<1>2. \A p \in Peers : \A k \in DOMAIN view[p] : view[p][k].id \in DOMAIN rows
  BY ShownAmong DEF Is
<1> QED
  BY <1>1, <1>2 DEF FrameFits, Is, Bears, News, HeardIn, Heard, PageThenNews

LEMMA LastSentStep ==
  ASSUME TInv, LastSent, [Next]_vars
  PROVE  LastSent'
<1>1. DOMAIN rows \subseteq Nat /\ Grows(rows, rows') /\ DOMAIN rows' \subseteq Nat
  <2>1. RowsOK /\ RowsOK' /\ Grows(rows, rows')
    BY RowsStep DEF TInv
  <2> QED
    BY <2>1, RowTypes DEF Ids
<1>2. ASSUME DOMAIN rows' = DOMAIN rows, SendingKept PROVE LastSent'
  <2> SUFFICES ASSUME NEW u \in Users, NEW i, NEW j, Sending(u, i)', j \in DOMAIN rows', rows'[j].from = u
               PROVE  j <= i
    BY DEF LastSent
  <2>1. Sending(u, i) /\ j \in DOMAIN rows /\ rows[j].from = u
    BY <1>1, <1>2 DEF SendingKept, Grows
  <2> QED
    BY <2>1 DEF LastSent
<1>3. ASSUME NEW u \in Users, NEW v \in Users \ {u}, Insert(u, v) PROVE LastSent'
  <2>1. UNCHANGED <<rows, work>> \/ (\E i : Inserts(u, v, i))
    BY <1>3, InsertEffect
  <2>2. CASE UNCHANGED <<rows, work>>
    BY <1>2, <2>2 DEF SendingKept, Sending
  <2>3. ASSUME NEW x, Inserts(u, v, x) PROVE LastSent'
    <3> SUFFICES ASSUME NEW w \in Users, NEW i, NEW j, Sending(w, i)', j \in DOMAIN rows', rows'[j].from = w
                 PROVE  j <= i
      BY DEF LastSent
    <3>1. CASE w = u
      <4>1. i = x /\ (j = x \/ j < x) /\ j \in Nat
        BY <1>1, <2>3, <3>1 DEF Inserts, Sending
      <4> QED
        BY <1>1, <2>3, <4>1 DEF Inserts
    <3>2. CASE w # u
      <4>1. Sending(w, i)
        BY <2>3, <3>2 DEF Inserts, Sending, Others
      <4>2. j \in DOMAIN rows /\ rows[j].from = w
        BY <2>3, <3>2 DEF Inserts, Row
      <4> QED
        BY <4>1, <4>2 DEF LastSent
    <3> QED
      BY <3>1, <3>2
  <2> QED
    BY <2>1, <2>2, <2>3
<1>4. ASSUME NEW u \in Users, NEW i \in Ids, Update(u, i) \/ Delete(u, i) PROVE LastSent'
  <2>1. UNCHANGED <<rows, work>> \/ (\E t : Changes(u, i, t))
    BY <1>4, ChangeEffect
  <2>2. CASE UNCHANGED <<rows, work>>
    BY <1>2, <2>2 DEF SendingKept, Sending
  <2>3. ASSUME NEW t, Changes(u, i, t) PROVE LastSent'
    <3>1. work'[u].step \in {"idle", "notify"} /\ Others(u) /\ DOMAIN rows' = DOMAIN rows
      BY <2>3 DEF Changes, Notifying, NoWork
    <3> QED
      BY <1>2, <3>1 DEF SendingKept, Sending, Others
  <2> QED
    BY <2>1, <2>2, <2>3
<1>5. ASSUME NEW u \in Users, AddContacts(u) PROVE LastSent'
  <2>1. work[u].step = "contacts" /\ work' = [work EXCEPT ![u] = [work[u] EXCEPT !.step = "deliver"]] /\ rows' = rows
    BY <1>5 DEF AddContacts, Then
  <2>2. work[u] \in [step : {"contacts", "deliver"}, id : Ids]
    BY <2>1 DEF TInv, WorkOK, WorkFits, Works, NoWork
  <2>3. work'[u] = [work[u] EXCEPT !.step = "deliver"] /\ Others(u)
    BY <2>1, ThenEffect DEF TInv
  <2>4. work'[u].step = "deliver" /\ work'[u].id = work[u].id
    BY <2>2, <2>3
  <2> QED
    BY <1>2, <2>1, <2>3, <2>4 DEF SendingKept, Sending, Others
<1>6. ASSUME NEW u \in Users, Deliver(u) PROVE LastSent'
  <2>1. rows' = rows /\ work'[u].step = "idle" /\ Others(u)
    BY <1>6, DeliverEffect
  <2> QED
    BY <1>2, <2>1 DEF SendingKept, Sending, Others
<1>7. ASSUME NEW u \in Users, Notify(u) PROVE LastSent'
  <2>1. rows' = rows /\ work'[u].step = "idle" /\ Others(u)
    BY <1>7, NotifyEffect
  <2> QED
    BY <1>2, <2>1 DEF SendingKept, Sending, Others
<1>8. CASE Restart
  <2>1. rows' = rows /\ \A u \in Users : work'[u].step = "idle"
    BY <1>8 DEF Restart, NoWork
  <2> QED
    BY <1>2, <2>1 DEF SendingKept, Sending
<1>9. CASE Quiet
  BY <1>2, <1>9 DEF Quiet, Kept, SendingKept, Sending
<1> QED
  BY <1>3, <1>4, <1>5, <1>6, <1>7, <1>8, <1>9, OtherSteps

(* nothing happens to the events *)
NewsStay == NewsKept /\ SendingKept /\ EventsStay

LEMMA NewsStays ==
  /\ Still => NewsStay
  /\ \A p, b, q, ms : Fetches(p, b, q, ms) => NewsStay
  /\ \A p, c : Scrolls(p, c) => NewsStay
  /\ \A p \in Peers : \A ms, below : Receives(p, ms, below) => NewsStay
<1>1. ASSUME NEW p \in Peers, NEW ms, NEW below, Receives(p, ms, below) PROVE NewsStay
  <2>1. NewsKept /\ SendingKept /\ Listed(p, ms, below)
    BY <1>1 DEF Receives
  <2>2. EventsSame(p)
    BY <2>1 DEF Listed, EventsSame
  <2>3. \A q \in Peers \ {p} : EventsSame(q)
    BY <2>1 DEF Listed, SameShown, EventsSame
  <2> QED
    BY <2>1, <2>2, <2>3 DEF NewsStay, EventsStay
<1> QED
  BY <1>1 DEF NewsStay, Still, Fetches, Scrolls

LEMMA OrderOfEvents ==
  ASSUME TInv, EventsInOrder, Goes
  PROVE  EventsInOrder'
<1>1. ASSUME NewsStay PROVE EventsInOrder'
  <2>1. /\ \A u \in Users : \A i : Sending(u, i)' => Sending(u, i)
        /\ \A u, i : Bears(u, i)' => Bears(u, i)
        /\ \A u, i, j : BearsThen(u, i, j)' => BearsThen(u, i, j)
        /\ \A p \in Peers : \A u, i : HeardIn(p, u, i)' => HeardIn(p, u, i)
        /\ \A p \in Peers : \A u, i, j : HeardThen(p, u, i, j)' => HeardThen(p, u, i, j)
    BY <1>1 DEF NewsStay, NewsKept, SendingKept, EventsStay, EventsSame
  <2> QED
    BY <2>1 DEF EventsInOrder
<1>2. ASSUME NEW u \in Users, NEW v \in Users, NEW x, Stores(u, v, x) PROVE EventsInOrder'
  <2>1. /\ \A w \in Users : \A i : Sending(w, i)' => Sending(w, i) \/ (w = u /\ i = x)
        /\ \A i \in DOMAIN rows : i < x
    BY <1>2 DEF Stores, Inserts, Sending, Others
  <2>2. /\ \A w, i : Bears(w, i)' => Bears(w, i)
        /\ \A w, i, j : BearsThen(w, i, j)' => BearsThen(w, i, j)
        /\ \A p \in Peers : \A w, i : HeardIn(p, w, i)' => HeardIn(p, w, i)
        /\ \A p \in Peers : \A w, i, j : HeardThen(p, w, i, j)' => HeardThen(p, w, i, j)
    BY <1>2 DEF Stores, NewsKept, EventsStay, EventsSame
  <2>3. /\ \A w, i : Bears(w, i) => i < x
        /\ \A p \in Peers : \A w, i : HeardIn(p, w, i) => i < x
    BY <2>1, NewsIds
  <2> QED
    BY <2>1, <2>2, <2>3 DEF EventsInOrder
<1>3. ASSUME NEW u \in Users, NEW x, Delivers(u, x) PROVE EventsInOrder'
  <2>1. /\ Sending(u, x)
        /\ \A w \in Users : \A j : Sending(w, j)' => w # u /\ Sending(w, j)
        /\ \A w, j : Bears(w, j)' => Bears(w, j) \/ (w = u /\ j = x)
        /\ \A w, j, k : BearsThen(w, j, k)' => BearsThen(w, j, k) \/ (w = u /\ Bears(w, j) /\ k = x)
    BY <1>3 DEF Delivers, Delivered
  <2>2. /\ \A p \in Peers : \A w, i : HeardIn(p, w, i)' => HeardIn(p, w, i)
        /\ \A p \in Peers : \A w, i, j : HeardThen(p, w, i, j)' => HeardThen(p, w, i, j)
    BY <1>3 DEF Delivers, EventsStay, EventsSame
  <2> QED
    BY <2>1, <2>2 DEF EventsInOrder
<1>4. ASSUME NEW p \in Peers, NEW u \in Users, NEW f, Tells(p, f, u) PROVE EventsInOrder'
  <2>1. /\ \A w \in Users : \A i : Sending(w, i)' => Sending(w, i)
        /\ \A w, i : Bears(w, i)' => Bears(w, i)
        /\ \A w, i, j : BearsThen(w, i, j)' => BearsThen(w, i, j)
        /\ Bears(u, f.id) /\ \A j : Bears(u, j)' => BearsThen(u, f.id, j)
    BY <1>4 DEF Tells, NewsKept, SendingKept
  <2>2. rows[f.id].from = u
    BY <2>1, NewsIds
  <2>3. /\ \A w, i : HeardIn(p, w, i)' => HeardIn(p, w, i) \/ (w = u /\ i = f.id)
        /\ \A w, i, j : HeardThen(p, w, i, j)' => HeardThen(p, w, i, j) \/ (w = u /\ HeardIn(p, u, i) /\ j = f.id)
    BY <1>4, <2>2 DEF Tells, Told
  <2>4. /\ \A q \in Peers \ {p} : \A w, i : HeardIn(q, w, i)' => HeardIn(q, w, i)
        /\ \A q \in Peers \ {p} : \A w, i, j : HeardThen(q, w, i, j)' => HeardThen(q, w, i, j)
    BY <1>4 DEF Tells, Told, SameShown
  <2>5. \A w \in Users : \A i, j :
          /\ Sending(w, i)' /\ Bears(w, j)' => j < i
          /\ BearsThen(w, i, j)' => i < j
    BY <2>1 DEF EventsInOrder
  <2>6. \A w \in Users : \A i, j :
          /\ Sending(w, i)' /\ HeardIn(p, w, j)' => j < i
          /\ Bears(w, i)' /\ HeardIn(p, w, j)' => j < i
          /\ HeardThen(p, w, i, j)' => i < j
    BY <2>1, <2>3 DEF EventsInOrder
  <2>7. \A w \in Users : \A i, j : \A q \in Peers \ {p} :
          /\ Sending(w, i)' /\ HeardIn(q, w, j)' => j < i
          /\ Bears(w, i)' /\ HeardIn(q, w, j)' => j < i
          /\ HeardThen(q, w, i, j)' => i < j
    BY <2>1, <2>4 DEF EventsInOrder
  <2> QED
    BY <2>5, <2>6, <2>7 DEF EventsInOrder
<1>5. \/ NewsStay
      \/ \E u, v \in Users : \E i : Stores(u, v, i)
      \/ \E u \in Users : \E i : Delivers(u, i)
      \/ \E p \in Peers, u \in Users : \E f : Tells(p, f, u)
  BY NewsStays DEF Goes
<1> QED
  BY <1>1, <1>2, <1>3, <1>4, <1>5

(* What the pages are, and the chats they are read from                    *)
LEMMA ChatTypes ==
  ASSUME TInv, NEW p
  PROVE  /\ Chat(p) \subseteq DOMAIN rows /\ DOMAIN rows = 1..Len(rows) /\ Len(rows) \in Nat
         /\ Chat(p) \subseteq Nat /\ IsFiniteSet(Chat(p))
<1>1. DOMAIN rows = 1..Len(rows) /\ Len(rows) \in Nat
  BY RowTypes DEF TInv
<1>2. Chat(p) \subseteq 1..Len(rows)
  BY <1>1 DEF Chat, Stored
<1>3. IsFiniteSet(1..Len(rows))
  BY <1>1, FS_Interval
<1> QED
  BY <1>1, <1>2, <1>3, FS_Subset

LEMMA ChatStep ==
  ASSUME TInv, TInv', [Next]_vars, NEW p
  PROVE  /\ Len(rows) <= Len(rows') /\ Grows(rows, rows')
         /\ \A x : x \in Chat(p)' => x \in Chat(p) \/ x > Len(rows)
<1>1. Grows(rows, rows')
  BY RowsStep DEF TInv
<1>2. DOMAIN rows' = 1..Len(rows') /\ Len(rows') \in Nat
  BY RowTypes DEF TInv
<1>3. Chat(p) \subseteq DOMAIN rows /\ DOMAIN rows = 1..Len(rows) /\ Len(rows) \in Nat
  BY ChatTypes
<1>4. Len(rows) <= Len(rows')
  BY <1>1, <1>2, <1>3 DEF Grows
<1>5. \A i \in DOMAIN rows : i \in Stored' => i \in Stored
  <2>1. ASSUME UNCHANGED rows PROVE \A i \in DOMAIN rows : i \in Stored' => i \in Stored
    BY <2>1 DEF Stored
  <2>2. ASSUME NEW u \in Users, NEW v \in Users \ {u}, Insert(u, v) PROVE \A i \in DOMAIN rows : i \in Stored' => i \in Stored
    <3>1. UNCHANGED <<rows, work>> \/ (\E i : Inserts(u, v, i))
      BY <2>2, InsertEffect
    <3> QED
      BY <2>1, <3>1 DEF Inserts, Stored
  <2>3. ASSUME NEW u \in Users, NEW j \in Ids, Update(u, j) \/ Delete(u, j) PROVE \A i \in DOMAIN rows : i \in Stored' => i \in Stored
    <3>1. UNCHANGED <<rows, work>> \/ (\E t : Changes(u, j, t))
      BY <2>3, ChangeEffect
    <3> QED
      BY <2>1, <3>1 DEF Changes, Stored
  <2>4. ASSUME NEW u \in Users, AddContacts(u) \/ Deliver(u) \/ Notify(u) PROVE UNCHANGED rows
    BY <2>4 DEF AddContacts, Deliver, Notify
  <2>5. Restart \/ Quiet => UNCHANGED rows
    BY DEF Restart, Quiet
  <2> QED
    BY <2>1, <2>2, <2>3, <2>4, <2>5, OtherSteps
<1>6. ASSUME NEW x, x \in Chat(p)' PROVE x \in Chat(p) \/ x > Len(rows)
  <2>1. x \in DOMAIN rows' /\ x \in Stored' /\ {rows'[x].from, rows'[x].to} = {Me, p}
    BY <1>6 DEF Chat, Conversation, Stored
  <2>2. CASE x \in DOMAIN rows
    <3>1. {rows[x].from, rows[x].to} = {Me, p}
      BY <1>1, <2>1, <2>2 DEF Grows
    <3> QED
      BY <1>5, <2>1, <2>2, <3>1 DEF Chat, Conversation
  <2>3. CASE x \notin DOMAIN rows
    BY <1>2, <1>3, <2>1, <2>3
  <2> QED
    BY <2>2, <2>3
<1> QED
  BY <1>1, <1>4, <1>6

LEMMA PageIds ==
  ASSUME TInv, NEW p, NEW ms, HasPage(p, ms)
  PROVE  /\ ms \in MessageSeqs /\ \A x : Within(ms, x) => x \in DOMAIN rows /\ x \in Nat
         /\ ms # <<>> => 1 \in DOMAIN ms /\ Within(ms, ms[1].id) /\ (\A k \in DOMAIN ms : k = 1 \/ 1 < k) /\ ms[1].id # 0
<1>1. ms \in MessageSeqs /\ AllAmong(ms, p, rows)
  <2>1. ASSUME NEW n \in DOMAIN channel, InChannel(n, p), channel[n].messages = ms PROVE ms \in MessageSeqs /\ AllAmong(ms, p, rows)
    <3>1. FrameFits(channel[n], rows)
      BY DEF TInv, ChannelOK
    <3> QED
      BY <2>1, <3>1, FrameTypes DEF FrameFits, InChannel
  <2>2. ASSUME InWork(p), work[Me].messages = ms PROVE ms \in MessageSeqs /\ AllAmong(ms, p, rows)
    <3>1. WorkFits(Me, work[Me], rows)
      BY Apart DEF TInv, WorkOK
    <3> QED
      BY <2>2, <3>1, WorkTypes DEF WorkFits, InWork
  <2> QED
    BY <2>1, <2>2 DEF HasPage
<1>2. \A x : Within(ms, x) => x \in DOMAIN rows
  BY <1>1 DEF Within, AllAmong, Among, Is
<1>3. DOMAIN rows \subseteq Nat
  BY ChatTypes
<1>4. ms # <<>> => 1 \in DOMAIN ms /\ (\A k \in DOMAIN ms : k = 1 \/ 1 < k) /\ ms[1].id \in Ids
  BY <1>1, FirstMessage
<1> QED
  BY <1>1, <1>2, <1>3, <1>4 DEF Within, Ids

(* the first message of a page is the oldest *)
LEMMA Oldest ==
  ASSUME TInv, NEW p, NEW ms, HasPage(p, ms), Sorted(ms), NEW x, Within(ms, x)
  PROVE  ms # <<>> /\ ms[1].id <= x
<1>1. PICK k \in DOMAIN ms : ms[k].id = x
  BY DEF Within
<1>2. ms # <<>>
  BY <1>1
<1>3. k = 1 \/ 1 < k
  BY <1>1, <1>2, PageIds
<1>4. ms[1].id \in Nat /\ x \in Nat
  BY <1>2, PageIds
<1> QED
  BY <1>1, <1>2, <1>3, <1>4, PageIds DEF Sorted

LEMMA PageOf ==
  ASSUME TInv, NEW p \in Peers, NEW b \in Nat, NEW q \in Nat \ {0}, NEW ms, ms = LastMessages(Me, p, b, q)
  PROVE  /\ Sorted(ms) /\ ms \in MessageSeqs
         /\ ms # <<>> => Within(ms, ms[1].id)
         /\ \A x : Within(ms, x) => x \in Chat(p)
         /\ b # 0 /\ q = Page => \A x : Within(ms, x) <=> x \in Chat(p) /\ x < b /\ Near(p, x, b)
<1> DEFINE fit == {i \in Conversation(Me, p) \cap Stored : b = 0 \/ i < b}
           S == {i \in fit : Cardinality({j \in fit : j > i}) < q}
<1>1. ms = InOrderOfIds(S)
  BY DEF LastMessages
<1>2. S \in SUBSET (Conversation(Me, p) \cap Stored)
  OBVIOUS
<1>3. RowsOK
  BY DEF TInv
<1> HIDE DEF S, fit
<1>4. /\ ms \in MessageSeqs
      /\ \A k \in DOMAIN ms : ms[k].id \in S
      /\ \A i \in S : \E k \in DOMAIN ms : ms[k].id = i
      /\ \A j, k \in DOMAIN ms : j < k => ms[j].id < ms[k].id
  BY <1>1, <1>2, <1>3, PageFits
<1>5. \A x : Within(ms, x) <=> x \in S
  BY <1>4 DEF Within
<1>6. \A x : x \in S => x \in Chat(p)
  BY <1>2 DEF Chat
<1>7. ASSUME b # 0, q = Page, NEW x PROVE x \in S <=> x \in Chat(p) /\ x < b /\ Near(p, x, b)
  <2>1. Chat(p) \subseteq Nat
    BY ChatTypes
  <2>2. fit = {i \in Chat(p) : i < b}
    BY <1>7 DEF fit, Chat
  <2>3. {j \in fit : j > x} = {y \in Chat(p) : x < y /\ y < b}
    <3>1. CASE x \in Nat
      BY <2>1, <2>2, <3>1
    <3>2. CASE x \notin Nat
      <4>1. \A y \in Chat(p) : y > x <=> x < y
        OBVIOUS
      <4> QED
        BY <2>2, <4>1
    <3> QED
      BY <3>1, <3>2
  <2>4. x \in S <=> x \in Chat(p) /\ x < b /\ Cardinality({y \in Chat(p) : x < y /\ y < b}) < Page
    BY <1>7, <2>2, <2>3 DEF S
  <2>5. x \in Chat(p) /\ x < b => ~(x >= b)
    BY <2>1
  <2> QED
    BY <2>4, <2>5 DEF Near
<1>8. ms # <<>> => Within(ms, ms[1].id)
  BY <1>4, FirstMessage DEF Within
<1> QED
  BY <1>4, <1>5, <1>6, <1>7, <1>8 DEF Sorted

LEMMA UnderStays ==
  ASSUME TInv, NEW p, \A x : x \in Chat(p)' => x \in Chat(p) \/ x > Len(rows), Chat(p)' \subseteq Nat,
         NEW a \in Nat, NEW b \in Nat, a <= Len(rows), b <= Len(rows), Under(p, a, b)
  PROVE  \A c, d : c = a /\ d = b => Under(p, c, d)'
<1>1. Chat(p) \subseteq Nat /\ IsFiniteSet(Chat(p)) /\ Len(rows) \in Nat
  BY ChatTypes
<1>2. ASSUME NEW x \in Chat(p)' PROVE (x >= a => x >= b) /\ (x >= b => Near(p, x, a)')
  <2>1. x \in Nat
    BY <1>2
  <2>2. CASE x > Len(rows)
    BY <1>1, <2>1, <2>2 DEF Near
  <2>3. CASE x \in Chat(p)
    <3>1. (x >= a => x >= b) /\ (x >= b => Near(p, x, a))
      BY <2>3 DEF Under
    <3>2. ASSUME Cardinality({y \in Chat(p) : x < y /\ y < a}) < Page PROVE Near(p, x, a)'
      <4> DEFINE Y == {y \in Chat(p) : x < y /\ y < a}
                 Z == {y \in Chat(p)' : x < y /\ y < a}
      <4>1. Z \subseteq Y /\ Y \subseteq Chat(p)
        BY <1>1
      <4>2. IsFiniteSet(Y)
        BY <1>1, <4>1, FS_Subset
      <4>3. IsFiniteSet(Z) /\ Cardinality(Z) <= Cardinality(Y) /\ Cardinality(Z) \in Nat /\ Cardinality(Y) \in Nat
        BY <4>1, <4>2, FS_Subset, FS_CardinalityType
      <4>4. Cardinality(Z) < Page
        <5>1. Page \in Nat /\ Cardinality(Y) < Page
          BY <3>2, MessengerAssumption
        <5> HIDE DEF Y, Z
        <5> QED
          BY <4>3, <5>1
      <4> QED
        BY <4>4 DEF Near
    <3>3. x >= a => Near(p, x, a)'
      BY DEF Near
    <3> QED
      BY <3>1, <3>2, <3>3 DEF Near
  <2> QED
    BY <1>2, <2>2, <2>3
<1> QED
  BY <1>2 DEF Under

(* The page before b reaches down to c, or what lies above it is shown.    *)
LEMMA PageMeets ==
  ASSUME TInv, NEW p \in Peers, NEW b \in Nat \ {0}, NEW ms, ms = LastMessages(Me, p, b, Page), NEW c, Under(p, b, c), NEW x, x >= c
  PROVE  Meets(p, x, ms)
<1>1. Chat(p) \subseteq Nat /\ Page \in Nat \ {0} /\ b \in Nat
  BY ChatTypes, MessengerAssumption
<1>2. \A y : Within(ms, y) <=> y \in Chat(p) /\ y < b /\ Near(p, y, b)
  BY <1>1, PageOf
<1>3. ASSUME x \in Chat(p) PROVE Within(ms, x) \/ \A y : Within(ms, y) => y < x
  <2>1. Near(p, x, b)
    BY <1>3 DEF Under
  <2>2. CASE x < b
    BY <1>2, <1>3, <2>1, <2>2
  <2>3. CASE ~(x < b)
    <3>1. x \in Nat /\ b <= x
      BY <1>1, <1>3, <2>3
    <3> QED
      BY <1>1, <1>2, <3>1
  <2> QED
    BY <2>2, <2>3
<1> QED
  BY <1>3 DEF Meets

LEMMA PageUnder ==
  ASSUME TInv, NEW p \in Peers, NEW b \in Nat \ {0}, NEW ms, ms = LastMessages(Me, p, b, Page), ms # <<>>, NEW c \in Nat, Under(p, b, c)
  PROVE  \A m : m = ms[1].id => Under(p, c, m)
<1>1. Chat(p) \subseteq Nat /\ IsFiniteSet(Chat(p)) /\ Page \in Nat \ {0} /\ b \in Nat
  BY ChatTypes, MessengerAssumption
<1>2. /\ Sorted(ms) /\ Within(ms, ms[1].id)
      /\ \A y : Within(ms, y) <=> y \in Chat(p) /\ y < b /\ Near(p, y, b)
  BY <1>1, PageOf
<1> SUFFICES ASSUME NEW m, m = ms[1].id PROVE Under(p, c, m)
  OBVIOUS
<1>3. m \in Chat(p) /\ m \in Nat /\ m < b /\ Near(p, m, b)
  BY <1>1, <1>2
<1>4. ASSUME NEW y, Within(ms, y) PROVE m <= y
  <2>1. 1 \in DOMAIN ms /\ \A k \in DOMAIN ms : k = 1 \/ 1 < k
    BY <1>1, PageOf, FirstMessage
  <2>2. PICK k \in DOMAIN ms : ms[k].id = y
    BY <1>4 DEF Within
  <2>3. y \in Nat
    BY <1>1, <1>2, <1>4
  <2>4. k = 1 => y = m
    BY <2>2
  <2>5. 1 < k => m < y
    BY <1>2, <2>1, <2>2 DEF Sorted
  <2> QED
    BY <1>3, <2>1, <2>2, <2>3, <2>4, <2>5
<1>5. ASSUME NEW x \in Chat(p), x >= c PROVE x >= m
  <2>1. Meets(p, x, ms)
    BY <1>5, PageMeets
  <2>2. Within(ms, x) \/ m < x
    BY <1>2, <2>1 DEF Meets
  <2> QED
    BY <1>1, <1>3, <1>4, <2>2
<1>6. ASSUME NEW x \in Chat(p), x >= m PROVE Near(p, x, c)
  <2> DEFINE Y == {y \in Chat(p) : x < y /\ y < c}
             Z == {y \in Chat(p) : m < y /\ y < b}
  <2>1. \A y \in Chat(p) : y < c => y < b
    <3>1. \A y \in Chat(p) : y >= b => y >= c
      BY DEF Under
    <3> QED
      BY <1>1, <3>1
  <2>2. Y \subseteq Z /\ Z \subseteq Chat(p)
    BY <1>1, <1>3, <1>6, <2>1
  <2>3. IsFiniteSet(Z)
    BY <1>1, <2>2, FS_Subset
  <2>4. Cardinality(Y) <= Cardinality(Z) /\ Cardinality(Y) \in Nat /\ Cardinality(Z) \in Nat
    BY <2>2, <2>3, FS_Subset, FS_CardinalityType
  <2>5. Cardinality(Z) < Page
    BY <1>1, <1>3 DEF Near
  <2> HIDE DEF Y, Z
  <2>6. Cardinality(Y) < Page
    BY <1>1, <2>4, <2>5
  <2> QED
    BY <2>6 DEF Near, Y
<1> QED
  BY <1>5, <1>6 DEF Under

(* nothing happens to the lists *)
LEMMA ListsStays ==
  /\ Still => ListsStay
  /\ \A u, v, i : Stores(u, v, i) => ListsStay
  /\ \A u, i : Delivers(u, i) => ListsStay
  /\ \A p \in Peers : \A f, u : Tells(p, f, u) => ListsStay
<1>1. ASSUME NEW p \in Peers, NEW f, NEW u, Tells(p, f, u) PROVE ListsStay
  <2>1. PagesKept /\ AsksKept /\ cursor' = cursor /\ overlap' = overlap /\ Told(p, f)
    BY <1>1 DEF Tells
  <2>2. ListsSame(p)
    BY <2>1 DEF Told, ListsSame
  <2>3. \A q \in Peers \ {p} : ListsSame(q)
    BY <2>1 DEF Told, SameShown, ListsSame
  <2> QED
    BY <2>1, <2>2, <2>3 DEF ListsStay
<1> QED
  BY <1>1 DEF Still, Stores, Delivers

LEMMA ListsGo ==
  ASSUME Goes
  PROVE  \/ ListsStay
         \/ \E p \in Peers : \E b, q, ms : Fetches(p, b, q, ms)
         \/ \E p \in Peers : \E c : Scrolls(p, c)
         \/ \E p \in Peers, below \in BOOLEAN : \E ms : Receives(p, ms, below)
  BY ListsStays DEF Goes

LEMMA OneLiveStep ==
  ASSUME OneLive, Goes
  PROVE  OneLive'
<1>1. ASSUME NEW p \in Peers, NEW ms, NEW below, Receives(p, ms, below) PROVE \A q \in Peers : TwoLive(q)' => TwoLive(q)
  BY <1>1 DEF Receives, Listed, SameShown
<1>2. \A q \in Peers : TwoLive(q)' => TwoLive(q)
  BY <1>1, ListsGo DEF ListsStay, ListsSame, Fetches, Scrolls
<1> QED
  BY <1>2 DEF OneLive

LEMMA CursorsStep ==
  ASSUME TInv, TInv', [Next]_vars, Cursors, Goes
  PROVE  Cursors'
<1>1. Len(rows) <= Len(rows') /\ Len(rows) \in Nat /\ Len(rows') \in Nat
  <2>1. Len(rows) <= Len(rows')
    BY ChatStep
  <2>2. Len(rows') \in Nat
    BY RowTypes DEF TInv
  <2> QED
    BY <2>1, <2>2, ChatTypes
<1>2. \A p \in Peers : cursor[p] \in Nat
  BY MessengerAssumption DEF TInv, ClientOK
<1>3. \A k \in DOMAIN requests : requests[k].code = "history" => requests[k].before \in Nat
  BY MessengerAssumption, RequestTypes, ElementOfSeq, LenProperties DEF TInv, RequestsOK
<1>4. \A p \in Peers : \A b : Asked(p, b) => b \in Nat
  BY <1>3 DEF Asked, InRequests
<1>5. ASSUME AsksKept PROVE \A k \in DOMAIN requests' : requests'[k].code = "history" /\ requests'[k].before # 0 => requests'[k].qty = Page
  BY <1>5 DEF AsksKept, Cursors
<1>6. CASE ListsStay
  <2>1. AsksKept /\ PagesKept /\ cursor' = cursor /\ \A p \in Peers : ListsSame(p)
    BY <1>6 DEF ListsStay
  <2> SUFFICES ASSUME NEW p \in Peers
               PROVE  /\ cursor'[p] <= Len(rows')
                      /\ cursor'[p] = 0 => \A x : ~InList(p, x)'
                      /\ \A b : Asked(p, b)' => b <= Len(rows') /\ (b = 0 <=> cursor'[p] = 0)
                      /\ \A ms : HasPage(p, ms)' => Sorted(ms)
    BY <1>5, <2>1 DEF Cursors, Sorted
  <2>2. cursor'[p] <= Len(rows')
    BY <1>1, <1>2, <2>1 DEF Cursors
  <2>3. cursor'[p] = 0 => \A x : ~InList(p, x)'
    BY <2>1 DEF Cursors, ListsSame
  <2>4. \A b : Asked(p, b)' => b <= Len(rows') /\ (b = 0 <=> cursor'[p] = 0)
    BY <1>1, <1>4, <2>1 DEF Cursors, AsksKept
  <2>5. \A ms : HasPage(p, ms)' => Sorted(ms)
    BY <2>1 DEF Cursors, PagesKept
  <2> QED
    BY <2>2, <2>3, <2>4, <2>5
<1>7. ASSUME NEW r \in Peers, NEW b, NEW q, NEW s, Fetches(r, b, q, s) PROVE Cursors'
  <2>1. AsksKept /\ Fetched(r, b, s) /\ cursor' = cursor /\ rows' = rows /\ \A p \in Peers : ListsSame(p)
    BY <1>7 DEF Fetches, Fetched
  <2>2. Sorted(s)
    BY <1>7, PageOf DEF Fetches
  <2>3. \A p \in Peers : \A ms : HasPage(p, ms)' => Sorted(ms)
    BY <2>1, <2>2 DEF Cursors, Fetched
  <2>4. \A p \in Peers : /\ cursor'[p] <= Len(rows')
                         /\ cursor'[p] = 0 => \A x : ~InList(p, x)'
                         /\ \A c : Asked(p, c)' => c <= Len(rows') /\ (c = 0 <=> cursor'[p] = 0)
    BY <2>1 DEF Cursors, AsksKept, ListsSame
  <2> QED
    BY <1>5, <2>1, <2>3, <2>4 DEF Cursors, Sorted
<1>8. ASSUME NEW r \in Peers, NEW c, Scrolls(r, c) PROVE Cursors'
  <2>1. ScrolledUp(r, c) /\ cursor' = cursor /\ rows' = rows /\ c = cursor[r] /\ c # 0 /\ \A p \in Peers : ListsSame(p)
    BY <1>8 DEF Scrolls
  <2>2. \A k \in DOMAIN requests' : requests'[k].code = "history" /\ requests'[k].before # 0 => requests'[k].qty = Page
    BY <2>1 DEF ScrolledUp, Cursors
  <2>3. \A p \in Peers : \A ms : HasPage(p, ms)' => Sorted(ms)
    BY <2>1 DEF Cursors, ScrolledUp, PagesKept
  <2>4. \A p \in Peers : /\ cursor'[p] <= Len(rows')
                         /\ cursor'[p] = 0 => \A x : ~InList(p, x)'
                         /\ \A b : Asked(p, b)' => b <= Len(rows') /\ (b = 0 <=> cursor'[p] = 0)
    BY <2>1 DEF Cursors, ScrolledUp, ListsSame
  <2> QED
    BY <2>2, <2>3, <2>4 DEF Cursors, Sorted
<1>9. ASSUME NEW r \in Peers, NEW below \in BOOLEAN, NEW s, Receives(r, s, below) PROVE Cursors'
  <2>1. /\ AsksKept /\ PagesKept /\ rows' = rows /\ Listed(r, s, below)
        /\ \A q \in Peers \ {r} : cursor'[q] = cursor[q]
        /\ cursor'[r] = IF s = <<>> THEN cursor[r] ELSE s[1].id
        /\ HasPage(r, s)
        /\ IF below THEN cursor[r] = 0 /\ (\A ns : ~HasPage(r, ns)') /\ (\A b : ~Asked(r, b)') ELSE cursor[r] # 0
    BY <1>9 DEF Receives
  <2>2. \A p \in Peers : \A ms : HasPage(p, ms)' => Sorted(ms)
    BY <2>1 DEF Cursors, PagesKept
  <2>3. \A p \in Peers \ {r} : /\ cursor'[p] <= Len(rows')
                               /\ cursor'[p] = 0 => \A x : ~InList(p, x)'
                               /\ \A b : Asked(p, b)' => b <= Len(rows') /\ (b = 0 <=> cursor'[p] = 0)
    BY <2>1 DEF Cursors, AsksKept, Listed, SameShown
  <2>4. s # <<>> => Within(s, s[1].id) /\ s[1].id \in DOMAIN rows /\ s[1].id # 0
    BY <2>1, PageIds
  <2>5. cursor'[r] <= Len(rows')
    BY <2>1, <2>4, ChatTypes DEF Cursors
  <2>6. cursor'[r] = 0 => \A x : ~InList(r, x)'
    <3>1. cursor'[r] = 0 => cursor[r] = 0 /\ s = <<>>
      BY <2>1, <2>4
    <3> QED
      BY <2>1, <3>1 DEF Cursors, Listed, Within
  <2>7. \A b : Asked(r, b)' => b <= Len(rows') /\ (b = 0 <=> cursor'[r] = 0)
    BY <2>1, <2>4 DEF Cursors, AsksKept
  <2> QED
    BY <1>5, <2>1, <2>2, <2>3, <2>5, <2>6, <2>7 DEF Cursors, Sorted
<1> QED
  BY <1>6, <1>7, <1>8, <1>9, ListsGo

(* Apiece, for one chat *)
ApieceOf(p) ==
  /\ \A ms, ns : ~PageThen(p, ms, ns)
  /\ \A ms, b : ~(HasPage(p, ms) /\ Asked(p, b))
  /\ \A b, c : ~AskedThen(p, b, c)
  /\ \A b : Asked(p, b) => b = cursor[p]
  /\ cursor[p] # 0 => PagesBefore(p, cursor[p])
  /\ \A x : InList(p, x) => cursor[p] <= x
  /\ \A x, y : ListThen(p, x, y) => x < y

LEMMA ApieceParts == Apiece <=> \A p \in Peers \ overlap : ApieceOf(p)
  BY DEF Apiece, ApieceOf

LEMMA ApiecePartsNext == Apiece' <=> \A p \in Peers \ overlap' : ApieceOf(p)'
  BY DEF Apiece, ApieceOf

LEMMA ApieceKept ==
  ASSUME NEW p \in Peers, PagesKept, AsksKept, cursor'[p] = cursor[p], ListsSame(p), ApieceOf(p)
  PROVE  ApieceOf(p)'
<1>1. /\ \A ms : HasPage(p, ms)' => HasPage(p, ms)
      /\ \A ms, ns : PageThen(p, ms, ns)' => PageThen(p, ms, ns)
      /\ \A b : Asked(p, b)' => Asked(p, b)
      /\ \A b, c : AskedThen(p, b, c)' => AskedThen(p, b, c)
      /\ \A x : InList(p, x)' => InList(p, x)
      /\ \A x, y : ListThen(p, x, y)' => ListThen(p, x, y)
  BY DEF PagesKept, AsksKept, ListsSame
<1>2. cursor'[p] # 0 => PagesBefore(p, cursor[p])'
  BY <1>1 DEF ApieceOf, PagesBefore, Within
<1> QED
  BY <1>1, <1>2 DEF ApieceOf

LEMMA ApieceStep ==
  ASSUME TInv, TInv', Cursors, Apiece, Goes
  PROVE  Apiece'
<1>1. CASE ListsStay
  BY <1>1, ApieceParts, ApiecePartsNext, ApieceKept DEF ListsStay
<1>2. ASSUME NEW r \in Peers, NEW b, NEW q, NEW s, Fetches(r, b, q, s) PROVE Apiece'
  <2>1. AsksKept /\ Fetched(r, b, s) /\ cursor' = cursor /\ overlap' = overlap /\ \A p \in Peers : ListsSame(p)
    BY <1>2 DEF Fetches, Fetched
  <2> SUFFICES ASSUME NEW p \in Peers \ overlap PROVE ApieceOf(p)'
    BY <2>1, ApiecePartsNext
  <2>2. ApieceOf(p)
    BY ApieceParts
  <2>3. /\ \A c : Asked(p, c)' => Asked(p, c)
        /\ \A c, d : AskedThen(p, c, d)' => AskedThen(p, c, d)
        /\ \A x : InList(p, x)' => InList(p, x)
        /\ \A x, y : ListThen(p, x, y)' => ListThen(p, x, y)
    BY <2>1 DEF AsksKept, ListsSame
  <2>4. CASE p = r
    <3>1. \A x, y : ~PageThen(p, x, y)'
      BY <2>1, <2>2, <2>4 DEF Fetched, ApieceOf
    <3>2. \A c : ~Asked(p, c)'
      BY <2>1, <2>2, <2>4 DEF Fetched, ApieceOf
    <3>3. ASSUME cursor'[p] # 0 PROVE PagesBefore(p, cursor[p])'
      <4>1. b = cursor[p] /\ b # 0 /\ b \in Nat
        BY <1>2, <2>1, <2>2, <2>4, <3>3 DEF Fetched, ApieceOf, Fetches
      <4>2. q = Page
        BY <1>2, <4>1 DEF Fetches, Cursors
      <4>3. \A x : Within(s, x) => x < b
        BY <1>2, <4>1, <4>2, PageOf DEF Fetches
      <4>4. \A ms : HasPage(p, ms)' => HasPage(p, ms) \/ ms = s
        BY <2>1, <2>4 DEF Fetched
      <4>5. \A ms, x : HasPage(p, ms) /\ Within(ms, x) => x < cursor[p]
        BY <2>1, <2>2, <3>3 DEF ApieceOf, PagesBefore
      <4> QED
        BY <2>1, <4>1, <4>3, <4>4, <4>5 DEF PagesBefore, Within
    <3> QED
      BY <2>1, <2>2, <2>3, <3>1, <3>2, <3>3 DEF ApieceOf
  <2>5. CASE p # r
    <3>1. /\ \A ms : HasPage(p, ms)' => HasPage(p, ms)
          /\ \A ms, ns : PageThen(p, ms, ns)' => PageThen(p, ms, ns)
      BY <2>1, <2>5 DEF Fetched
    <3>2. cursor'[p] # 0 => PagesBefore(p, cursor[p])'
      BY <2>1, <2>2, <3>1 DEF ApieceOf, PagesBefore, Within
    <3> QED
      BY <2>1, <2>2, <2>3, <3>1, <3>2 DEF ApieceOf
  <2> QED
    BY <2>4, <2>5
<1>3. ASSUME NEW r \in Peers, NEW c, Scrolls(r, c) PROVE Apiece'
  <2>1. ScrolledUp(r, c) /\ cursor' = cursor /\ c = cursor[r] /\ \A p \in Peers : ListsSame(p)
    BY <1>3 DEF Scrolls
  <2> SUFFICES ASSUME NEW p \in Peers \ overlap' PROVE ApieceOf(p)'
    BY ApiecePartsNext
  <2>2. ApieceOf(p)
    BY <2>1, ApieceParts DEF ScrolledUp
  <2>3. /\ \A ms : HasPage(p, ms)' => HasPage(p, ms)
        /\ \A ms, ns : PageThen(p, ms, ns)' => PageThen(p, ms, ns)
        /\ \A x : InList(p, x)' => InList(p, x)
        /\ \A x, y : ListThen(p, x, y)' => ListThen(p, x, y)
    BY <2>1 DEF ScrolledUp, PagesKept, ListsSame
  <2>4. cursor'[p] # 0 => PagesBefore(p, cursor[p])'
    BY <2>1, <2>2, <2>3 DEF ApieceOf, PagesBefore, Within
  <2>5. /\ \A ms, b : ~(HasPage(p, ms)' /\ Asked(p, b)')
        /\ \A b, d : ~AskedThen(p, b, d)'
        /\ \A b : Asked(p, b)' => b = cursor'[p]
    BY <2>1, <2>2, <2>3 DEF ScrolledUp, ApieceOf
  <2> QED
    BY <2>1, <2>2, <2>3, <2>4, <2>5 DEF ApieceOf
<1>4. ASSUME NEW r \in Peers, NEW below \in BOOLEAN, NEW s, Receives(r, s, below) PROVE Apiece'
  <2>1. /\ AsksKept /\ PagesKept /\ overlap' = overlap /\ Listed(r, s, below)
        /\ \A p \in Peers \ {r} : cursor'[p] = cursor[p]
        /\ cursor'[r] = IF s = <<>> THEN cursor[r] ELSE s[1].id
        /\ HasPage(r, s) /\ \A ns : HasPage(r, ns)' => PageThen(r, s, ns)
        /\ IF below THEN cursor[r] = 0 ELSE cursor[r] # 0
    BY <1>4 DEF Receives
  <2>2. \A p \in Peers \ {r} : ListsSame(p)
    BY <2>1 DEF Listed, SameShown, ListsSame
  <2>3. \A p \in Peers \ overlap : p # r => ApieceOf(p)'
    BY <2>1, <2>2, ApieceParts, ApieceKept
  <2>4. ASSUME r \notin overlap PROVE ApieceOf(r)'
    <3>1. ApieceOf(r)
      BY <2>4, ApieceParts
    <3>2. /\ \A ms, ns : ~PageThen(r, ms, ns)'
          /\ \A b : ~Asked(r, b)'
          /\ \A b, c : ~AskedThen(r, b, c)'
          /\ \A ns : ~HasPage(r, ns)'
      BY <2>1, <3>1 DEF AsksKept, PagesKept, ApieceOf
    <3>3. Sorted(s)
      BY <2>1 DEF Cursors
    <3>4. \A x : Within(s, x) => s # <<>> /\ s[1].id <= x /\ x \in Nat /\ s[1].id \in Nat
      BY <2>1, <3>3, Oldest, PageIds
    <3>5. s = <<>> => \A x : ~Within(s, x)
      BY <3>4
    <3>6. \A x : InList(r, x) => x \in Nat /\ cursor[r] # 0 /\ cursor[r] <= x
      <4>1. \A x : InList(r, x) => x \in DOMAIN rows
        BY ShownAmong DEF InList, Is
      <4> QED
        BY <3>1, <4>1, ChatTypes DEF ApieceOf, Cursors
    <3>7. cursor[r] # 0 => \A x : Within(s, x) => x < cursor[r]
      BY <2>1, <3>1 DEF ApieceOf, PagesBefore
    <3>8. cursor[r] \in Nat
      BY MessengerAssumption DEF TInv, ClientOK
    <3>9. \A x : InList(r, x) => cursor'[r] <= x
      <4> SUFFICES ASSUME NEW x, InList(r, x) PROVE cursor'[r] <= x
        OBVIOUS
      <4>1. CASE s = <<>>
        BY <2>1, <3>6, <4>1
      <4>2. CASE s # <<>>
        <5>1. Within(s, s[1].id)
          BY <2>1, <4>2, PageIds
        <5>2. cursor'[r] < cursor[r] /\ cursor'[r] \in Nat
          BY <2>1, <3>4, <3>6, <3>7, <4>2, <5>1
        <5> QED
          BY <3>6, <3>8, <5>2
      <4> QED
        BY <4>1, <4>2
    <3>10. \A x : InList(r, x)' => cursor'[r] <= x
      <4>1. \A x : InList(r, x)' => InList(r, x) \/ Within(s, x)
        BY <2>1 DEF Listed
      <4> QED
        BY <2>1, <3>4, <3>9, <4>1
    <3>11. \A x, y : ListThen(r, x, y)' => x < y
      <4>1. \A x, y : ListThen(r, x, y)' =>
              \/ ListThen(r, x, y)
              \/ Within(s, x) /\ Within(s, y) /\ x < y
              \/ IF below THEN InList(r, x) /\ Within(s, y) ELSE Within(s, x) /\ InList(r, y)
        BY <2>1 DEF Listed
      <4>2. below => \A x : ~InList(r, x)
        BY <2>1, <3>6
      <4>3. \A x, y : Within(s, x) /\ InList(r, y) => x < y
        BY <3>4, <3>6, <3>7, <3>8
      <4>4. \A x, y : ListThen(r, x, y) => x < y
        BY <3>1 DEF ApieceOf
      <4> QED
        BY <4>1, <4>2, <4>3, <4>4
    <3> QED
      BY <3>2, <3>10, <3>11 DEF ApieceOf, PagesBefore
  <2> QED
    BY <2>1, <2>3, <2>4, ApiecePartsNext
<1> QED
  BY <1>1, <1>2, <1>3, <1>4, ListsGo

(* Overlapping, for one chat *)
OverlappingOf(p) ==
  cursor[p] # 0 =>
    /\ \A b, c : AskedThen(p, b, c) => Under(p, b, c)
    /\ \A b : Asked(p, b) => Under(p, b, cursor[p])
    /\ \A ms : HasPage(p, ms) /\ ms # <<>> => Under(p, cursor[p], ms[1].id)
    /\ \A ms, b : HasPage(p, ms) /\ ms # <<>> /\ Asked(p, b) => Under(p, b, ms[1].id)
    /\ \A ms, ns : PageThen(p, ms, ns) /\ ms # <<>> /\ ns # <<>> => Under(p, ms[1].id, ns[1].id)

LEMMA OverlappingParts == Overlapping <=> \A p \in Peers : OverlappingOf(p)
  BY DEF Overlapping, OverlappingOf

LEMMA OverlappingPartsNext == Overlapping' <=> \A p \in Peers : OverlappingOf(p)'
  BY DEF Overlapping, OverlappingOf

(* What is under what stays so, however the table changes.                 *)
LEMMA AlwaysUnder ==
  ASSUME TInv, TInv', [Next]_vars, NEW p, NEW a \in Nat, NEW b \in Nat, a <= Len(rows), b <= Len(rows), Under(p, a, b)
  PROVE  \A c, d : c = a /\ d = b => Under(p, c, d)'
<1>1. \A x : x \in Chat(p)' => x \in Chat(p) \/ x > Len(rows)
  BY ChatStep
<1>2. DOMAIN rows' \subseteq Nat
  <2>1. RowsOK'
    BY DEF TInv
  <2> QED
    BY <2>1, RowTypes DEF Ids
<1>3. Chat(p)' \subseteq Nat
  BY <1>2 DEF Chat, Stored
<1> QED
  BY <1>1, <1>3, UnderStays

LEMMA SameUnder ==
  ASSUME rows' = rows
  PROVE  /\ \A p, a, b : Under(p, a, b) => \A c, d : c = a /\ d = b => Under(p, c, d)'
         /\ \A p, x : x \in Chat(p)' <=> x \in Chat(p)
<1>1. \A p : Chat(p)' = Chat(p)
  BY DEF Chat, Conversation, Stored
<1> QED
  BY <1>1 DEF Under, Near

LEMMA Spans ==
  ASSUME TInv, Cursors, NEW p \in Peers
  PROVE  /\ cursor[p] \in Nat /\ cursor[p] <= Len(rows)
         /\ \A b : Asked(p, b) => b \in Nat /\ b <= Len(rows) /\ (b = 0 <=> cursor[p] = 0)
         /\ \A b, c : AskedThen(p, b, c) => Asked(p, b) /\ Asked(p, c)
         /\ \A ms : HasPage(p, ms) /\ ms # <<>> => ms[1].id \in Nat /\ ms[1].id <= Len(rows) /\ ms[1].id # 0
         /\ \A ms, ns : PageThen(p, ms, ns) => HasPage(p, ms) /\ HasPage(p, ns)
<1>1. cursor[p] \in Nat
  BY MessengerAssumption DEF TInv, ClientOK
<1>2. \A k \in DOMAIN requests : requests[k].code = "history" => requests[k].before \in Nat
  BY MessengerAssumption, RequestTypes, ElementOfSeq, LenProperties DEF TInv, RequestsOK
<1>3. \A b : Asked(p, b) => b \in Nat
  BY <1>2 DEF Asked, InRequests
<1>4. \A ms : HasPage(p, ms) /\ ms # <<>> => ms[1].id \in DOMAIN rows /\ ms[1].id # 0
  BY PageIds
<1>5. DOMAIN rows = 1..Len(rows) /\ Len(rows) \in Nat
  BY ChatTypes
<1>6. \A ms, ns : PageThen(p, ms, ns) => HasPage(p, ms) /\ HasPage(p, ns)
  BY DEF PageThen, HasPage
<1>7. \A b, c : AskedThen(p, b, c) => Asked(p, b) /\ Asked(p, c)
  BY DEF AskedThen, Asked
<1> QED
  BY <1>1, <1>3, <1>4, <1>5, <1>6, <1>7 DEF Cursors

LEMMA OverlappingKept ==
  ASSUME TInv, TInv', [Next]_vars, Cursors, NEW p \in Peers, PagesKept, AsksKept, cursor'[p] = cursor[p], OverlappingOf(p)
  PROVE  OverlappingOf(p)'
<1>1. /\ \A ms : HasPage(p, ms)' => HasPage(p, ms)
      /\ \A ms, ns : PageThen(p, ms, ns)' => PageThen(p, ms, ns)
      /\ \A b : Asked(p, b)' => Asked(p, b)
      /\ \A b, c : AskedThen(p, b, c)' => AskedThen(p, b, c)
  BY DEF PagesKept, AsksKept
<1> SUFFICES ASSUME cursor[p] # 0
             PROVE  /\ \A b, c : AskedThen(p, b, c)' => Under(p, b, c)'
                    /\ \A b : Asked(p, b)' => Under(p, b, cursor[p])'
                    /\ \A ms : HasPage(p, ms)' /\ ms # <<>> => Under(p, cursor[p], ms[1].id)'
                    /\ \A ms, b : HasPage(p, ms)' /\ ms # <<>> /\ Asked(p, b)' => Under(p, b, ms[1].id)'
                    /\ \A ms, ns : PageThen(p, ms, ns)' /\ ms # <<>> /\ ns # <<>> => Under(p, ms[1].id, ns[1].id)'
  BY DEF OverlappingOf
<1>2. \A a, b \in Nat : a <= Len(rows) /\ b <= Len(rows) /\ Under(p, a, b) => \A c, d : c = a /\ d = b => Under(p, c, d)'
  BY AlwaysUnder
<1>3. /\ cursor[p] \in Nat /\ cursor[p] <= Len(rows)
      /\ \A b : Asked(p, b) => b \in Nat /\ b <= Len(rows)
      /\ \A b, c : AskedThen(p, b, c) => Asked(p, b) /\ Asked(p, c)
      /\ \A ms : HasPage(p, ms) /\ ms # <<>> => ms[1].id \in Nat /\ ms[1].id <= Len(rows)
      /\ \A ms, ns : PageThen(p, ms, ns) => HasPage(p, ms) /\ HasPage(p, ns)
  BY Spans
<1>4. \A b, c : AskedThen(p, b, c)' => Under(p, b, c)'
  BY <1>1, <1>2, <1>3 DEF OverlappingOf
<1>5. \A b : Asked(p, b)' => Under(p, b, cursor[p])'
  BY <1>1, <1>2, <1>3 DEF OverlappingOf
<1>6. \A ms : HasPage(p, ms)' /\ ms # <<>> => Under(p, cursor[p], ms[1].id)'
  BY <1>1, <1>2, <1>3 DEF OverlappingOf
<1>7. \A ms, b : HasPage(p, ms)' /\ ms # <<>> /\ Asked(p, b)' => Under(p, b, ms[1].id)'
  BY <1>1, <1>2, <1>3 DEF OverlappingOf
<1>8. \A ms, ns : PageThen(p, ms, ns)' /\ ms # <<>> /\ ns # <<>> => Under(p, ms[1].id, ns[1].id)'
  BY <1>1, <1>2, <1>3 DEF OverlappingOf
<1> QED
  BY <1>4, <1>5, <1>6, <1>7, <1>8

LEMMA OverlappingStep ==
  ASSUME TInv, TInv', [Next]_vars, Cursors, Overlapping, Goes
  PROVE  Overlapping'
<1>1. CASE ListsStay
  BY <1>1, OverlappingParts, OverlappingPartsNext, OverlappingKept DEF ListsStay
<1>2. ASSUME NEW r \in Peers, NEW b, NEW q, NEW s, Fetches(r, b, q, s) PROVE Overlapping'
  <2>1. AsksKept /\ Fetched(r, b, s) /\ cursor' = cursor /\ rows' = rows
    BY <1>2 DEF Fetches, Fetched
  <2>2. ASSUME NEW p \in Peers, p # r PROVE OverlappingOf(p)'
    <3>1. /\ \A ms : HasPage(p, ms)' => HasPage(p, ms)
          /\ \A ms, ns : PageThen(p, ms, ns)' => PageThen(p, ms, ns)
          /\ \A c : Asked(p, c)' => Asked(p, c)
          /\ \A c, d : AskedThen(p, c, d)' => AskedThen(p, c, d)
      BY <2>1, <2>2 DEF Fetched, AsksKept
    <3>2. OverlappingOf(p)
      BY OverlappingParts
    <3> QED
      BY <2>1, <3>1, <3>2, SameUnder DEF OverlappingOf
  <2>3. ASSUME cursor[r] # 0 PROVE OverlappingOf(r)'
    <3>1. /\ Asked(r, b) /\ b \in Nat \ {0} /\ q = Page /\ s = LastMessages(Me, r, b, Page) /\ cursor[r] \in Nat
      BY <1>2, <2>1, <2>3, Spans DEF Fetched, Fetches, Cursors
    <3>2. OverlappingOf(r)
      BY OverlappingParts
    <3>3. /\ \A ms : HasPage(r, ms)' => HasPage(r, ms) \/ ms = s
          /\ \A ms, ns : PageThen(r, ms, ns)' => PageThen(r, ms, ns) \/ (HasPage(r, ms) /\ ns = s)
          /\ \A c : Asked(r, c)' => Asked(r, c) /\ AskedThen(r, b, c)
          /\ \A c, d : AskedThen(r, c, d)' => AskedThen(r, c, d)
      BY <2>1 DEF Fetched, AsksKept
    <3>4. /\ \A c, d : AskedThen(r, c, d) => Under(r, c, d)
          /\ \A c : Asked(r, c) => Under(r, c, cursor[r])
          /\ \A ms : HasPage(r, ms) /\ ms # <<>> => Under(r, cursor[r], ms[1].id)
          /\ \A ms, c : HasPage(r, ms) /\ ms # <<>> /\ Asked(r, c) => Under(r, c, ms[1].id)
          /\ \A ms, ns : PageThen(r, ms, ns) /\ ms # <<>> /\ ns # <<>> => Under(r, ms[1].id, ns[1].id)
      BY <2>3, <3>2 DEF OverlappingOf
    <3>5. \A c \in Nat : Under(r, b, c) /\ s # <<>> => Under(r, c, s[1].id)
      BY <3>1, PageUnder
    <3>6. /\ \A c : Asked(r, c) => c \in Nat
          /\ \A ms : HasPage(r, ms) /\ ms # <<>> => ms[1].id \in Nat
      BY Spans
    <3>7. s # <<>> => Under(r, cursor[r], s[1].id)
      BY <3>1, <3>4, <3>5
    <3>8. \A c : Asked(r, c)' /\ s # <<>> => Under(r, c, s[1].id)
      BY <3>3, <3>4, <3>5, <3>6
    <3>9. \A ms : HasPage(r, ms) /\ ms # <<>> /\ s # <<>> => Under(r, ms[1].id, s[1].id)
      BY <3>1, <3>4, <3>5, <3>6
    <3>10. \A c, d : AskedThen(r, c, d)' => Under(r, c, d)'
      BY <2>1, <3>3, <3>4, SameUnder
    <3>11. \A c : Asked(r, c)' => Under(r, c, cursor[r])'
      BY <2>1, <3>3, <3>4, SameUnder
    <3>12. \A ms : HasPage(r, ms)' /\ ms # <<>> => Under(r, cursor[r], ms[1].id)'
      BY <2>1, <3>3, <3>4, <3>7, SameUnder
    <3>13. \A ms, c : HasPage(r, ms)' /\ ms # <<>> /\ Asked(r, c)' => Under(r, c, ms[1].id)'
      BY <2>1, <3>3, <3>4, <3>8, SameUnder
    <3>14. \A ms, ns : PageThen(r, ms, ns)' /\ ms # <<>> /\ ns # <<>> => Under(r, ms[1].id, ns[1].id)'
      BY <2>1, <3>3, <3>4, <3>9, SameUnder
    <3> QED
      BY <3>10, <3>11, <3>12, <3>13, <3>14 DEF OverlappingOf
  <2>4. cursor[r] = 0 => OverlappingOf(r)'
    BY <2>1 DEF OverlappingOf
  <2> QED
    BY <2>2, <2>3, <2>4, OverlappingPartsNext
<1>3. ASSUME NEW r \in Peers, NEW c, Scrolls(r, c) PROVE Overlapping'
  <2>1. ScrolledUp(r, c) /\ cursor' = cursor /\ rows' = rows /\ c = cursor[r]
    BY <1>3 DEF Scrolls
  <2> SUFFICES ASSUME NEW p \in Peers PROVE OverlappingOf(p)'
    BY OverlappingPartsNext
  <2>2. OverlappingOf(p)
    BY OverlappingParts
  <2>3. /\ \A ms : HasPage(p, ms)' => HasPage(p, ms)
        /\ \A ms, ns : PageThen(p, ms, ns)' => PageThen(p, ms, ns)
        /\ \A b : Asked(p, b)' => Asked(p, b) \/ b = cursor[p]
        /\ \A b, d : AskedThen(p, b, d)' => AskedThen(p, b, d) \/ (Asked(p, b) /\ d = cursor[p])
    BY <2>1 DEF ScrolledUp, PagesKept
  <2>4. Under(p, cursor[p], cursor[p])
    BY DEF Under, Near
  <2>5. cursor[p] # 0 => \A b, d : AskedThen(p, b, d)' => Under(p, b, d)'
    BY <2>1, <2>2, <2>3, SameUnder DEF OverlappingOf
  <2>6. cursor[p] # 0 => \A b : Asked(p, b)' => Under(p, b, cursor[p])'
    BY <2>1, <2>2, <2>3, <2>4, SameUnder DEF OverlappingOf
  <2>7. cursor[p] # 0 => \A ms : HasPage(p, ms)' /\ ms # <<>> => Under(p, cursor[p], ms[1].id)'
    BY <2>1, <2>2, <2>3, SameUnder DEF OverlappingOf
  <2>8. cursor[p] # 0 => \A ms, b : HasPage(p, ms)' /\ ms # <<>> /\ Asked(p, b)' => Under(p, b, ms[1].id)'
    BY <2>1, <2>2, <2>3, SameUnder DEF OverlappingOf
  <2>9. cursor[p] # 0 => \A ms, ns : PageThen(p, ms, ns)' /\ ms # <<>> /\ ns # <<>> => Under(p, ms[1].id, ns[1].id)'
    BY <2>1, <2>2, <2>3, SameUnder DEF OverlappingOf
  <2> QED
    BY <2>1, <2>5, <2>6, <2>7, <2>8, <2>9 DEF OverlappingOf
<1>4. ASSUME NEW r \in Peers, NEW below \in BOOLEAN, NEW s, Receives(r, s, below) PROVE Overlapping'
  <2>1. /\ AsksKept /\ PagesKept /\ rows' = rows
        /\ \A p \in Peers \ {r} : cursor'[p] = cursor[p]
        /\ cursor'[r] = IF s = <<>> THEN cursor[r] ELSE s[1].id
        /\ HasPage(r, s) /\ \A ns : HasPage(r, ns)' => PageThen(r, s, ns)
        /\ IF below THEN cursor[r] = 0 /\ (\A ns : ~HasPage(r, ns)') /\ (\A b : ~Asked(r, b)') ELSE cursor[r] # 0
    BY <1>4 DEF Receives
  <2>2. \A p \in Peers : p # r => OverlappingOf(p)'
    BY <2>1, OverlappingParts, OverlappingKept
  <2>3. CASE s = <<>>
    BY <2>1, <2>2, <2>3, OverlappingParts, OverlappingPartsNext, OverlappingKept
  <2>4. CASE below
    <3>1. TInv'
      OBVIOUS
    <3>2. (\A ms, ns : ~PageThen(r, ms, ns)') /\ \A b, c : ~AskedThen(r, b, c)'
      <4>1. (\A ms, ns : PageThen(r, ms, ns)' => HasPage(r, ms)') /\ \A b, c : AskedThen(r, b, c)' => Asked(r, b)'
        BY DEF PageThen, HasPage, AskedThen, Asked
      <4> QED
        BY <2>1, <2>4, <4>1
    <3>3. OverlappingOf(r)'
      BY <2>1, <2>4, <3>2 DEF OverlappingOf
    <3> QED
      BY <2>2, <3>3, OverlappingPartsNext
  <2>5. CASE ~below /\ s # <<>>
    <3>1. OverlappingOf(r) /\ cursor[r] # 0 /\ cursor'[r] = s[1].id
      BY <2>1, <2>5, OverlappingParts
    <3>2. /\ \A ms : HasPage(r, ms)' => HasPage(r, ms) /\ PageThen(r, s, ms)
          /\ \A ms, ns : PageThen(r, ms, ns)' => PageThen(r, ms, ns)
          /\ \A b : Asked(r, b)' => Asked(r, b)
          /\ \A b, c : AskedThen(r, b, c)' => AskedThen(r, b, c)
      BY <2>1 DEF PagesKept, AsksKept
    <3>3. \A b, c : AskedThen(r, b, c)' => Under(r, b, c)'
      BY <2>1, <3>1, <3>2, SameUnder DEF OverlappingOf
    <3>4. \A b : Asked(r, b)' => Under(r, b, cursor[r])'
      BY <2>1, <2>5, <3>1, <3>2, SameUnder DEF OverlappingOf
    <3>5. \A ms : HasPage(r, ms)' /\ ms # <<>> => Under(r, cursor[r], ms[1].id)'
      BY <2>1, <2>5, <3>1, <3>2, SameUnder DEF OverlappingOf
    <3>6. \A ms, b : HasPage(r, ms)' /\ ms # <<>> /\ Asked(r, b)' => Under(r, b, ms[1].id)'
      BY <2>1, <3>1, <3>2, SameUnder DEF OverlappingOf
    <3>7. \A ms, ns : PageThen(r, ms, ns)' /\ ms # <<>> /\ ns # <<>> => Under(r, ms[1].id, ns[1].id)'
      BY <2>1, <3>1, <3>2, SameUnder DEF OverlappingOf
    <3>8. OverlappingOf(r)'
      BY <3>3, <3>4, <3>5, <3>6, <3>7 DEF OverlappingOf
    <3> QED
      BY <2>2, <3>8, OverlappingPartsNext
  <2> QED
    BY <2>3, <2>4, <2>5
<1> QED
  BY <1>1, <1>2, <1>3, <1>4, ListsGo

(* Meeting, for one chat *)
MeetingOf(p) ==
  cursor[p] # 0 =>
    /\ \A x : InList(p, x) /\ x \in Chat(p) => cursor[p] <= x
    /\ \A ms, x : HasPage(p, ms) /\ InList(p, x) => Meets(p, x, ms)
    /\ \A ms, ns, x : PageThen(p, ms, ns) /\ Within(ms, x) => Meets(p, x, ns)
    /\ \A x, y : LiveThen(p, x, y) /\ x \in Chat(p) /\ y \in Chat(p) => x < y

LEMMA MeetingParts == Meeting <=> \A p \in Peers : MeetingOf(p)
  BY DEF Meeting, MeetingOf

LEMMA MeetingPartsNext == Meeting' <=> \A p \in Peers : MeetingOf(p)'
  BY DEF Meeting, MeetingOf

LEMMA ListIds ==
  ASSUME TInv, NEW p \in Peers
  PROVE  /\ \A x : InList(p, x) => x \in DOMAIN rows /\ x \in Nat
         /\ \A x, y : LiveThen(p, x, y) => InList(p, x) /\ InList(p, y)
<1>1. \A x : InList(p, x) => x \in DOMAIN rows
  BY ShownAmong DEF InList, Is
<1>2. \A x, y : LiveThen(p, x, y) => InList(p, x) /\ InList(p, y)
  BY DEF LiveThen, InList, Live
<1> QED
  BY <1>1, <1>2, ChatTypes

LEMMA MeetingKept ==
  ASSUME TInv, TInv', [Next]_vars, NEW p \in Peers, PagesKept, ListsSame(p), cursor'[p] = cursor[p], MeetingOf(p)
  PROVE  MeetingOf(p)'
<1>1. /\ \A ms : HasPage(p, ms)' => HasPage(p, ms)
      /\ \A ms, ns : PageThen(p, ms, ns)' => PageThen(p, ms, ns)
      /\ \A x : InList(p, x)' => InList(p, x)
      /\ \A x, y : LiveThen(p, x, y)' => LiveThen(p, x, y)
  BY DEF PagesKept, ListsSame
<1>2. \A x \in DOMAIN rows : x \in Chat(p)' => x \in Chat(p)
  <2>1. \A x : x \in Chat(p)' => x \in Chat(p) \/ x > Len(rows)
    BY ChatStep
  <2> QED
    BY <2>1, ChatTypes
<1>3. /\ \A x : InList(p, x) => x \in DOMAIN rows
      /\ \A x, y : LiveThen(p, x, y) => x \in DOMAIN rows /\ y \in DOMAIN rows
      /\ \A ms, ns, x : PageThen(p, ms, ns) /\ Within(ms, x) => x \in DOMAIN rows
  <2>1. \A ms, ns : PageThen(p, ms, ns) => HasPage(p, ms)
    BY DEF PageThen, HasPage
  <2> QED
    BY <2>1, ListIds, PageIds
<1>4. \A ms : \A x \in DOMAIN rows : Meets(p, x, ms) => Meets(p, x, ms)'
  BY <1>2 DEF Meets, Within
<1> SUFFICES ASSUME cursor[p] # 0
             PROVE  /\ \A x : InList(p, x)' /\ x \in Chat(p)' => cursor'[p] <= x
                    /\ \A ms, x : HasPage(p, ms)' /\ InList(p, x)' => Meets(p, x, ms)'
                    /\ \A ms, ns, x : PageThen(p, ms, ns)' /\ Within(ms, x) => Meets(p, x, ns)'
                    /\ \A x, y : LiveThen(p, x, y)' /\ x \in Chat(p)' /\ y \in Chat(p)' => x < y
  BY DEF MeetingOf, Within
<1>5. \A x : InList(p, x)' /\ x \in Chat(p)' => cursor'[p] <= x
  BY <1>1, <1>2, <1>3 DEF MeetingOf
<1>6. \A ms, x : HasPage(p, ms)' /\ InList(p, x)' => Meets(p, x, ms)'
  BY <1>1, <1>3, <1>4 DEF MeetingOf
<1>7. \A ms, ns, x : PageThen(p, ms, ns)' /\ Within(ms, x) => Meets(p, x, ns)'
  BY <1>1, <1>3, <1>4 DEF MeetingOf
<1>8. \A x, y : LiveThen(p, x, y)' /\ x \in Chat(p)' /\ y \in Chat(p)' => x < y
  BY <1>1, <1>2, <1>3 DEF MeetingOf
<1> QED
  BY <1>5, <1>6, <1>7, <1>8

LEMMA MeetingStep ==
  ASSUME TInv, TInv', [Next]_vars, Cursors, Overlapping, Meeting, Goes
  PROVE  Meeting'
<1>1. CASE ListsStay
  BY <1>1, MeetingParts, MeetingPartsNext, MeetingKept DEF ListsStay
<1>2. ASSUME NEW r \in Peers, NEW b, NEW q, NEW s, Fetches(r, b, q, s) PROVE Meeting'
  <2>1. AsksKept /\ Fetched(r, b, s) /\ cursor' = cursor /\ rows' = rows /\ \A p \in Peers : ListsSame(p)
    BY <1>2 DEF Fetches, Fetched
  <2>s. \A p, x, ms : Meets(p, x, ms) => Meets(p, x, ms)'
    BY <2>1, SameUnder DEF Meets, Within
  <2>2. ASSUME NEW p \in Peers, p # r PROVE MeetingOf(p)'
    <3>1. /\ \A ms : HasPage(p, ms)' => HasPage(p, ms)
          /\ \A ms, ns : PageThen(p, ms, ns)' => PageThen(p, ms, ns)
          /\ \A x : InList(p, x)' => InList(p, x)
          /\ \A x, y : LiveThen(p, x, y)' => LiveThen(p, x, y)
      BY <2>1, <2>2 DEF Fetched, ListsSame
    <3>2. MeetingOf(p)
      BY MeetingParts
    <3> QED
      BY <2>1, <2>s, <3>1, <3>2, SameUnder DEF MeetingOf, Within
  <2>3. ASSUME cursor[r] # 0 PROVE MeetingOf(r)'
    <3>1. /\ Asked(r, b) /\ b \in Nat \ {0} /\ s = LastMessages(Me, r, b, Page)
      BY <1>2, <2>1, <2>3, Spans DEF Fetched, Fetches, Cursors
    <3>2. /\ Under(r, b, cursor[r])
          /\ \A ms : HasPage(r, ms) /\ ms # <<>> => Under(r, b, ms[1].id)
      BY <2>3, <3>1, OverlappingParts DEF OverlappingOf
    <3>3. \A c, x : Under(r, b, c) /\ x >= c => Meets(r, x, s)
      BY <3>1, PageMeets
    <3>4. /\ \A ms : HasPage(r, ms)' => HasPage(r, ms) \/ ms = s
          /\ \A ms, ns : PageThen(r, ms, ns)' => PageThen(r, ms, ns) \/ (HasPage(r, ms) /\ ns = s)
          /\ \A x : InList(r, x)' => InList(r, x)
          /\ \A x, y : LiveThen(r, x, y)' => LiveThen(r, x, y)
      BY <2>1 DEF Fetched, ListsSame
    <3>5. MeetingOf(r)
      BY MeetingParts
    <3>6. \A x : InList(r, x) => Meets(r, x, s)
      <4> SUFFICES ASSUME NEW x, InList(r, x), x \in Chat(r) PROVE Meets(r, x, s)
        BY DEF Meets
      <4>1. cursor[r] <= x
        BY <2>3, <3>5 DEF MeetingOf
      <4>2. cursor[r] \in Nat /\ x \in Nat
        BY Spans, ListIds
      <4>3. x >= cursor[r]
        BY <4>1, <4>2
      <4> QED
        BY <3>2, <3>3, <4>3
    <3>7. \A ms, x : HasPage(r, ms) /\ Within(ms, x) => Meets(r, x, s)
      <4> SUFFICES ASSUME NEW ms, NEW x, HasPage(r, ms), Within(ms, x) PROVE Meets(r, x, s)
        OBVIOUS
      <4>1. ms # <<>> /\ ms[1].id <= x
        BY Oldest DEF Cursors
      <4>2. x \in Nat /\ ms[1].id \in Nat
        BY <4>1, PageIds
      <4>3. x >= ms[1].id
        BY <4>1, <4>2
      <4> QED
        BY <3>2, <3>3, <4>1, <4>3
    <3>8. \A ms, x : HasPage(r, ms)' /\ InList(r, x)' => Meets(r, x, ms)'
      BY <2>3, <2>s, <3>4, <3>5, <3>6 DEF MeetingOf
    <3>9. \A ms, ns, x : PageThen(r, ms, ns)' /\ Within(ms, x) => Meets(r, x, ns)'
      BY <2>3, <2>s, <3>4, <3>5, <3>7 DEF MeetingOf
    <3>10. \A x : InList(r, x)' /\ x \in Chat(r)' => cursor'[r] <= x
      BY <2>1, <2>3, <3>4, <3>5, SameUnder DEF MeetingOf
    <3>11. \A x, y : LiveThen(r, x, y)' /\ x \in Chat(r)' /\ y \in Chat(r)' => x < y
      BY <2>1, <2>3, <3>4, <3>5, SameUnder DEF MeetingOf
    <3> QED
      BY <3>8, <3>9, <3>10, <3>11 DEF MeetingOf, Within
  <2>4. cursor[r] = 0 => MeetingOf(r)'
    BY <2>1 DEF MeetingOf
  <2> QED
    BY <2>2, <2>3, <2>4, MeetingPartsNext
<1>3. ASSUME NEW r \in Peers, NEW c, Scrolls(r, c) PROVE Meeting'
  <2>1. PagesKept /\ cursor' = cursor /\ \A p \in Peers : ListsSame(p)
    BY <1>3 DEF Scrolls, ScrolledUp
  <2> QED
    BY <2>1, MeetingParts, MeetingPartsNext, MeetingKept
<1>4. ASSUME NEW r \in Peers, NEW below \in BOOLEAN, NEW s, Receives(r, s, below) PROVE Meeting'
  <2>1. /\ PagesKept /\ rows' = rows /\ Listed(r, s, below)
        /\ \A p \in Peers \ {r} : cursor'[p] = cursor[p]
        /\ cursor'[r] = IF s = <<>> THEN cursor[r] ELSE s[1].id
        /\ HasPage(r, s) /\ \A ns : HasPage(r, ns)' => PageThen(r, s, ns)
        /\ IF below THEN cursor[r] = 0 /\ (\A ns : ~HasPage(r, ns)') ELSE cursor[r] # 0
    BY <1>4 DEF Receives
  <2>2. \A p \in Peers \ {r} : ListsSame(p)
    BY <2>1 DEF Listed, SameShown, ListsSame
  <2>3. \A p \in Peers : p # r => MeetingOf(p)'
    BY <2>1, <2>2, MeetingParts, MeetingKept
  <2>4. MeetingOf(r)'
    <3>s. \A x, ms : Meets(r, x, ms) => Meets(r, x, ms)'
      BY <2>1, SameUnder DEF Meets, Within
    <3>1. /\ \A x : InList(r, x)' => InList(r, x) \/ Within(s, x)
          /\ \A x, y : LiveThen(r, x, y)' =>
               \/ LiveThen(r, x, y)
               \/ Within(s, x) /\ Within(s, y) /\ x < y
               \/ IF below THEN InList(r, x) /\ Within(s, y) ELSE Within(s, x) /\ InList(r, y) /\ ~Within(s, y)
      BY <2>1 DEF Listed
    <3>2. \A x, y : LiveThen(r, x, y) => InList(r, x)
      BY ListIds
    <3>3. \A x : Within(s, x) => s # <<>> /\ s[1].id <= x /\ x \in Nat /\ s[1].id \in Nat
      BY <2>1, Oldest, PageIds DEF Cursors
    <3>4. CASE below
      <4>1. \A x : ~InList(r, x)
        BY <2>1, <3>4 DEF Cursors
      <4>2. (\A ns : ~HasPage(r, ns)') /\ \A ms, ns : ~PageThen(r, ms, ns)'
        <5>1. \A ms, ns : PageThen(r, ms, ns)' => HasPage(r, ms)'
          BY DEF PageThen, HasPage
        <5> QED
          BY <2>1, <3>4, <5>1
      <4>3. \A x : InList(r, x)' => cursor'[r] <= x
        BY <2>1, <3>1, <3>3, <4>1
      <4>4. \A x, y : LiveThen(r, x, y)' => x < y
        BY <3>1, <3>2, <3>4, <4>1
      <4> QED
        BY <4>2, <4>3, <4>4 DEF MeetingOf
    <3>5. CASE ~below
      <4>1. MeetingOf(r) /\ OverlappingOf(r) /\ cursor[r] # 0 /\ cursor[r] \in Nat
        BY <2>1, <3>5, MeetingParts, OverlappingParts, Spans
      <4>2. \A x : InList(r, x) /\ x \in Chat(r) => cursor'[r] <= x
        <5> SUFFICES ASSUME NEW x, InList(r, x), x \in Chat(r) PROVE cursor'[r] <= x
          OBVIOUS
        <5>1. cursor[r] <= x /\ x \in Nat
          BY <4>1, ListIds DEF MeetingOf
        <5>2. CASE s = <<>>
          BY <2>1, <5>1, <5>2
        <5>3. CASE s # <<>>
          <6>1. Under(r, cursor[r], s[1].id) /\ s[1].id \in Nat
            BY <2>1, <4>1, <5>3, Spans DEF OverlappingOf
          <6>2. x >= cursor[r]
            BY <4>1, <5>1
          <6>3. x >= s[1].id
            BY <6>1, <6>2 DEF Under
          <6> QED
            BY <2>1, <5>1, <5>3, <6>1, <6>3
        <5> QED
          BY <5>2, <5>3
      <4>3. \A x : InList(r, x)' /\ x \in Chat(r)' => cursor'[r] <= x
        BY <2>1, <3>1, <3>3, <4>2, SameUnder
      <4>4. \A ms, x : HasPage(r, ms)' /\ InList(r, x)' => Meets(r, x, ms)'
        <5>1. \A ms : HasPage(r, ms)' => HasPage(r, ms) /\ PageThen(r, s, ms)
          BY <2>1 DEF PagesKept
        <5>2. \A ms, x : HasPage(r, ms)' /\ InList(r, x) => Meets(r, x, ms)
          BY <4>1, <5>1 DEF MeetingOf
        <5>3. \A ms, x : HasPage(r, ms)' /\ Within(s, x) => Meets(r, x, ms)
          BY <4>1, <5>1 DEF MeetingOf
        <5> QED
          BY <3>s, <3>1, <5>2, <5>3
      <4>5. \A ms, ns, x : PageThen(r, ms, ns)' /\ Within(ms, x) => Meets(r, x, ns)'
        BY <2>1, <3>s, <4>1 DEF MeetingOf, PagesKept
      <4>6. \A x, y : Within(s, x) /\ InList(r, y) /\ ~Within(s, y) /\ y \in Chat(r) => x < y
        BY <2>1, <4>1 DEF MeetingOf, Meets
      <4>7. \A x, y : LiveThen(r, x, y)' /\ x \in Chat(r) /\ y \in Chat(r) => x < y
        <5>1. \A x, y : LiveThen(r, x, y) /\ x \in Chat(r) /\ y \in Chat(r) => x < y
          BY <4>1 DEF MeetingOf
        <5> QED
          BY <3>1, <3>5, <4>6, <5>1
      <4>8. \A x, y : LiveThen(r, x, y)' /\ x \in Chat(r)' /\ y \in Chat(r)' => x < y
        BY <2>1, <4>7, SameUnder
      <4> QED
        BY <4>3, <4>4, <4>5, <4>8 DEF MeetingOf, Within
    <3> QED
      BY <3>4, <3>5
  <2> QED
    BY <2>3, <2>4, MeetingPartsNext
<1> QED
  BY <1>1, <1>2, <1>3, <1>4, ListsGo

(* A new message comes after all there is.                                 *)
LEMMA Newest ==
  ASSUME TInv, TInv', Cursors, NEW u, NEW v, NEW x, Inserts(u, v, x), NEW p \in Peers
  PROVE  ListedBefore(p, x) /\ PagesBefore(p, x) /\ \A j \in DOMAIN rows' : j = x \/ j \in DOMAIN rows
<1>1. x \in DOMAIN rows' /\ x \notin DOMAIN rows /\ (\A j \in DOMAIN rows : j < x) /\ DOMAIN rows' = DOMAIN rows \cup {x}
  BY DEF Inserts
<1>2. x \in Nat \ {0}
  <2>1. RowsOK'
    BY DEF TInv
  <2> QED
    BY <1>1, <2>1, RowTypes DEF Ids
<1>3. DOMAIN rows = 1..Len(rows) /\ Len(rows) \in Nat
  BY ChatTypes
<1>4. \A n \in Nat : n <= Len(rows) => n < x
  BY <1>1, <1>2, <1>3
<1>5. cursor[p] < x /\ \A b : Asked(p, b) => b < x
  BY <1>4, Spans
<1>6. \A y : InList(p, y) => y < x
  BY <1>1, ListIds
<1>7. \A ms, y : HasPage(p, ms) /\ Within(ms, y) => y < x
  BY <1>1, PageIds
<1> QED
  BY <1>1, <1>5, <1>6, <1>7 DEF ListedBefore, PagesBefore

LEMMA BeforeKept ==
  ASSUME NEW p \in Peers, NEW i, PagesKept, AsksKept, ListsSame(p), cursor'[p] = cursor[p]
  PROVE  (ListedBefore(p, i) => ListedBefore(p, i)') /\ (PagesBefore(p, i) => PagesBefore(p, i)')
  BY DEF PagesKept, AsksKept, ListsSame, ListedBefore, PagesBefore, Within

LEMMA StillIs ==
  ASSUME Grows(rows, rows'), NEW i \in DOMAIN rows, NEW u, NEW v
  PROVE  Is(i, u, v, rows') => Is(i, u, v, rows)
  BY DEF Grows, Is

(* what Me has sent *)
SentKept == \A p \in Peers : \A i : Sent(p, i)' => Sent(p, i)

LEMMA SentSame ==
  ASSUME TInv, Grows(rows, rows'), NewsStay
  PROVE  SentKept
<1> SUFFICES ASSUME NEW p \in Peers, NEW i, Sent(p, i)' PROVE Sent(p, i)
  BY DEF SentKept
<1>1. Is(i, Me, p, rows') /\ (Sending(Me, i)' \/ Bears(Me, i)' \/ HeardIn(p, Me, i)')
  BY DEF Sent, Is
<1>2. Sending(Me, i) \/ Bears(Me, i) \/ HeardIn(p, Me, i)
  BY <1>1, Apart DEF NewsStay, NewsKept, SendingKept, EventsStay, EventsSame
<1>3. i \in DOMAIN rows
  BY <1>2, Apart, NewsIds, WorkOf
<1> QED
  BY <1>1, <1>2, <1>3, StillIs DEF Sent

LEMMA SentGoes ==
  ASSUME TInv, [Next]_vars, Goes
  PROVE  SentKept \/ \E v \in Users : \E x : v # Me /\ Stores(Me, v, x)
<1>0. Grows(rows, rows')
  BY RowsStep DEF TInv
<1>1. CASE NewsStay
  BY <1>0, <1>1, SentSame
<1>2. ASSUME NEW u \in Users, NEW v \in Users, NEW x, u # Me, Stores(u, v, x) PROVE SentKept
  <2> SUFFICES ASSUME NEW p \in Peers, NEW i, Sent(p, i)' PROVE Sent(p, i)
    BY DEF SentKept
  <2>1. Is(i, Me, p, rows') /\ (Sending(Me, i)' \/ Bears(Me, i)' \/ HeardIn(p, Me, i)')
    BY DEF Sent, Is
  <2>2. work'[Me] = work[Me]
    BY <1>2, Apart DEF Stores, Inserts, Others
  <2>3. Sending(Me, i) \/ Bears(Me, i) \/ HeardIn(p, Me, i)
    BY <1>2, <2>1, <2>2 DEF Stores, NewsKept, EventsStay, EventsSame, Sending
  <2>4. i \in DOMAIN rows
    BY <2>3, Apart, NewsIds, WorkOf
  <2> QED
    BY <1>0, <2>1, <2>3, <2>4, StillIs DEF Sent
<1>3. ASSUME NEW u \in Users, NEW x, Delivers(u, x) PROVE SentKept
  <2> SUFFICES ASSUME NEW p \in Peers, NEW i, Sent(p, i)' PROVE Sent(p, i)
    BY DEF SentKept
  <2>1. rows' = rows /\ EventsStay /\ Delivered(u, x)
    BY <1>3 DEF Delivers
  <2>2. Is(i, Me, p, rows) /\ (Sending(Me, i)' \/ Bears(Me, i)' \/ HeardIn(p, Me, i)')
    BY <2>1 DEF Sent, Is
  <2>3. Sending(Me, i) \/ Bears(Me, i) \/ HeardIn(p, Me, i)
    BY <2>1, <2>2, Apart DEF Delivered, EventsStay, EventsSame
  <2> QED
    BY <2>2, <2>3 DEF Sent
<1>4. ASSUME NEW r \in Peers, NEW u \in Users, NEW f, Tells(r, f, u) PROVE SentKept
  <2> SUFFICES ASSUME NEW p \in Peers, NEW i, Sent(p, i)' PROVE Sent(p, i)
    BY DEF SentKept
  <2>1. rows' = rows /\ NewsKept /\ SendingKept /\ Told(r, f) /\ Bears(u, f.id)
    BY <1>4 DEF Tells
  <2>2. Is(i, Me, p, rows) /\ (Sending(Me, i)' \/ Bears(Me, i)' \/ HeardIn(p, Me, i)')
    BY <2>1 DEF Sent, Is
  <2>3. \A w, j : HeardIn(p, w, j)' => HeardIn(p, w, j) \/ (j = f.id /\ rows[j].from = w)
    BY <2>1 DEF Told, SameShown
  <2>4. rows[f.id].from = u
    BY <2>1, NewsIds
  <2>5. Sending(Me, i) \/ Bears(Me, i) \/ HeardIn(p, Me, i)
    BY <2>1, <2>2, <2>3, <2>4, Apart DEF NewsKept, SendingKept
  <2> QED
    BY <2>2, <2>5 DEF Sent
<1>5. \/ NewsStay
      \/ \E u, v \in Users : \E i : u # v /\ Stores(u, v, i)
      \/ \E u \in Users : \E i : Delivers(u, i)
      \/ \E p \in Peers, u \in Users : \E f : Tells(p, f, u)
  BY NewsStays DEF Goes
<1> QED
  BY <1>1, <1>2, <1>3, <1>4, <1>5

LEMMA SendsGo == Goes => SendsKept
  BY DEF Goes, Still, Stores, Delivers, Tells, Fetches, Scrolls, Receives

LEMMA OwnLaterStep ==
  ASSUME TInv, TInv', [Next]_vars, Cursors, OwnLater, Goes
  PROVE  OwnLater'
<1>s. SendsKept
  BY SendsGo
<1>4. ~SendThenFirst'
  BY <1>s DEF SendsKept, OwnLater
<1>5. \A p : Asked(p, 0)' => Asked(p, 0)
  <2>1. ListsStay => \A p : Asked(p, 0)' => Asked(p, 0)
    BY DEF ListsStay, AsksKept
  <2>2. \A r, b, q, s : Fetches(r, b, q, s) => \A p : Asked(p, 0)' => Asked(p, 0)
    BY DEF Fetches, Fetched, AsksKept
  <2>3. \A r, c : Scrolls(r, c) => \A p : Asked(p, 0)' => Asked(p, 0)
    BY DEF Scrolls, ScrolledUp
  <2>4. \A r, s, below : Receives(r, s, below) => \A p : Asked(p, 0)' => Asked(p, 0)
    BY DEF Receives, AsksKept
  <2> QED
    BY <2>1, <2>2, <2>3, <2>4, ListsGo
<1>6. ASSUME NEW v \in Users, NEW x, v # Me, Stores(Me, v, x) PROVE OwnLater'
  <2>1. /\ ListsStay /\ EventsStay /\ NewsKept /\ Inserts(Me, v, x)
        /\ SendAsked /\ \A p : Asked(p, 0) => SendThenFirst
    BY <1>6 DEF Stores
  <2>2. phase' # "users"
    BY <1>s, <2>1 DEF SendsKept, OwnLater
  <2>3. \A p \in Peers : ~Asked(p, 0)'
    BY <1>5, <2>1 DEF OwnLater
  <2>4. ASSUME NEW p \in Peers, NEW i, Sent(p, i)' PROVE ListedBefore(p, i)' /\ PagesBefore(p, i)'
    <3>1. ListedBefore(p, i) /\ PagesBefore(p, i)
      <4>1. CASE i = x
        BY <2>1, <4>1, Newest
      <4>2. CASE i # x
        <5>1. Is(i, Me, p, rows') /\ (Bears(Me, i)' \/ HeardIn(p, Me, i)')
          BY <2>1, <2>4, <4>2 DEF Sent, Is, Inserts, Sending
        <5>2. Bears(Me, i) \/ HeardIn(p, Me, i)
          BY <2>1, <5>1 DEF NewsKept, EventsStay, EventsSame
        <5>3. i \in DOMAIN rows
          BY <5>2, NewsIds
        <5>4. Sent(p, i)
          BY <5>1, <5>2, <5>3, StillIs, RowsStep DEF Sent, TInv
        <5> QED
          BY <5>4 DEF OwnLater
      <4> QED
        BY <4>1, <4>2
    <3> QED
      BY <2>1, <3>1, BeforeKept DEF ListsStay
  <2> QED
    BY <1>4, <2>2, <2>3, <2>4 DEF OwnLater
<1>7. CASE SentKept
  <2>1. phase' = "users" => NoneSent' /\ ~SendAsked'
    BY <1>s, <1>7 DEF SendsKept, SentKept, NoneSent, OwnLater
  <2>2. (\E p \in Peers : Asked(p, 0)') => NoneSent'
    BY <1>5, <1>7 DEF SentKept, NoneSent, OwnLater
  <2>3. ASSUME NEW p \in Peers, NEW i, Sent(p, i) PROVE ListedBefore(p, i)' /\ PagesBefore(p, i)'
    <3>1. ListedBefore(p, i) /\ PagesBefore(p, i)
      BY <2>3 DEF OwnLater
    <3>2. CASE ListsStay
      BY <3>1, <3>2, BeforeKept DEF ListsStay
    <3>3. ASSUME NEW r \in Peers, NEW b, NEW q, NEW s, Fetches(r, b, q, s) PROVE ListedBefore(p, i)' /\ PagesBefore(p, i)'
      <4>1. AsksKept /\ Fetched(r, b, s) /\ cursor' = cursor /\ ListsSame(p)
        BY <3>3 DEF Fetches, Fetched
      <4>2. ListedBefore(p, i)'
        BY <3>1, <4>1 DEF ListedBefore, AsksKept, ListsSame
      <4>3. PagesBefore(p, i)'
        <5>1. \A ms : HasPage(p, ms)' => HasPage(p, ms) \/ (p = r /\ ms = s)
          BY <4>1 DEF Fetched
        <5>2. ASSUME p = r, NEW x, Within(s, x) PROVE x < i
          <6>1. Asked(p, b) /\ b # 0
            BY <2>3, <4>1, <5>2 DEF Fetched, OwnLater, NoneSent
          <6>2. q = Page /\ b \in Nat
            BY <3>3, <6>1 DEF Fetches, Cursors
          <6>3. x < b /\ x \in Chat(p)
            BY <3>3, <5>2, <6>1, <6>2, PageOf DEF Fetches
          <6>4. b < i
            BY <3>1, <6>1 DEF ListedBefore
          <6>5. x \in Nat /\ i \in Nat
            BY <2>3, <6>3, ChatTypes DEF Sent, Is
          <6> QED
            BY <6>2, <6>3, <6>4, <6>5
        <5> QED
          BY <3>1, <5>1, <5>2 DEF PagesBefore, Within
      <4> QED
        BY <4>2, <4>3
    <3>4. ASSUME NEW r \in Peers, NEW c, Scrolls(r, c) PROVE ListedBefore(p, i)' /\ PagesBefore(p, i)'
      <4>1. ScrolledUp(r, c) /\ c = cursor[r] /\ cursor' = cursor /\ ListsSame(p)
        BY <3>4 DEF Scrolls
      <4> QED
        BY <3>1, <4>1 DEF ScrolledUp, PagesKept, ListsSame, ListedBefore, PagesBefore, Within
    <3>5. ASSUME NEW r \in Peers, NEW below \in BOOLEAN, NEW s, Receives(r, s, below) PROVE ListedBefore(p, i)' /\ PagesBefore(p, i)'
      <4>1. /\ AsksKept /\ PagesKept /\ Listed(r, s, below) /\ HasPage(r, s)
            /\ p # r => cursor'[p] = cursor[p]
            /\ cursor'[r] = IF s = <<>> THEN cursor[r] ELSE s[1].id
        BY <3>5 DEF Receives
      <4>2. CASE p # r
        BY <3>1, <4>1, <4>2, BeforeKept DEF Listed, SameShown, ListsSame
      <4>3. CASE p = r
        <5>1. s # <<>> => Within(s, s[1].id)
          BY <4>1, PageIds
        <5>2. \A x : Within(s, x) => x < i
          BY <3>1, <4>1, <4>3 DEF PagesBefore
        <5>3. \A x : InList(p, x)' => InList(p, x) \/ Within(s, x)
          BY <4>1, <4>3 DEF Listed
        <5>4. cursor'[p] < i
          BY <3>1, <4>1, <4>3, <5>1, <5>2 DEF ListedBefore
        <5> QED
          BY <3>1, <4>1, <5>2, <5>3, <5>4 DEF ListedBefore, PagesBefore, Within, PagesKept, AsksKept
      <4> QED
        BY <4>2, <4>3
    <3> QED
      BY <3>2, <3>3, <3>4, <3>5, ListsGo
  <2> QED
    BY <1>4, <1>7, <2>1, <2>2, <2>3 DEF OwnLater, SentKept
<1> QED
  BY <1>6, <1>7, SentGoes

(* TheirsLater, for two messages of one chat *)
TheirsOf(p, i, j) ==
  /\ OnTime(p, i) => ListedBefore(p, j) /\ (cursor[p] # 0 => PagesBefore(p, j))
  /\ \A ms, x : PageThenNews(p, ms, i) /\ Within(ms, x) => x < j

LEMMA TheirsParts ==
  TheirsLater <=> \A p \in Peers : \A i, j : Is(i, p, Me, rows) /\ Is(j, p, Me, rows) /\ i < j => TheirsOf(p, i, j)
  BY DEF TheirsLater, TheirsOf

LEMMA TheirsPartsNext ==
  TheirsLater' <=> \A p \in Peers : \A i, j : Is(i, p, Me, rows') /\ Is(j, p, Me, rows') /\ i < j => TheirsOf(p, i, j)'
  BY DEF TheirsLater, TheirsOf, Is

LEMMA TheirsKept ==
  ASSUME NEW p \in Peers, NEW i, NEW j, ListsStay, OnTime(p, i)' => OnTime(p, i),
         \A ms : PageThenNews(p, ms, i)' => PageThenNews(p, ms, i), TheirsOf(p, i, j)
  PROVE  TheirsOf(p, i, j)'
<1>1. PagesKept /\ AsksKept /\ cursor' = cursor /\ ListsSame(p)
  BY DEF ListsStay
<1>2. ListedBefore(p, j) => ListedBefore(p, j)'
  BY <1>1, BeforeKept
<1>3. PagesBefore(p, j) => PagesBefore(p, j)'
  BY <1>1, BeforeKept
<1>4. OnTime(p, i)' => ListedBefore(p, j)' /\ (cursor'[p] # 0 => PagesBefore(p, j)')
  BY <1>1, <1>2, <1>3 DEF TheirsOf
<1>5. \A ms, x : PageThenNews(p, ms, i)' /\ Within(ms, x) => x < j
  BY DEF TheirsOf
<1> QED
  BY <1>4, <1>5 DEF TheirsOf, Within

LEMMA OnTimeStays ==
  ASSUME NEW p \in Peers, NEW i, NewsKept, EventsStay
  PROVE  (OnTime(p, i)' => OnTime(p, i)) /\ \A ms : PageThenNews(p, ms, i)' => PageThenNews(p, ms, i)
  BY DEF NewsKept, EventsStay, EventsSame, OnTime

LEMMA TheirsLaterStep ==
  ASSUME TInv, TInv', [Next]_vars, Cursors, LastSent, TheirsLater, Goes
  PROVE  TheirsLater'
<1>0. Grows(rows, rows')
  BY RowsStep DEF TInv
<1> SUFFICES ASSUME NEW p \in Peers, NEW i, NEW j, Is(i, p, Me, rows'), Is(j, p, Me, rows'), i < j
             PROVE  TheirsOf(p, i, j)'
  BY TheirsPartsNext
<1>1. i \in DOMAIN rows /\ j \in DOMAIN rows => TheirsOf(p, i, j)
  BY <1>0, StillIs, TheirsParts
<1>2. rows' = rows => i \in DOMAIN rows /\ j \in DOMAIN rows /\ rows[i].from = p /\ rows[j].from = p
  BY DEF Is
<1>3. CASE Still
  <2>1. ListsStay /\ NewsKept /\ EventsStay /\ DOMAIN rows' = DOMAIN rows
    BY <1>3 DEF Still
  <2>2. TheirsOf(p, i, j)
    BY <1>1, <2>1 DEF Is
  <2> QED
    BY <2>1, <2>2, OnTimeStays, TheirsKept
<1>4. ASSUME NEW u \in Users, NEW v \in Users, NEW x, Stores(u, v, x) PROVE TheirsOf(p, i, j)'
  <2>1. ListsStay /\ NewsKept /\ EventsStay /\ Inserts(u, v, x)
    BY <1>4 DEF Stores
  <2>2. ListedBefore(p, x) /\ PagesBefore(p, x) /\ \A k \in DOMAIN rows' : k = x \/ k \in DOMAIN rows
    BY <2>1, Newest
  <2>3. i \in DOMAIN rows' /\ j \in DOMAIN rows' /\ i \in Nat /\ j \in Nat
    BY RowTypes DEF Is, TInv, Ids
  <2>4. \A k \in DOMAIN rows : k < x
    BY <2>1 DEF Inserts
  <2>5. i \in DOMAIN rows
    BY <2>2, <2>3, <2>4
  <2>6. CASE j = x
    <3>1. \A ms : PageThenNews(p, ms, i) => HasPage(p, ms)
      BY DEF PageThenNews, HasPage
    <3>2. \A ms, y : PageThenNews(p, ms, i) /\ Within(ms, y) => y < x
      BY <2>2, <3>1 DEF PagesBefore
    <3>3. TheirsOf(p, i, x)
      BY <2>2, <3>2 DEF TheirsOf
    <3> QED
      BY <2>1, <2>6, <3>3, OnTimeStays, TheirsKept
  <2>7. CASE j \in DOMAIN rows
    BY <1>1, <2>1, <2>5, <2>7, OnTimeStays, TheirsKept
  <2> QED
    BY <2>2, <2>3, <2>6, <2>7
<1>5. ASSUME NEW u \in Users, NEW x, Delivers(u, x) PROVE TheirsOf(p, i, j)'
  <2>1. ListsStay /\ EventsStay /\ rows' = rows /\ Delivered(u, x)
    BY <1>5 DEF Delivers
  <2>2. i \in Nat /\ j \in Nat
    BY <2>1, <1>2, ChatTypes
  <2>3. i # x
    <3>1. Sending(u, x) /\ x \in DOMAIN rows /\ rows[x].from = u
      BY <2>1, WorkOf DEF Delivered
    <3>2. i = x => j <= i
      BY <1>2, <2>1, <3>1 DEF LastSent
    <3> QED
      BY <2>2, <3>2
  <2>4. OnTime(p, i)' => OnTime(p, i)
    BY <2>1, <2>3 DEF Delivered, EventsStay, EventsSame, OnTime
  <2>5. \A ms : PageThenNews(p, ms, i)' => PageThenNews(p, ms, i)
    BY <2>1, <2>3 DEF Delivered
  <2> QED
    BY <1>1, <1>2, <2>1, <2>4, <2>5, TheirsKept
<1>6. ASSUME NEW r \in Peers, NEW u \in Users, NEW f, Tells(r, f, u) PROVE TheirsOf(p, i, j)'
  <2>1. NewsKept /\ rows' = rows /\ Told(r, f) /\ Bears(u, f.id)
    BY <1>6 DEF Tells
  <2>2. OnTimeShown(p, i)' => OnTimeShown(p, i) \/ i = f.id
    BY <2>1 DEF Told, SameShown
  <2>3. i = f.id => Bears(p, i)
    BY <1>2, <2>1, NewsIds
  <2>4. OnTime(p, i)' => OnTime(p, i)
    BY <2>1, <2>2, <2>3 DEF NewsKept, OnTime
  <2>5. \A ms : PageThenNews(p, ms, i)' => PageThenNews(p, ms, i)
    BY <2>1 DEF NewsKept
  <2>6. ListsStay
    BY <1>6, ListsStays
  <2> QED
    BY <1>1, <1>2, <2>1, <2>4, <2>5, <2>6, TheirsKept
<1>7. ASSUME NEW r \in Peers, NEW b, NEW q, NEW s, Fetches(r, b, q, s) PROVE TheirsOf(p, i, j)'
  <2>1. AsksKept /\ Fetched(r, b, s) /\ cursor' = cursor /\ ListsSame(p) /\ rows' = rows /\ NewsKept /\ EventsStay
    BY <1>7 DEF Fetches, Fetched
  <2>2. TheirsOf(p, i, j) /\ j \in Nat
    BY <1>1, <1>2, <2>1, ChatTypes
  <2>3. (OnTime(p, i)' => OnTime(p, i)) /\ \A ms : PageThenNews(p, ms, i)' => PageThenNews(p, ms, i)
    BY <2>1, OnTimeStays
  <2>4. ListedBefore(p, j) => ListedBefore(p, j)'
    BY <2>1 DEF ListedBefore, AsksKept, ListsSame
  <2>5. ASSUME ListedBefore(p, j), cursor[p] # 0, PagesBefore(p, j) PROVE PagesBefore(p, j)'
    <3>1. \A ms : HasPage(p, ms)' => HasPage(p, ms) \/ (p = r /\ ms = s)
      BY <2>1 DEF Fetched
    <3>2. ASSUME p = r, NEW x, Within(s, x) PROVE x < j
      <4>1. Asked(p, b) /\ b # 0
        BY <2>1, <2>5, <3>2 DEF Fetched, Cursors
      <4>2. q = Page /\ b \in Nat
        BY <1>7, <4>1 DEF Fetches, Cursors
      <4>3. x < b /\ x \in Chat(p)
        BY <1>7, <3>2, <4>1, <4>2, PageOf DEF Fetches
      <4>4. b < j
        BY <2>5, <4>1 DEF ListedBefore
      <4>5. x \in Nat
        BY <4>3, ChatTypes
      <4> QED
        BY <2>2, <4>2, <4>3, <4>4, <4>5
    <3> QED
      BY <2>5, <3>1, <3>2 DEF PagesBefore, Within
  <2>6. OnTime(p, i)' => ListedBefore(p, j)' /\ (cursor'[p] # 0 => PagesBefore(p, j)')
    BY <2>1, <2>2, <2>3, <2>4, <2>5 DEF TheirsOf
  <2>7. \A ms, x : PageThenNews(p, ms, i)' /\ Within(ms, x) => x < j
    BY <2>2, <2>3 DEF TheirsOf
  <2> QED
    BY <2>6, <2>7 DEF TheirsOf, Within
<1>8. ASSUME NEW r \in Peers, NEW c, Scrolls(r, c) PROVE TheirsOf(p, i, j)'
  <2>1. /\ PagesKept /\ ScrolledUp(r, c) /\ c = cursor[r] /\ cursor' = cursor
        /\ ListsSame(p) /\ rows' = rows /\ NewsKept /\ EventsStay
    BY <1>8 DEF Scrolls, ScrolledUp
  <2>2. TheirsOf(p, i, j)
    BY <1>1, <1>2, <2>1
  <2>3. (OnTime(p, i)' => OnTime(p, i)) /\ \A ms : PageThenNews(p, ms, i)' => PageThenNews(p, ms, i)
    BY <2>1, OnTimeStays
  <2>4. ListedBefore(p, j) => ListedBefore(p, j)'
    BY <2>1 DEF ListedBefore, ScrolledUp, ListsSame
  <2>5. PagesBefore(p, j) => PagesBefore(p, j)'
    BY <2>1 DEF PagesBefore, PagesKept, Within
  <2>6. OnTime(p, i)' => ListedBefore(p, j)' /\ (cursor'[p] # 0 => PagesBefore(p, j)')
    BY <2>1, <2>2, <2>3, <2>4, <2>5 DEF TheirsOf
  <2>7. \A ms, x : PageThenNews(p, ms, i)' /\ Within(ms, x) => x < j
    BY <2>2, <2>3 DEF TheirsOf
  <2> QED
    BY <2>6, <2>7 DEF TheirsOf, Within
<1>9. ASSUME NEW r \in Peers, NEW below \in BOOLEAN, NEW s, Receives(r, s, below) PROVE TheirsOf(p, i, j)'
  <2>1. /\ AsksKept /\ PagesKept /\ NewsKept /\ rows' = rows
        /\ Listed(r, s, below) /\ HasPage(r, s)
        /\ p # r => cursor'[p] = cursor[p]
        /\ cursor'[r] = IF s = <<>> THEN cursor[r] ELSE s[1].id
        /\ \A u, k : Bears(u, k)' => PageThenNews(r, s, k)
        /\ IF below THEN \A ns : ~HasPage(r, ns)' ELSE cursor[r] # 0
    BY <1>9 DEF Receives
  <2>2. TheirsOf(p, i, j)
    BY <1>1, <1>2, <2>1
  <2>3. \A ms : PageThenNews(p, ms, i)' => PageThenNews(p, ms, i)
    BY <2>1 DEF NewsKept
  <2>4. OnTimeShown(p, i)' => OnTimeShown(p, i)
    BY <2>1 DEF Listed, SameShown
  <2>5. OnTime(p, i)' => OnTime(p, i)
    BY <2>1, <2>4 DEF NewsKept, OnTime
  <2>6. ASSUME OnTime(p, i)' PROVE ListedBefore(p, j)' /\ (cursor'[p] # 0 => PagesBefore(p, j)')
    <3>1. ListedBefore(p, j) /\ (cursor[p] # 0 => PagesBefore(p, j))
      BY <2>2, <2>5, <2>6 DEF TheirsOf
    <3>2. CASE p # r
      <4>1. ListsSame(p)
        BY <2>1, <3>2 DEF Listed, SameShown, ListsSame
      <4> QED
        BY <2>1, <3>1, <3>2, <4>1, BeforeKept
    <3>3. CASE p = r
      <4>1. ASSUME NEW x, Within(s, x) PROVE x < j
        <5>1. CASE Bears(p, i)'
          BY <2>1, <2>2, <3>3, <4>1, <5>1 DEF TheirsOf
        <5>2. CASE OnTimeShown(p, i)'
          <6>1. ~below
            BY <2>1, <3>3, <4>1, <5>2 DEF Listed, Within
          <6> QED
            BY <2>1, <3>1, <3>3, <4>1, <6>1 DEF PagesBefore
        <5> QED
          BY <2>6, <5>1, <5>2 DEF OnTime
      <4>2. s # <<>> => Within(s, s[1].id)
        BY <2>1, PageIds
      <4>3. cursor'[p] < j
        BY <2>1, <3>1, <3>3, <4>1, <4>2 DEF ListedBefore
      <4>4. \A x : InList(p, x)' => InList(p, x) \/ Within(s, x)
        BY <2>1, <3>3 DEF Listed
      <4>5. ListedBefore(p, j)'
        BY <2>1, <3>1, <4>1, <4>3, <4>4 DEF ListedBefore, AsksKept
      <4>6. CASE below
        BY <2>1, <3>3, <4>5, <4>6 DEF PagesBefore
      <4>7. CASE ~below
        <5>1. PagesBefore(p, j)
          BY <2>1, <3>1, <3>3, <4>7
        <5>2. PagesBefore(p, j)'
          BY <2>1, <5>1 DEF PagesBefore, PagesKept, Within
        <5> QED
          BY <4>5, <5>2
      <4> QED
        BY <4>6, <4>7
    <3> QED
      BY <3>2, <3>3
  <2>7. \A ms, x : PageThenNews(p, ms, i)' /\ Within(ms, x) => x < j
    BY <2>2, <2>3 DEF TheirsOf
  <2> QED
    BY <2>6, <2>7 DEF TheirsOf, Within
<1> QED
  BY <1>3, <1>4, <1>5, <1>6, <1>7, <1>8, <1>9 DEF Goes

(* Nothing is shown and no page is read, as before the first history.      *)
Unshown ==
  \A p \in Peers :
    /\ view'[p] = <<>> /\ cursor'[p] = 0
    /\ (\A ms : ~HasPage(p, ms)')
    /\ (\A b : Asked(p, b)' => b = 0)
    /\ (\A b, c : ~AskedThen(p, b, c)')

LEMMA UnshownEvents ==
  ASSUME Unshown, NEW p \in Peers
  PROVE  /\ (\A i : ~OnTimeShown(p, i)') /\ (\A u, i : ~HeardIn(p, u, i)') /\ \A u, i, j : ~HeardThen(p, u, i, j)'
<1>1. DOMAIN view'[p] = {}
  BY DEF Unshown
<1>2. \A i : ~OnTimeShown(p, i)'
  BY <1>1 DEF OnTimeShown
<1>3. \A u, i : ~HeardIn(p, u, i)'
  BY <1>1 DEF HeardIn
<1>4. \A u, i, j : ~HeardThen(p, u, i, j)'
  BY <1>1 DEF HeardThen
<1> QED
  BY <1>2, <1>3, <1>4

LEMMA UnshownParts ==
  ASSUME TInv', Unshown, \A k \in DOMAIN requests' : requests'[k].code = "history" => requests'[k].before = 0
  PROVE  Cursors' /\ TheirsLater' /\ OneLive' /\ Apiece' /\ Overlapping' /\ Meeting'
<1>1. \A p \in Peers : DOMAIN view'[p] = {} /\ Live(p)' = {}
  BY DEF Unshown, Live
<1>2. \A p \in Peers : \A x : ~InList(p, x)'
  BY <1>1 DEF InList
<1>3. Len(rows') \in Nat /\ DOMAIN rows' = 1..Len(rows')
  <2>1. RowsOK'
    BY DEF TInv
  <2> QED
    BY <2>1 DEF RowsOK
<1>4. Cursors'
  <2>1. \A p \in Peers : cursor'[p] <= Len(rows') /\ \A b : Asked(p, b)' => b <= Len(rows') /\ (b = 0 <=> cursor'[p] = 0)
    BY <1>3 DEF Unshown
  <2>2. \A p \in Peers : \A ms : ~HasPage(p, ms)'
    BY DEF Unshown
  <2> QED
    BY <1>2, <2>1, <2>2 DEF Cursors
<1>5. TheirsLater'
  <2> SUFFICES ASSUME NEW p \in Peers, NEW i, NEW j, Is(j, p, Me, rows') PROVE TheirsOf(p, i, j)'
    BY TheirsPartsNext
  <2>1. j \in Nat /\ 0 < j
    BY <1>3 DEF Is
  <2>2. ListedBefore(p, j)'
    BY <1>2, <2>1 DEF Unshown, ListedBefore
  <2>3. \A ms : ~PageThenNews(p, ms, i)'
    BY DEF Unshown, PageThenNews, HasPage
  <2> QED
    BY <2>2, <2>3 DEF Unshown, TheirsOf
<1>6. OneLive'
  BY <1>1 DEF OneLive, TwoLive
<1>7. Apiece'
  <2> SUFFICES ASSUME NEW p \in Peers PROVE ApieceOf(p)'
    BY ApiecePartsNext
  <2>1. \A ms, ns : ~PageThen(p, ms, ns)'
    BY DEF Unshown, PageThen, HasPage
  <2>2. \A x, y : ~ListThen(p, x, y)'
    BY <1>1 DEF ListThen
  <2>3. (\A ms : ~HasPage(p, ms)') /\ cursor'[p] = 0 /\ (\A b : Asked(p, b)' => b = 0) /\ \A b, c : ~AskedThen(p, b, c)'
    BY DEF Unshown
  <2> QED
    BY <1>2, <2>1, <2>2, <2>3 DEF ApieceOf
<1>8. Overlapping'
  BY DEF Unshown, Overlapping
<1>9. Meeting'
  BY DEF Unshown, Meeting
<1> QED
  BY <1>4, <1>5, <1>6, <1>7, <1>8, <1>9

(* a login *)
LEMMA LogInParts ==
  ASSUME TInv, TInv', LogIn
  PROVE  /\ Cursors' /\ EventsInOrder' /\ OwnLater' /\ TheirsLater' /\ OneLive' /\ Apiece' /\ Overlapping' /\ Meeting'
<1>1. /\ channel' = <<>> /\ work' = work /\ work'[Me].step = "idle"
      /\ \A p \in Peers : view'[p] = <<>> /\ cursor'[p] = 0
  BY DEF TInv, SessionOK, ClientOK, LogIn, Idle
<1>2. requests' = <<[code |-> "users"]>>
  BY DEF TInv, SessionOK, LogIn, Ask
<1>3. DOMAIN channel' = {} /\ \A k \in DOMAIN requests' : requests'[k].code = "users"
  BY <1>1, <1>2
<1>4. \A p, ms : ~HasPage(p, ms)'
  BY <1>1, <1>3 DEF HasPage, InWork
<1>5. (\A p, b : ~Asked(p, b)') /\ \A p, b, c : ~AskedThen(p, b, c)'
  BY <1>3 DEF Asked, AskedThen, InRequests
<1>6. Unshown
  BY <1>1, <1>4, <1>5 DEF Unshown
<1>7. (\A u, i : ~Bears(u, i)') /\ \A u, i, j : ~BearsThen(u, i, j)'
  BY <1>3 DEF Bears, BearsThen
<1>8. EventsInOrder'
  <2>1. \A p \in Peers : (\A u, i : ~HeardIn(p, u, i)') /\ \A u, i, j : ~HeardThen(p, u, i, j)'
    BY <1>6, UnshownEvents
  <2> QED
    BY <1>7, <2>1 DEF EventsInOrder
<1>9. OwnLater'
  <2>1. \A i : ~Sending(Me, i)'
    BY <1>1 DEF Sending
  <2>2. \A p \in Peers : \A i : ~Sent(p, i)'
    BY <1>6, <1>7, <2>1, UnshownEvents DEF Sent
  <2>3. ~SendAsked' /\ ~SendThenFirst'
    BY <1>3 DEF SendAsked, SendThenFirst
  <2> QED
    BY <1>5, <2>2, <2>3 DEF OwnLater, NoneSent
<1>10. \A k \in DOMAIN requests' : requests'[k].code = "history" => requests'[k].before = 0
  BY <1>3
<1> QED
  BY <1>6, <1>8, <1>9, <1>10, UnshownParts

(* the first request for the histories *)
LEMMA UsersParts ==
  ASSUME TInv, TInv', NInv, NInv', phase # "off", EventsInOrder, OwnLater, NEW first \in [Peers -> FirstPages], RecvUsers(first)
  PROVE  /\ Cursors' /\ EventsInOrder' /\ OwnLater' /\ TheirsLater' /\ OneLive' /\ Apiece' /\ Overlapping' /\ Meeting'
<1>1. AskedAll /\ SendingKept /\ NewsKept
  BY UsersEffect
<1>2. /\ phase = "users" /\ phase' = "histories" /\ rows' = rows
      /\ \A p \in Peers : view'[p] = <<>> /\ cursor'[p] = 0
  BY DEF RecvUsers, server, TInv, ClientOK
<1>3. \A p \in Peers : \A b, c : ~AskedThen(p, b, c)'
  <2> SUFFICES ASSUME NEW p \in Peers, NEW b, NEW c, AskedThen(p, b, c)' PROVE FALSE
    OBVIOUS
  <2>1. Ahead(p, p)'
    BY DEF AskedThen, Ahead
  <2>2. FirstOnes'
    BY <1>2 DEF NInv
  <2> QED
    BY <1>2, <2>1, <2>2 DEF FirstOnes
<1>4. Unshown
  BY <1>1, <1>2, <1>3 DEF Unshown, AskedAll
<1>5. EventsInOrder'
  <2>1. \A p \in Peers : (\A u, i : ~HeardIn(p, u, i)') /\ \A u, i, j : ~HeardThen(p, u, i, j)'
    BY <1>4, UnshownEvents
  <2> SUFFICES ASSUME NEW u \in Users, NEW i, NEW j
               PROVE  (Sending(u, i)' /\ Bears(u, j)' => j < i) /\ (BearsThen(u, i, j)' => i < j)
    BY <2>1 DEF EventsInOrder
  <2>2. (Sending(u, i) /\ Bears(u, j) => j < i) /\ (BearsThen(u, i, j) => i < j)
    BY DEF EventsInOrder
  <2> QED
    BY <1>1, <2>2 DEF SendingKept, NewsKept
<1>6. OwnLater'
  <2>1. NoneSent /\ ~SendAsked
    BY <1>2 DEF OwnLater
  <2>2. \A p \in Peers : \A i : ~Sent(p, i)'
    BY <1>1, <1>2, <1>4, <2>1, UnshownEvents, Apart DEF Sent, NoneSent, Is, SendingKept, NewsKept
  <2>3. ~SendThenFirst'
    BY <1>1, <2>1 DEF AskedAll
  <2> QED
    BY <1>2, <2>2, <2>3 DEF OwnLater, NoneSent
<1> QED
  BY <1>1, <1>4, <1>5, <1>6, UnshownParts DEF AskedAll

LEMMA WInvStep ==
  ASSUME TInv, TInv', NInv, NInv', WInv, [Next]_vars
  PROVE  WInv'
<1>1. LastSent'
  BY LastSentStep DEF WInv
<1>2. CASE phase' = "off"
  BY <1>1, <1>2 DEF WInv
<1>3. CASE phase = "off" /\ phase' # "off"
  BY <1>1, <1>3, OnlyLogIn, LogInParts DEF WInv
<1>4. CASE phase # "off" /\ phase' # "off"
  <2>1. /\ LastSent /\ Cursors /\ EventsInOrder /\ OwnLater /\ TheirsLater
        /\ OneLive /\ Apiece /\ Overlapping /\ Meeting
    BY <1>4 DEF WInv
  <2>2. CASE Goes
    <3>1. Cursors' /\ OneLive' /\ EventsInOrder'
      BY <2>1, <2>2, CursorsStep, OneLiveStep, OrderOfEvents
    <3>2. OwnLater' /\ TheirsLater'
      BY <2>1, <2>2, OwnLaterStep, TheirsLaterStep
    <3>3. Apiece'
      BY <2>1, <2>2, ApieceStep
    <3>4. Overlapping' /\ Meeting'
      BY <2>1, <2>2, OverlappingStep, MeetingStep
    <3> QED
      BY <1>1, <3>1, <3>2, <3>3, <3>4 DEF WInv
  <2>3. ASSUME NEW first \in [Peers -> FirstPages], RecvUsers(first) PROVE WInv'
    BY <1>1, <1>4, <2>1, <2>3, UsersParts DEF WInv
  <2> QED
    BY <1>4, <2>1, <2>2, <2>3, GoesOn
<1> QED
  BY <1>2, <1>3, <1>4

(* Events of one author come in the order of the table, pages end where    *)
(* the ones asked for before them begin or meet them, and what is sent     *)
(* later is not listed.                                                    *)
THEOREM WInvAlways == Spec => []WInv
<1>1. Init => WInv
  <2> SUFFICES ASSUME Init PROVE LastSent /\ phase = "off"
    BY DEF WInv
  <2>1. rows = <<>> /\ phase = "off"
    BY DEF Init
  <2> QED
    BY <2>1 DEF LastSent
<1> QED
  BY <1>1, WInvStep, TInvAlways, NInvAlways, PTL DEF Spec

(* the entries of the view, while the client runs *)
LEMMA EntryOf ==
  ASSUME TInv, NEW p \in Peers, NEW k \in DOMAIN view[p], NEW x, x = view[p][k].id
  PROVE  /\ k \in Nat /\ x \in Nat /\ x \in DOMAIN rows /\ view[p][k].by \in {"list", "event"}
         /\ Is(x, Me, p, rows) \/ Is(x, p, Me, rows)
<1>1. view[p] \in Seq(ShownEntries)
  BY DEF TInv, ViewOK
<1>2. k \in Nat /\ view[p][k] \in ShownEntries
  BY <1>1, ElementOfSeq, LenProperties
<1>3. view[p][k].by \in {"list", "event"}
  BY <1>2 DEF ShownEntries
<1>4. Is(x, Me, p, rows) \/ Is(x, p, Me, rows)
  BY ShownAmong
<1>5. x \in DOMAIN rows /\ x \in Nat
  BY <1>4, ChatTypes DEF Is
<1> QED
  BY <1>2, <1>3, <1>4, <1>5

LEMMA OncePair ==
  ASSUME TInv, WInv, phase # "off", NEW p \in Peers \ overlap, NEW j \in DOMAIN view[p], NEW k \in DOMAIN view[p], j < k,
         NEW x, x = view[p][j].id, x = view[p][k].id
  PROVE  view[p][j].by # view[p][k].by /\ rows[x].from = p
<1>1. /\ j \in Nat /\ k \in Nat /\ x \in Nat
      /\ view[p][j].by \in {"list", "event"} /\ view[p][k].by \in {"list", "event"}
      /\ Is(x, Me, p, rows) \/ Is(x, p, Me, rows)
  BY EntryOf
<1>2. EventsInOrder /\ OwnLater /\ Apiece
  BY DEF WInv
<1>3. ~(view[p][j].by = "list" /\ view[p][k].by = "list")
  <2>1. \A y, z : ListThen(p, y, z) => y < z
    BY <1>2 DEF Apiece
  <2>2. ~ListThen(p, x, x)
    BY <1>1, <2>1
  <2> QED
    BY <2>2 DEF ListThen
<1>4. ~(view[p][j].by = "event" /\ view[p][k].by = "event")
  <2>1. PICK u \in Users : u = rows[x].from
    BY <1>1, Apart DEF Is
  <2>2. HeardThen(p, u, x, x) => x < x
    BY <1>2 DEF EventsInOrder
  <2>3. ASSUME view[p][j].by = "event", view[p][k].by = "event" PROVE HeardThen(p, u, x, x)
    <3>1. Heard(p, j, u)
      BY <2>1, <2>3 DEF Heard
    <3>2. Heard(p, k, u)
      BY <2>1, <2>3 DEF Heard
    <3> QED
      BY <3>1, <3>2 DEF HeardThen
  <2> QED
    BY <1>1, <2>2, <2>3
<1>5. rows[x].from = p
  <2> SUFFICES ASSUME Is(x, Me, p, rows) PROVE FALSE
    BY <1>1 DEF Is
  <2>1. HeardIn(p, Me, x) /\ InList(p, x)
    BY <1>1, <1>3, <1>4 DEF HeardIn, Heard, InList, Is
  <2>2. x < x
    BY <1>2, <2>1 DEF OwnLater, Sent, ListedBefore
  <2> QED
    BY <1>1, <2>2
<1> QED
  BY <1>1, <1>3, <1>4, <1>5

(* No message of a chat is shown twice, but for one of the peer that came  *)
(* both by an event and in a history (Above, Below and recv_new_message do *)
(* not look for it), as long as the chat has not asked for two pages with  *)
(* the same cursor.                                                        *)
THEOREM OnceShown == Spec => []ShownOnce
<1>1. TInv /\ WInv => ShownOnce
  <2> SUFFICES ASSUME TInv, WInv, NEW p \in Peers \ overlap, NEW j \in DOMAIN view[p], NEW k \in DOMAIN view[p],
                      j # k, view[p][j].id = view[p][k].id
               PROVE  view[p][j].by # view[p][k].by /\ rows[view[p][j].id].from = p
    BY DEF ShownOnce
  <2>1. phase # "off"
    BY DEF TInv, ClientOK
  <2>2. j \in Nat /\ k \in Nat
    BY EntryOf
  <2>3. j < k \/ k < j
    BY <2>2
  <2> QED
    BY <2>1, <2>3, OncePair
<1> QED
  BY <1>1, TInvAlways, WInvAlways, PTL

LEMMA OrderOfPair ==
  ASSUME TInv, WInv, phase # "off", NEW p \in Peers, NEW j \in Live(p), NEW k \in Live(p), j < k,
         NEW x, x = view[p][j].id, NEW y, y = view[p][k].id, rows[x].from = rows[y].from,
         ~CameEarly(p, j), ~CameEarly(p, k), p \in overlap => {x, y} \subseteq Stored
  PROVE  x < y
<1>0. j \in DOMAIN view[p] /\ k \in DOMAIN view[p]
  BY DEF Live
<1>1. /\ j \in Nat /\ k \in Nat /\ x \in Nat /\ y \in Nat
      /\ view[p][j].by \in {"list", "event"} /\ view[p][k].by \in {"list", "event"}
      /\ Is(x, Me, p, rows) \/ Is(x, p, Me, rows)
      /\ Is(y, Me, p, rows) \/ Is(y, p, Me, rows)
  BY <1>0, EntryOf
<1>2. Cursors /\ EventsInOrder /\ OwnLater /\ TheirsLater /\ OneLive /\ Apiece /\ Meeting
  BY DEF WInv
<1>3. CASE view[p][j].by = "list" /\ view[p][k].by = "list"
  <2>1. ListThen(p, x, y) /\ LiveThen(p, x, y) /\ InList(p, x)
    BY <1>0, <1>3 DEF ListThen, LiveThen, InList
  <2>2. CASE p \notin overlap
    BY <1>2, <2>1, <2>2 DEF Apiece
  <2>3. CASE p \in overlap
    <3>1. x \in Chat(p) /\ y \in Chat(p)
      BY <1>1, <2>3 DEF Chat, Conversation, Is
    <3>2. cursor[p] # 0
      BY <1>2, <2>1 DEF Cursors
    <3> QED
      BY <1>2, <2>1, <3>1, <3>2 DEF Meeting
  <2> QED
    BY <2>2, <2>3
<1>4. CASE view[p][j].by = "list" /\ view[p][k].by = "event"
  <2>1. InList(p, x)
    BY <1>0, <1>4 DEF InList
  <2>2. CASE Is(y, Me, p, rows)
    <3>1. HeardIn(p, Me, y)
      BY <1>0, <1>4, <2>2 DEF HeardIn, Heard, Is
    <3> QED
      BY <1>2, <2>1, <2>2, <3>1 DEF OwnLater, Sent, ListedBefore
  <2>3. CASE Is(y, p, Me, rows)
    <3>1. Is(x, p, Me, rows)
      BY <1>1, <2>3, Apart DEF Is
    <3>2. OnTime(p, y)
      BY <1>0, <1>4 DEF OnTime, OnTimeShown
    <3>3. x # y
      BY <1>1, <1>2 DEF OneLive, TwoLive
    <3>4. ~(y < x)
      <4>1. ASSUME y < x PROVE x < x
        BY <1>2, <2>1, <2>3, <3>1, <3>2, <4>1 DEF TheirsLater, ListedBefore
      <4> QED
        BY <1>1, <4>1
    <3> QED
      BY <1>1, <3>3, <3>4
  <2> QED
    BY <1>1, <2>2, <2>3
<1>5. CASE view[p][j].by = "event" /\ view[p][k].by = "list"
  BY <1>0, <1>5 DEF CameEarly
<1>6. CASE view[p][j].by = "event" /\ view[p][k].by = "event"
  <2>1. PICK u \in Users : u = rows[x].from
    BY <1>1, Apart DEF Is
  <2>2. HeardThen(p, u, x, y)
    BY <1>0, <1>6, <2>1 DEF HeardThen, Heard
  <2> QED
    BY <1>2, <2>2 DEF EventsInOrder
<1> QED
  BY <1>1, <1>3, <1>4, <1>5, <1>6

(* The messages of one author are shown in the order of the table: pages   *)
(* are put above and events below what is shown, and one thread reads and  *)
(* writes for a connection.  Excepted are events that came before the      *)
(* first history, and deleted messages where pages overlap.                *)
THEOREM ShownInOrder == Spec => []InOrder
<1>1. TInv /\ WInv => InOrder
  <2> SUFFICES ASSUME TInv, WInv, NEW p \in Peers, NEW j \in Live(p), NEW k \in Live(p),
                      NEW x, x = view[p][j].id, NEW y, y = view[p][k].id,
                      j < k, rows[x].from = rows[y].from, ~CameEarly(p, j), ~CameEarly(p, k),
                      p \in overlap => {x, y} \subseteq Stored
               PROVE  x < y
    BY DEF InOrder
  <2>1. phase # "off"
    BY DEF TInv, ClientOK, Live
  <2> QED
    BY <2>1, OrderOfPair
<1> QED
  BY <1>1, TInvAlways, WInvAlways, PTL
=============================================================================
