------------------------------ MODULE Messenger ------------------------------
(***************************************************************************)
(* Private messages: the handlers of the server that store, change, delete *)
(* and list them, and the client that shows them.                          *)
(*                                                                         *)
(* One user, Me, has his client in the model: it asks for the users, for   *)
(* the last messages with each of them and for his groups, one after the   *)
(* other, and meanwhile and afterwards events come in that other threads   *)
(* of the server write to the same connection.  The clients of the others  *)
(* (the Peers) are only what they ask the server for, at any time.         *)
(***************************************************************************)
EXTENDS Naturals, Sequences, FiniteSets, SequencesExt, FiniteSetsExt

CONSTANTS
  Me,
  Peers,
  MaxMessages,  (* how many messages the database has room for             *)
  MaxChanges,   (* how often a message is changed                          *)
  MaxRequests,  (* how many requests of the user may wait to be read       *)
  MaxUnread,    (* no peer asks for anything while this much is unread     *)
  Page,         (* 15: how many messages scrolling up asks for             *)
  FirstPages,   (* unread_messages + 15, for each of the peers             *)
  MayCrash      (* the server may crash and be started again               *)

Users == Peers \cup {Me}

ASSUME MessengerAssumption ==
  /\ Me \notin Peers /\ Peers # {} /\ IsFiniteSet(Peers)
  /\ MaxMessages \in Nat /\ MaxChanges \in Nat /\ MaxRequests \in Nat /\ MaxUnread \in Nat
  /\ Page \in Nat \ {0} /\ FirstPages \subseteq Nat \ {0} /\ FirstPages # {}
  /\ MayCrash \in BOOLEAN

VARIABLES
  rows,       (* the private messages of the table, by id (AUTOINCREMENT)  *)
  contacts,   (* contacts_id of each user                                  *)
  work,       (* what the server's thread of each user is about to do      *)
  online,     (* is_online of Me                                           *)
  requests,   (* what Me's client has written and the server not yet read  *)
  channel,    (* what the server has written and Me's client not yet read  *)
  phase,      (* how far recv_msg_handler is                               *)
  counter,    (* histories that have been counted (counter)                *)
  view,       (* the messages that are shown of the chat with each peer    *)
  cursor,     (* last_message_id of each of these chats, 0 for none        *)
  overlap     (* chats with two unanswered requests for a page             *)

server == <<rows, contacts, work, online>>
client == <<phase, counter, view, cursor, overlap>>
vars   == <<rows, contacts, work, online, requests, channel, client>>

-----------------------------------------------------------------------------
(* The text of a message is the number of its changes. *)
Gone == MaxChanges + 1
Texts == 0..MaxChanges
Ids == 1..MaxMessages

Row(u, v) == [from |-> u, to |-> v, text |-> 0]

Conversation(u, v) == {i \in DOMAIN rows : {rows[i].from, rows[i].to} = {u, v}}
Stored == {i \in DOMAIN rows : rows[i].text # Gone}

(* the messages of S, numbered by how many are before them *)
InOrderOfIds(S) ==
  LET At(k) == CHOOSE i \in S : Cardinality({j \in S : j < i}) = k - 1
  IN [k \in 1..Cardinality(S) |-> [id |-> At(k), text |-> rows[At(k)].text]]

(* mutant: LIMIT without ORDER BY id DESC *)
MutLastMessages(u, v, before, qty) ==
  LET fit == {i \in Conversation(u, v) \cap Stored : before = 0 \/ i < before}
  IN InOrderOfIds({i \in fit : Cardinality({j \in fit : j < i}) < qty})

(* mutant: <= instead of < *)
MutLastBefore(u, v, before, qty) ==
  LET fit == {i \in Conversation(u, v) \cap Stored : before = 0 \/ i <= before}
  IN InOrderOfIds({i \in fit : Cardinality({j \in fit : j > i}) < qty})

(* get_last_messages_between: the last qty messages, or the last ones      *)
(* before that id, in the order of the ids                                 *)
LastMessages(u, v, before, qty) ==
  LET fit == {i \in Conversation(u, v) \cap Stored : before = 0 \/ i < before}
  IN InOrderOfIds({i \in fit : Cardinality({j \in fit : j > i}) < qty})

NoWork == [step |-> "idle"]
Idle(u) == work[u].step = "idle"
Then(u, w) == work' = [work EXCEPT ![u] = w]

(* Writing to the connection of Me; what is written to a client that has   *)
(* ended is lost, and nothing is written to a user who is offline.         *)
Write(f) ==
  channel' = IF online /\ phase # "off" THEN Append(channel, f) ELSE channel

Init ==
  /\ rows = <<>>
  /\ contacts = [u \in Users |-> {}]
  /\ work = [u \in Users |-> NoWork]
  /\ online = FALSE
  /\ requests = <<>> /\ channel = <<>>
  /\ phase = "off" /\ counter = 0 /\ overlap = {}
  /\ view = [p \in Peers |-> <<>>] /\ cursor = [p \in Peers |-> 0]

(* The client's process ends, and what it knew is gone. *)
Ended ==
  /\ phase' = "off" /\ counter' = 0 /\ overlap' = {}
  /\ view' = [p \in Peers |-> <<>>] /\ cursor' = [p \in Peers |-> 0]

-----------------------------------------------------------------------------
(* The handlers.  Read(u, r): the thread of u takes up the request r; the  *)
(* client of a peer asks whatever it wants.                                *)

Read(u, r) ==
  /\ Idle(u)
  /\ IF u = Me
     THEN requests # <<>> /\ Head(requests) = r /\ requests' = Tail(requests)
     ELSE Len(channel) < MaxUnread /\ UNCHANGED requests

(* mutant: the -1 of a failed INSERT is taken for an id *)
MutInsert(u, v) ==
  /\ Read(u, [code |-> "send", peer |-> v])
  /\ rows' = IF Len(rows) < MaxMessages THEN Append(rows, Row(u, v)) ELSE rows
  /\ Then(u, [step |-> "contacts", id |-> Len(rows) + 1])
  /\ UNCHANGED <<contacts, online, channel, client>>

(* handle_send_to_user: the INSERT.  It fails when the database is full.   *)
Insert(u, v) ==
  /\ Read(u, [code |-> "send", peer |-> v])
  /\ IF Len(rows) < MaxMessages
     THEN /\ rows' = Append(rows, Row(u, v))
          /\ Then(u, [step |-> "contacts", id |-> Len(rows) + 1])
     ELSE UNCHANGED <<rows, work>>
  /\ UNCHANGED <<contacts, online, channel, client>>

(* mutant: only the receiver's list *)
MutAddContacts(u) ==
  /\ work[u].step = "contacts"
  /\ LET v == rows[work[u].id].to
     IN contacts' = [contacts EXCEPT ![v] = @ \cup {u}]
  /\ Then(u, [work[u] EXCEPT !.step = "deliver"])
  /\ UNCHANGED <<rows, online, requests, channel, client>>

(* both lists of contacts, under the mutexes of both users *)
AddContacts(u) ==
  /\ work[u].step = "contacts"
  /\ LET v == rows[work[u].id].to
     IN contacts' = [contacts EXCEPT ![u] = @ \cup {v}, ![v] = @ \cup {u}]
  /\ Then(u, [work[u] EXCEPT !.step = "deliver"])
  /\ UNCHANGED <<rows, online, requests, channel, client>>

(* event 51 to the receiver and the answer to the sender; the message is   *)
(* sent as it was given, not read again                                    *)
Deliver(u) ==
  /\ work[u].step = "deliver"
  /\ LET i == work[u].id IN
     IF u = Me THEN Write([code |-> "sent", peer |-> rows[i].to, id |-> i, text |-> 0])
     ELSE IF rows[i].to = Me THEN Write([code |-> "message", peer |-> u, id |-> i, text |-> 0])
     ELSE UNCHANGED channel
  /\ Then(u, NoWork)
  /\ UNCHANGED <<rows, contacts, online, requests, client>>

(* Only the client of Me is there to be told. *)
Notifying(i, text) ==
  IF rows[i].to = Me THEN [step |-> "notify", id |-> i, text |-> text] ELSE NoWork

(* handle_update_message: the row is read and changed in one section       *)
Update(u, i) ==
  /\ Read(u, [code |-> "update", id |-> i])
  /\ IF i \in Stored /\ rows[i].from = u /\ rows[i].text < MaxChanges
     THEN /\ rows' = [rows EXCEPT ![i].text = @ + 1]
          /\ Then(u, Notifying(i, rows[i].text + 1))
     ELSE UNCHANGED <<rows, work>>
  /\ UNCHANGED <<contacts, online, channel, client>>

(* handle_delete_message *)
Delete(u, i) ==
  /\ Read(u, [code |-> "delete", id |-> i])
  /\ IF i \in Stored /\ rows[i].from = u
     THEN /\ rows' = [rows EXCEPT ![i].text = Gone]
          /\ Then(u, Notifying(i, Gone))
     ELSE UNCHANGED <<rows, work>>
  /\ UNCHANGED <<contacts, online, channel, client>>

(* mutant: nobody is told *)
MutNotify(u) ==
  /\ work[u].step = "notify"
  /\ Then(u, NoWork)
  /\ UNCHANGED <<rows, contacts, online, requests, channel, client>>

(* send_notification_to_client: events 57 and 58 *)
Notify(u) ==
  /\ work[u].step = "notify"
  /\ Write([code |-> IF work[u].text = Gone THEN "deleted" ELSE "changed",
            peer |-> u, id |-> work[u].id, text |-> work[u].text])
  /\ Then(u, NoWork)
  /\ UNCHANGED <<rows, contacts, online, requests, client>>

(* handle_get_all_clients_userslist; an error if the query fails           *)
GetUsers ==
  /\ Read(Me, [code |-> "users"])
  /\ \E c \in {"users", "error"} : Write([code |-> c])
  /\ UNCHANGED <<server, client>>

(* handle_get_my_groups *)
GetGroups ==
  /\ Read(Me, [code |-> "groups"])
  /\ Write([code |-> "groups"])
  /\ UNCHANGED <<server, client>>

(* handle_get_last_msgs_between: the rows are read under db_mutex ... *)
GetLastMsgs(p, before, qty) ==
  /\ Read(Me, [code |-> "history", peer |-> p, before |-> before, qty |-> qty])
  /\ Then(Me, [step |-> "history", peer |-> p, messages |-> LastMessages(Me, p, before, qty)])
  /\ UNCHANGED <<rows, contacts, online, channel, client>>

(* ... and written to the connection later. *)
SendHistory ==
  /\ work[Me].step = "history"
  /\ Write([code |-> "history", peer |-> work[Me].peer, messages |-> work[Me].messages])
  /\ Then(Me, NoWork)
  /\ UNCHANGED <<rows, contacts, online, requests, client>>

(* The thread of Me reads the end of the connection, after all there was. *)
LogOut ==
  /\ online /\ phase = "off" /\ Idle(Me) /\ requests = <<>>
  /\ online' = FALSE
  /\ UNCHANGED <<rows, contacts, work, requests, channel, client>>

(* The lists of contacts are made from the messages at the start. *)
Restart ==
  /\ MayCrash
  /\ contacts' = [u \in Users |->
       {v \in Users \ {u} : Conversation(u, v) \cap Stored # {}}]
  /\ work' = [u \in Users |-> NoWork]
  /\ online' = FALSE
  /\ requests' = <<>> /\ channel' = <<>>
  /\ Ended
  /\ UNCHANGED rows

-----------------------------------------------------------------------------
(* The client: the user *)

Ask(s) == requests' = requests \o s

(* handle_login, and the start of recv_msg_handler *)
LogIn ==
  /\ ~online /\ phase = "off"
  /\ online' = TRUE
  /\ phase' = "users"
  /\ Ask(<<[code |-> "users"]>>)
  /\ UNCHANGED <<rows, contacts, work, channel, counter, view, cursor, overlap>>

(* The window is closed, or the program is stopped. *)
Quit ==
  /\ Ended /\ channel' = <<>>
  /\ UNCHANGED <<server, requests>>

MayAsk == phase \notin {"off", "users"} /\ Len(requests) < MaxRequests

(* on_send_clicked *)
UserSends(p) ==
  /\ MayAsk
  /\ Ask(<<[code |-> "send", peer |-> p]>>)
  /\ UNCHANGED <<server, channel, client>>

(* The user clicks on an own message that is shown.                        *)
Clickable(p, k) == rows[view[p][k].id].from = Me /\ view[p][k].text # Gone

(* The widget of an own message refers to data that was freed when the     *)
(* message was shown once more: what it says then may still be there, or   *)
(* be the data of any other message.                                       *)
Dangling == \E p \in Peers : \E k \in DOMAIN view[p] : rows[view[p][k].id].from = Me /\ ~view[p][k].live

(* change_message: the label is changed before the request is written      *)
UserChanges(p, k) ==
  /\ MayAsk /\ view[p][k].text < MaxChanges
  /\ Clickable(p, k) \/ (Dangling /\ view[p][k].live)
  /\ view' = [view EXCEPT ![p][k].text = @ + 1]
  /\ Ask(<<[code |-> "update", id |-> view[p][k].id]>>)
  /\ UNCHANGED <<server, channel, phase, counter, cursor, overlap>>

(* on_delete_button_clicked: the id is read from the data                  *)
UserDeletes(p, k) ==
  /\ MayAsk /\ Clickable(p, k)
  /\ view' = [view EXCEPT ![p][k].text = Gone]
  /\ \/ Ask(<<[code |-> "delete", id |-> view[p][k].id]>>)
     \/ /\ ~view[p][k].live
        /\ \E q \in Peers : \E l \in DOMAIN view[q] :
             view[q][l].live /\ Ask(<<[code |-> "delete", id |-> view[q][l].id]>>)
  /\ UNCHANGED <<server, channel, phase, counter, cursor, overlap>>

(* the histories of the chat with p that are asked for and not received *)
HistoriesIn(s, p) == {k \in DOMAIN s : s[k].code = "history" /\ s[k].peer = p}

Outstanding(p) ==
  Cardinality(HistoriesIn(requests, p)) + Cardinality(HistoriesIn(channel, p))
    + IF work[Me].step = "history" /\ work[Me].peer = p THEN 1 ELSE 0

(* on_scroll_changed, at the upper end *)
UserScrollsUp(p) ==
  /\ MayAsk /\ cursor[p] # 0 /\ Outstanding(p) <= MaxRequests
  /\ Ask(<<[code |-> "history", peer |-> p, before |-> cursor[p], qty |-> Page]>>)
  /\ overlap' = IF Outstanding(p) > 0 THEN overlap \cup {p} ELSE overlap
  /\ UNCHANGED <<server, channel, phase, counter, view, cursor>>

-----------------------------------------------------------------------------
(* The client: recv_msg_handler *)

(* create_message_data replaces, and frees, the data that the table had    *)
(* for this id; the widget of the message stays, and keeps the pointer.    *)
Superseded(s, ids) == [k \in DOMAIN s |-> IF s[k].id \in ids THEN [s[k] EXCEPT !.live = FALSE] ELSE s[k]]

Entries(ms, by) ==
  [k \in DOMAIN ms |-> [id |-> ms[k].id, text |-> ms[k].text, by |-> by, live |-> TRUE]]
IdsOf(ms) == {ms[k].id : k \in DOMAIN ms}

(* add_message *)
Below(p, ms, by) == view' = [view EXCEPT ![p] = Superseded(@, IdsOf(ms)) \o Entries(ms, by)]

(* mutant: a page is put below *)
MutAbove(p, ms) == Below(p, ms, "list")

(* add_message_to_top, from the last one to the first *)
Above(p, ms) == view' = [view EXCEPT ![p] = Entries(ms, "list") \o Superseded(@, IdsOf(ms))]

Reads(c) == channel # <<>> /\ Head(channel).code = c /\ phase # "off"
Taken == channel' = Tail(channel)

(* No case looks at commands that come too early: they are dropped.        *)

(* command 17: the histories are asked for, all of them *)
RecvUsers(first) ==
  /\ Reads("users") /\ phase = "users" /\ Taken
  /\ phase' = "histories"
  /\ Ask(SetToSeq({[code |-> "history", peer |-> p, before |-> 0, qty |-> first[p]] : p \in Peers}))
  /\ UNCHANGED <<server, counter, view, cursor, overlap>>

(* mutant: an empty history is not counted *)
MutRecvHistory ==
  /\ Reads("history") /\ Taken
  /\ LET f == Head(channel) IN
     /\ CASE phase = "histories" -> Below(f.peer, f.messages, "list")
          [] phase = "ready" -> Above(f.peer, f.messages)
          [] OTHER -> UNCHANGED view
     /\ cursor' = IF phase \in {"histories", "ready"} /\ f.messages # <<>>
                  THEN [cursor EXCEPT ![f.peer] = f.messages[1].id] ELSE cursor
     /\ IF phase = "histories" /\ f.messages # <<>>
        THEN /\ counter' = counter + 1
             /\ IF counter' = Cardinality(Peers)
                THEN phase' = "groups" /\ Ask(<<[code |-> "groups"]>>)
                ELSE UNCHANGED <<phase, requests>>
        ELSE UNCHANGED <<counter, phase, requests>>
  /\ UNCHANGED <<server, overlap>>

(* command 24: a history at the start, or a page that was scrolled up to   *)
RecvHistory ==
  /\ Reads("history") /\ Taken
  /\ LET f == Head(channel) IN
     /\ CASE phase = "histories" -> Below(f.peer, f.messages, "list")
          [] phase = "ready" -> Above(f.peer, f.messages)
          [] OTHER -> UNCHANGED view
     /\ cursor' = IF phase \in {"histories", "ready"} /\ f.messages # <<>>
                  THEN [cursor EXCEPT ![f.peer] = f.messages[1].id] ELSE cursor
  /\ IF phase = "histories"
     THEN /\ counter' = counter + 1
          /\ IF counter' = Cardinality(Peers)
             THEN phase' = "groups" /\ Ask(<<[code |-> "groups"]>>)
             ELSE UNCHANGED <<phase, requests>>
     ELSE UNCHANGED <<counter, phase, requests>>
  /\ UNCHANGED <<server, overlap>>

(* command 30; commands other than these are looked at from here on *)
RecvGroups ==
  /\ Reads("groups") /\ Taken
  /\ phase' = "ready"
  /\ UNCHANGED <<server, requests, counter, view, cursor, overlap>>

(* command 1, the answer to UserSends *)
RecvSent ==
  /\ Reads("sent") /\ Taken
  /\ IF phase = "ready" THEN Below(Head(channel).peer, <<Head(channel)>>, "event") ELSE UNCHANGED view
  /\ UNCHANGED <<server, requests, phase, counter, cursor, overlap>>

(* Events are looked at in every phase.                                    *)

Known(f) == \E k \in DOMAIN view[f.peer] : view[f.peer][k].id = f.id

(* The chat is looked up, and the message in it, or number_of_users in the *)
(* answer of a failed query: NULL is used as if it were there, and the     *)
(* client goes down.                                                       *)
Unexpected(f) ==
  \/ f.code = "error"
  \/ f.code \in {"message", "changed", "deleted"} /\ phase = "users"
  \/ f.code \in {"changed", "deleted"} /\ ~Known(f)

RecvUnexpected ==
  /\ phase # "off" /\ channel # <<>> /\ Unexpected(Head(channel))
  /\ Quit

(* mutant: during the start the event is dropped, as the answer 1 is *)
MutRecvMessage ==
  /\ Reads("message") /\ ~Unexpected(Head(channel)) /\ Taken
  /\ IF phase = "ready" THEN Below(Head(channel).peer, <<Head(channel)>>, "event") ELSE UNCHANGED view
  /\ UNCHANGED <<server, requests, phase, counter, cursor, overlap>>

(* event 51 *)
RecvMessage ==
  /\ Reads("message") /\ ~Unexpected(Head(channel)) /\ Taken
  /\ Below(Head(channel).peer, <<Head(channel)>>, "event")
  /\ UNCHANGED <<server, requests, phase, counter, cursor, overlap>>

(* events 57 and 58: change_message_from_others, delete_message_from_others *)
RecvChange ==
  /\ Reads("changed") \/ Reads("deleted")
  /\ ~Unexpected(Head(channel)) /\ Taken
  /\ LET f == Head(channel) IN
     view' = [view EXCEPT ![f.peer] = [k \in DOMAIN @ |->
       IF @[k].id = f.id /\ @[k].live THEN [@[k] EXCEPT !.text = f.text] ELSE @[k]]]
  /\ UNCHANGED <<server, requests, phase, counter, cursor, overlap>>

-----------------------------------------------------------------------------
SendToUser(u) == (\E v \in Users \ {u} : Insert(u, v)) \/ AddContacts(u) \/ Deliver(u)

ChangeMessage(u) == (\E i \in Ids : Update(u, i) \/ Delete(u, i)) \/ Notify(u)

Lists ==
  \/ GetUsers \/ GetGroups \/ SendHistory
  \/ \E p \in Peers, b \in 0..MaxMessages, q \in FirstPages \cup {Page} : GetLastMsgs(p, b, q)

User ==
  \E p \in Peers :
    \/ UserSends(p) \/ UserScrollsUp(p)
    \/ \E k \in DOMAIN view[p] : UserChanges(p, k) \/ UserDeletes(p, k)

Receive ==
  \/ \E first \in [Peers -> FirstPages] : RecvUsers(first)
  \/ RecvHistory \/ RecvGroups \/ RecvSent \/ RecvMessage \/ RecvChange \/ RecvUnexpected

Serve == SendToUser(Me) \/ ChangeMessage(Me) \/ Lists

Next ==
  \/ Serve \/ (\E p \in Peers : SendToUser(p) \/ ChangeMessage(p))
  \/ LogOut \/ Restart
  \/ LogIn \/ (phase # "off" /\ Quit) \/ User \/ Receive

(* The thread of Me and his client go on as long as there is work. *)
Fairness == WF_vars(Serve) /\ WF_vars(Receive)

Spec == Init /\ [][Next]_vars /\ Fairness

-----------------------------------------------------------------------------
(* Properties *)

MessageSeqs == Seq([id : Ids, text : Texts])

Works ==
  {NoWork} \cup [step : {"contacts", "deliver"}, id : Ids]
    \cup [step : {"notify"}, id : Ids, text : 1..Gone]
    \cup [step : {"history"}, peer : Peers, messages : MessageSeqs]

Frames ==
  [code : {"users", "error", "groups"}]
    \cup [code : {"history"}, peer : Peers, messages : MessageSeqs]
    \cup [code : {"sent", "message", "changed", "deleted"},
          peer : Peers, id : Ids, text : Texts \cup {Gone}]

Requests ==
  [code : {"users", "groups"}] \cup [code : {"send"}, peer : Users]
    \cup [code : {"update", "delete"}, id : Ids]
    \cup [code : {"history"}, peer : Peers, before : 0..MaxMessages, qty : FirstPages \cup {Page}]

TypeOK ==
  /\ rows \in Seq([from : Users, to : Users, text : Texts \cup {Gone}])
  /\ Len(rows) <= MaxMessages
  /\ contacts \in [Users -> SUBSET Users]
  /\ \A u \in Users : work[u] \in Works
  /\ \A p \in Peers : work[p].step # "history"
  /\ online \in BOOLEAN
  /\ requests \in Seq(Requests) /\ channel \in Seq(Frames)
  /\ phase \in {"off", "users", "histories", "groups", "ready"}
  /\ counter \in 0..Cardinality(Peers)
  /\ view \in [Peers -> Seq([id : Ids, text : Texts \cup {Gone}, by : {"list", "event"}, live : BOOLEAN])]
  /\ cursor \in [Peers -> 0..MaxMessages]
  /\ overlap \subseteq Peers

(* Two users with a message between them are each in the other's list of   *)
(* contacts, after a restart too, but for a message just being sent.       *)
ContactsCoverMessages ==
  \A i \in Stored :
    \/ rows[i].from \in contacts[rows[i].to] /\ rows[i].to \in contacts[rows[i].from]
    \/ \E u \in Users : work[u].step = "contacts" /\ work[u].id = i

Live(p) == {k \in DOMAIN view[p] : view[p][k].live}
Shown(p) == {view[p][k].id : k \in DOMAIN view[p]}

(* the message i is in the hands of its sender's thread, or in the         *)
(* connection, before the place n                                          *)
OnItsWay(p, i, n) ==
  \/ work[p].step \in {"contacts", "deliver"} /\ work[p].id = i
  \/ \E k \in 1..n : channel[k].code = "message" /\ channel[k].id = i

(* A client that has loaded its histories shows every message of the other *)
(* from the oldest one shown on, or is about to be sent it: there is no    *)
(* gap between the pages, nor between them and the events.                 *)
NothingMissing ==
  phase \in {"groups", "ready"} =>
    \A p \in Peers : \A i \in Stored :
      rows[i].from = p /\ rows[i].to = Me /\ i >= cursor[p] =>
        i \in Shown(p) \/ OnItsWay(p, i, Len(channel))

(* A change never overtakes the message it is about: a client that has     *)
(* loaded its histories, back to this message, is not brought down by the  *)
(* event, unless the message is deleted, and was before the history was    *)
(* read.                                                                   *)
ChangeFindsMessage ==
  phase \in {"groups", "ready"} =>
    \A n \in DOMAIN channel :
      LET f == channel[n] IN
      f.code = "changed" /\ f.id >= cursor[f.peer] /\ rows[f.id].text # Gone =>
        f.id \in Shown(f.peer) \/ OnItsWay(f.peer, f.id, n - 1)

(* What a peer has changed or deleted is shown so, or the event is under   *)
(* way: no history that was read before overwrites it.  Only a message     *)
(* that is shown twice, because it came by an event and in a history or on *)
(* two pages, may keep the old text, and nothing is sure once the widget   *)
(* of an own message refers to freed data.                                 *)
ShownAsStored ==
  phase # "off" /\ ~Dangling =>
    \A p \in Peers : \A k \in Live(p) :
      LET e == view[p][k] IN
      \/ rows[e.id].from = Me
      \/ e.text = rows[e.id].text
      \/ \E n \in DOMAIN channel : channel[n].code \in {"changed", "deleted"} /\ channel[n].id = e.id
      \/ work[p].step = "notify" /\ work[p].id = e.id
      \/ \E j \in DOMAIN view[p] : j # k /\ view[p][j].id = e.id

(* A message is shown twice only if it came by an event and in a history,  *)
(* or if two pages were asked for with the same cursor; an own one only    *)
(* then.                                                                   *)
ShownOnce ==
  \A p \in Peers \ overlap : \A j, k \in DOMAIN view[p] :
    LET d == view[p][j]  e == view[p][k] IN
    j # k /\ d.id = e.id => d.by # e.by /\ rows[d.id].from = p

(* an event was shown before the histories: a list stands below it *)
CameEarly(p, k) ==
  view[p][k].by = "event" /\ \E l \in DOMAIN view[p] : k < l /\ view[p][l].by = "list"

(* The messages of one author are shown in the order in which they were    *)
(* stored, but for those that came by an event before the history did; if  *)
(* two pages were asked for with the same cursor, those of them that are   *)
(* deleted may be out of place too.                                        *)
InOrder ==
  \A p \in Peers : \A j, k \in Live(p) :
    LET d == view[p][j]  e == view[p][k] IN
    /\ j < k /\ rows[d.id].from = rows[e.id].from
    /\ ~CameEarly(p, j) /\ ~CameEarly(p, k)
    /\ p \in overlap => {d.id, e.id} \subseteq Stored
    => d.id < e.id

(* A client that has logged in gets through its start, or ends.            *)
StartEnds == phase = "users" ~> phase \in {"ready", "off"}
==============================================================================
