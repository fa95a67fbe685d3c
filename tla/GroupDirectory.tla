----------------------------- MODULE GroupDirectory -----------------------------
(***************************************************************************)
(* What the server promises about groups: a directory in which every       *)
(* request takes effect in one step, and in which a member list that is    *)
(* shown, or that a message is delivered to, is the list at that moment.   *)
(* Neither caches nor mutexes are visible here, and of a restart only that *)
(* it forgets the guests: users who were added while the database refused  *)
(* to store them, and are members until then.                              *)
(***************************************************************************)
CONSTANTS Users, Chats, NoUser, NoReply

VARIABLES
  groups,    (* the groups that exist                                        *)
  usedIds,   (* the ids that were ever given to a group                      *)
  owner,     (* the owner of each group                                      *)
  members,   (* the users of each group                                      *)
  guests,    (* the users of each group the database does not know of        *)
  seen       (* the last member list shown or delivered to                   *)

vars == <<groups, usedIds, owner, members, guests, seen>>

Init ==
  /\ groups = {} /\ usedIds = {}
  /\ owner = [c \in Chats |-> NoUser]
  /\ members = [c \in Chats |-> {}]
  /\ guests = [c \in Chats |-> {}]
  /\ seen = NoReply

(* A new group has a new id and its owner as the only member, or nobody:   *)
(* the INSERT of the group is kept when that of its owner's row fails.     *)
Create(c, u) ==
  /\ c \notin usedIds
  /\ groups' = groups \cup {c}
  /\ usedIds' = usedIds \cup {c}
  /\ owner' = [owner EXCEPT ![c] = u]
  /\ members' \in {[members EXCEPT ![c] = {u}], [members EXCEPT ![c] = {}]}
  /\ UNCHANGED <<guests, seen>>

(* Users join or are added, none of them twice. *)
Add(c, S) ==
  /\ c \in groups
  /\ S # {} /\ S \cap (members[c] \cup guests[c]) = {}
  /\ \/ members' = [members EXCEPT ![c] = @ \cup S] /\ UNCHANGED guests
     \/ guests' = [guests EXCEPT ![c] = @ \cup S] /\ UNCHANGED members
  /\ UNCHANGED <<groups, usedIds, owner, seen>>

Remove(c, u) ==
  /\ c \in groups /\ u \in members[c]
  /\ members' = [members EXCEPT ![c] = @ \ {u}]
  /\ UNCHANGED <<groups, usedIds, owner, guests, seen>>

Delete(c) ==
  /\ c \in groups
  /\ groups' = groups \ {c}
  /\ members' = [members EXCEPT ![c] = {}]
  /\ guests' = [guests EXCEPT ![c] = {}]
  /\ UNCHANGED <<usedIds, owner, seen>>

Show(c) ==
  /\ c \in groups
  /\ seen' = [chat |-> c, users |-> members[c] \cup guests[c]]
  /\ UNCHANGED <<groups, usedIds, owner, members, guests>>

(* The server starts again. *)
Forget ==
  /\ guests' = [c \in Chats |-> {}]
  /\ UNCHANGED <<groups, usedIds, owner, members, seen>>

Next == Forget \/
  \E c \in Chats :
    \/ \E u \in Users : Create(c, u) \/ Remove(c, u)
    \/ \E S \in SUBSET Users : Add(c, S)
    \/ Delete(c)
    \/ Show(c)

Spec == Init /\ [][Next]_vars
=============================================================================
