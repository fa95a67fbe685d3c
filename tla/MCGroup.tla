--------------------------------- MODULE MCGroup ---------------------------------
(* Small instances of GroupMembership for TLC.                             *)
EXTENDS GroupMembership_proofs, TLC

CONSTANTS u1, u2, t1, t2

(* two connections, each of a user of its own, or both of the same user    *)
TwoUsers == t1 :> u1 @@ t2 :> u2
OneUser  == t1 :> u1 @@ t2 :> u1

EveryoneElse == [u \in Users |-> Users \ {u}]

AddingOps  == {"create_chat", "join_chat", "add_contact_to_chat", "add_many_users_to_group",
               "send_to_chat"}
DeletingOps == {"create_chat", "add_many_users_to_group", "delete_group", "send_to_chat"}

(* the requests whose statements fail while that of create_chat does not   *)
Storing == AllOps \ {"create_chat"}

(* Chats are interchangeable, and so are the two connections of one user.  *)
Symmetry == {p @@ q : p \in Permutations(Chats), q \in Permutations(Threads)}
=============================================================================
