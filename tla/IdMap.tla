-------------------------------- MODULE IdMap --------------------------------
(***************************************************************************)
(* What the hash tables of the server promise: a partial function from     *)
(* keys to values, of which each step changes one key at most.             *)
(***************************************************************************)
CONSTANTS Keys, Values, None

VARIABLE map   (* the value of each key, or None *)

Init == map = [k \in Keys |-> None]

(* put and delete *)
Change(k) == map'[k] \in Values \cup {None} /\ \A j \in Keys \ {k} : map'[j] = map[j]

Next == \E k \in Keys : Change(k)

Spec == Init /\ [][Next]_map
==============================================================================
