------------------------------ MODULE MCHashTable ------------------------------
(* A small instance of HashTable for TLC.  Nine keys and a table that      *)
(* begins with one slot: it grows to sixteen slots, and shrinks again.     *)
EXTENDS HashTable

CONSTANTS a, b
MCKeys == 1..9
MCStrayKeys == {1}
MCValuesOf == [k \in MCKeys |-> IF k = 1 THEN {a, b} ELSE {a}]
===============================================================================
