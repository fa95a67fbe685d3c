------------------------------ MODULE HashTable ------------------------------
(***************************************************************************)
(* The hash tables of the server (hashMap_intKey_ptrVal.c and, with the    *)
(* same code for other types, hashMap_strKey_intVal.c): an array of        *)
(* chains that is doubled when it holds more entries than slots and halved *)
(* when it is nearly empty.                                                *)
(*                                                                         *)
(* Whoever changes a table holds its mutex until the table is whole again. *)
(* A few lookups are made under the mutex of something else                *)
(* (handle_get_num_of_msgs_from_group.c:27, handle_login.c:78): these      *)
(* stray readers may look at any state in between.                         *)
(***************************************************************************)
EXTENDS Integers, Sequences, FiniteSets, SequencesExt

CONSTANTS
  TableSize,   (* TABLE_SIZE: the number of slots of a new table             *)
  Keys,        (* ids; strings are taken for their hash                      *)
  ValuesOf,    (* the values that each key may get                           *)
  Stray,       (* lookups that do not hold the mutex of the table            *)
  StrayKeys,   (* the keys they look for                                     *)
  None         (* NULL, or -1 in the table of strings                        *)

Values == UNION {ValuesOf[k] : k \in Keys}

ASSUME TableAssumption ==
  /\ TableSize \in Nat \ {0}
  /\ Keys \subseteq Nat /\ StrayKeys \subseteq Keys
  /\ DOMAIN ValuesOf = Keys /\ None \notin Values

VARIABLES
  size, current, (* hashtable->size, hashtable->current_size                 *)
  slots,         (* hashtable->entries: a chain of entries per slot          *)
  phase,         (* "whole"; while it is reorganised "full" or "sparse",     *)
                 (* "freed" (there is no array) and "moving"; "nested" if    *)
                 (* it is enlarged while entries are moved                   *)
  old, was,      (* the entries still to be moved, the size before           *)
  read           (* the stray readers                                        *)

table == <<size, current, slots>>
vars  == <<size, current, slots, phase, old, was, read>>

-----------------------------------------------------------------------------
(* Tables *)

Entry == [key : Keys, value : Values]

Slot(k, n) == k % n

KeysIn(chain) == {chain[i].key : i \in DOMAIN chain}

(* the entry of key k in a chain that has one *)
IndexOf(chain, k) == CHOOSE i \in DOMAIN chain : chain[i].key = k

Find(chain, k) == IF k \in KeysIn(chain) THEN chain[IndexOf(chain, k)].value ELSE None

(* ht_get *)
Get(k) == Find(slots[Slot(k, size)], k)

(* ht_set up to the point where the table is enlarged *)
Store(S, n, k, v) ==
  LET chain == S[Slot(k, n)]
      e == [key |-> k, value |-> v]
  IN [S EXCEPT ![Slot(k, n)] =
        IF k \in KeysIn(chain) THEN [chain EXCEPT ![IndexOf(chain, k)] = e] ELSE Append(chain, e)]

Present(k) == k \in KeysIn(slots[Slot(k, size)])

(* Before the table is taken apart *)
Intact == {"whole", "full", "sparse"}

(* the places of the entries: which slot, and where in its chain *)
Places == UNION {{s} \X DOMAIN slots[s] : s \in 0..size-1}

Before(p, q) == p[1] < q[1] \/ (p[1] = q[1] /\ p[2] < q[2])

(* the entries at the places of P, one after the other *)
Collect(P) ==
  LET At(n) == CHOOSE p \in P : Cardinality({q \in P : Before(q, p)}) = n - 1
  IN [n \in 1..Cardinality(P) |-> slots[At(n)[1]][At(n)[2]]]

(* mutant: the last slot is forgotten *)
MutDump == Collect({p \in Places : p[1] < size - 1})

(* ht_dump: the chains of all slots, one after the other *)
Dump == Collect(Places)

EmptyTable(n) == [i \in 0..n-1 |-> <<>>]

-----------------------------------------------------------------------------
(* A lookup without the mutex computes the slot, reads the head of the     *)
(* chain and follows the pointers, one entry at a time.                    *)

Nowhere == [step |-> "idle"]

Walks(r) == read[r].step = "on"

(* Freed entries: whoever stands on one holds a pointer to freed memory.   *)
FreeEntry(place, k) ==
  [r \in Stray |->
     IF Walks(r) /\ read[r].place = place /\ read[r].at = k
     THEN [read[r] EXCEPT !.place = "dangling"] ELSE read[r]]

(* Entries of the table become entries of the old table, which is still    *)
(* there until each of them has been copied.                               *)
LeaveBehind(R) ==
  [r \in Stray |->
     IF R[r].step = "on" /\ R[r].place = "table"
     THEN [R[r] EXCEPT !.place = "old"] ELSE R[r]]

(* history: the chain under the reader has changed in another way than by  *)
(* getting longer                                                          *)
Disturb(R) ==
  [r \in Stray |-> IF R[r].step \in {"hashed", "on"} THEN [R[r] EXCEPT !.calm = FALSE] ELSE R[r]]

(* slot = hash(key, hashtable->size) *)
BeginRead(r) ==
  /\ read[r].step \in {"idle", "done"}
  /\ \E k \in StrayKeys :
       read' = [read EXCEPT ![r] =
         [step |-> "hashed", key |-> k, slot |-> Slot(k, size),
          calm |-> phase \in Intact, had |-> phase \in Intact /\ Present(k)]]
  /\ UNCHANGED <<table, phase, old, was>>

Finish(r, outcome) ==
  [step |-> "done", outcome |-> outcome, key |-> read[r].key,
   calm |-> read[r].calm, had |-> read[r].had]

StandOn(r, where, k) ==
  [step |-> "on", key |-> read[r].key, at |-> k, place |-> where,
   calm |-> read[r].calm, had |-> read[r].had]

(* entry = hashtable->entries[slot] *)
ReadHead(r) ==
  /\ read[r].step = "hashed"
  /\ LET s == read[r].slot IN
     read' = [read EXCEPT ![r] =
       IF phase = "freed" \/ s >= size THEN Finish(r, "garbage")
       ELSE IF slots[s] = <<>> THEN Finish(r, "missing")
       ELSE StandOn(r, "table", Head(slots[s]).key)]
  /\ UNCHANGED <<table, phase, old, was>>

(* what follows the entry of k in its chain; the chains of a table of n    *)
(* slots that was taken apart stand one after the other                    *)
Rest(chain, k, n) == {j \in DOMAIN chain : IndexOf(chain, k) < j /\ Slot(chain[j].key, n) = Slot(k, n)}

(* the entry is compared with the key, or the reader goes on to the next *)
ReadEntry(r) ==
  /\ Walks(r)
  /\ LET k == read[r].at
         chain == IF read[r].place = "table" THEN slots[Slot(k, size)] ELSE old
         rest == Rest(chain, k, IF read[r].place = "table" THEN size ELSE was)
     IN read' = [read EXCEPT ![r] =
       IF read[r].place = "dangling" THEN Finish(r, "garbage")
       ELSE IF k = read[r].key THEN Finish(r, "found")
       ELSE IF rest = {} THEN Finish(r, "missing")
       ELSE StandOn(r, read[r].place, chain[Min(rest)].key)]
  /\ UNCHANGED <<table, phase, old, was>>

-----------------------------------------------------------------------------
(* Under the mutex *)

Init ==
  /\ size = TableSize /\ current = 0 /\ slots = EmptyTable(TableSize)
  /\ phase = "whole" /\ old = <<>> /\ was = TableSize
  /\ read = [r \in Stray |-> Nowhere]

(* mutant: an existing key is counted again *)
MutSet(k, v) ==
  /\ phase = "whole"
  /\ slots' = Store(slots, size, k, v)
  /\ current' = current + 1
  /\ phase' = IF current' > size THEN "full" ELSE "whole"
  /\ UNCHANGED <<size, old, was, read>>

(* mutant: a new entry is put in front of the chain, its next pointer set later *)
MutSetFirst(k, v) ==
  /\ phase = "whole" /\ ~Present(k)
  /\ slots' = [slots EXCEPT ![Slot(k, size)] = <<[key |-> k, value |-> v]>>]
  /\ current' = current + 1
  /\ phase' = IF current' > size THEN "full" ELSE "whole"
  /\ UNCHANGED <<size, old, was, read>>

(* ht_set *)
Set(k, v) ==
  /\ phase = "whole"
  /\ slots' = Store(slots, size, k, v)
  /\ current' = IF Present(k) THEN current ELSE current + 1
  /\ phase' = IF ~Present(k) /\ current' > size THEN "full" ELSE "whole"
  /\ UNCHANGED <<size, old, was, read>>

(* ht_del *)
Delete(k) ==
  /\ phase = "whole" /\ Present(k)
  /\ LET s == Slot(k, size) IN
     slots' = [slots EXCEPT ![s] = RemoveAt(slots[s], IndexOf(slots[s], k))]
  /\ current' = current - 1
  /\ phase' = IF current' > TableSize /\ current' < size \div 4 THEN "sparse" ELSE "whole"
  /\ read' = Disturb(FreeEntry("table", k))
  /\ UNCHANGED <<size, old, was>>

(* mutant: the size stays as it is *)
MutDismantle ==
  /\ phase \in {"full", "sparse"}
  /\ old' = Dump /\ was' = size
  /\ phase' = "freed"
  /\ read' = Disturb(LeaveBehind(read))
  /\ UNCHANGED <<size, current, slots>>

(* enlarge_table, shrink_table: the entries are collected, the array freed *)
Dismantle ==
  /\ phase \in {"full", "sparse"}
  /\ old' = Dump
  /\ was' = size
  /\ size' = IF phase = "full" THEN 2 * size ELSE size \div 2
  /\ phase' = "freed"
  /\ read' = Disturb(LeaveBehind(read))
  /\ UNCHANGED <<current, slots>>

(* a new array of empty slots *)
Rebuild ==
  /\ phase = "freed"
  /\ current' = 0
  /\ slots' = EmptyTable(size)
  /\ phase' = "moving"
  /\ UNCHANGED <<size, old, was, read>>

(* ht_set of an old entry into the new array, and free of the old one *)
Move ==
  /\ phase = "moving" /\ old # <<>>
  /\ LET e == Head(old) IN
     /\ slots' = Store(slots, size, e.key, e.value)
     /\ current' = IF Present(e.key) THEN current ELSE current + 1
     /\ read' = FreeEntry("old", e.key)
  /\ old' = Tail(old)
  /\ phase' = IF current' > size THEN "nested" ELSE "moving"
  /\ UNCHANGED <<size, was>>

Unlock ==
  /\ phase = "moving" /\ old = <<>>
  /\ phase' = "whole"
  /\ UNCHANGED <<table, old, was, read>>

Reorganise == Dismantle \/ Rebuild \/ Move \/ Unlock

Next ==
  \/ \E k \in Keys : Delete(k) \/ \E v \in ValuesOf[k] : Set(k, v)
  \/ Reorganise
  \/ \E r \in Stray : BeginRead(r) \/ ReadHead(r) \/ ReadEntry(r)

Spec == Init /\ [][Next]_vars

-----------------------------------------------------------------------------
(* Properties *)

ReadStates ==
  {Nowhere}
    \cup [step : {"hashed"}, key : Keys, slot : Nat, calm : BOOLEAN, had : BOOLEAN]
    \cup [step : {"on"}, key : Keys, at : Keys, place : {"table", "old", "dangling"},
          calm : BOOLEAN, had : BOOLEAN]
    \cup [step : {"done"}, outcome : {"found", "missing", "garbage"}, key : Keys,
          calm : BOOLEAN, had : BOOLEAN]

TypeOK ==
  /\ size \in Nat \ {0} /\ current \in Nat /\ was \in Nat \ {0}
  /\ phase # "freed" => slots \in [0..size-1 -> Seq(Entry)]
  /\ phase \in Intact \cup {"freed", "moving", "nested"}
  /\ old \in Seq(Entry)
  /\ read \in [Stray -> ReadStates]

(* Every entry is in the slot of its key, no key has two entries, and      *)
(* current_size counts them, while entries are moved too.                  *)
WellFormed ==
  /\ TypeOK
  /\ phase # "freed" =>
       /\ \A s \in 0..size-1 :
            /\ \A i \in DOMAIN slots[s] : Slot(slots[s][i].key, size) = s
            /\ Cardinality(KeysIn(slots[s])) = Len(slots[s])
       /\ current = Cardinality(UNION {KeysIn(slots[s]) : s \in 0..size-1})

(* Moving the entries never fills the new array: enlarge_table and         *)
(* shrink_table, which call ht_set, do not call themselves through it.     *)
NoNestedReorganisation == phase # "nested"

(* A lookup under a wrong mutex gives a wrong answer, or reads freed       *)
(* memory, only if an entry was deleted or the table was reorganised while *)
(* it went on.  A key that was there is found, however many are added.     *)
StrayReadsRight ==
  \A r \in Stray :
    read[r].step = "done" /\ read[r].calm =>
      /\ read[r].outcome # "garbage"
      /\ read[r].had => read[r].outcome = "found"

(* The table implements a partial function.  What a lookup under the mutex *)
(* returns, Get, changes for the key that is set or deleted and for no     *)
(* other; enlarging and shrinking, entry by entry, change nothing.         *)
Stored(k) ==
  IF phase = "freed" THEN Find(old, k)
  ELSE IF phase = "moving" /\ k \in KeysIn(old) THEN Find(old, k)
  ELSE Get(k)

Abstract == INSTANCE IdMap WITH map <- [k \in Keys |-> Stored(k)]
IsMap == Abstract!Spec
==============================================================================
