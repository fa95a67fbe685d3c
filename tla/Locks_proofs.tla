------------------------------ MODULE Locks_proofs ------------------------------
(***************************************************************************)
(* Proofs about Locks: threads whose programs keep to the order of the     *)
(* mutexes never wait for each other in a circle, however many they are.   *)
(***************************************************************************)
EXTENDS Locks, TLAPS

(* What a thread holds before s[i] if it holds M before s *)
HeldThen(M, s, i) ==
  {m \in Mutexes : \/ m \in M /\ \A k \in 1..Len(s) : k < i => s[k] # [op |-> "unlock", on |-> m]
                   \/ \E j \in 1..Len(s) : LockedAt(s, j, m, i)}

After(M, o) ==
  IF o.op = "lock" THEN M \cup {o.on} ELSE IF o.op = "unlock" THEN M \ {o.on} ELSE M

(* Continued from M, what s locks is unlocked, in the order if ord holds *)
Good(M, s, ord) ==
  /\ HeldThen(M, s, Len(s) + 1) = {}
  /\ \A i \in 1..Len(s) :
       /\ s[i].op = "unlock" =>
            \/ s[i].on \in HeldThen(M, s, i)
            \/ \E j \in 1..Len(s) : j < i /\ s[j].op = "lock" /\ s[j].on \in HeldThen(M, s, j)
       /\ s[i].op = "leak" => HeldThen(M, s, i) = {s[i].on} /\ s[i].on[1] = "user"
       /\ ord /\ s[i].op = "lock" =>
            InOrder(HeldThen(M, s, i), s[i].on) \/ UnderClients(HeldThen(M, s, i), s[i].on)

LEMMA TailFacts ==
  ASSUME NEW S, NEW s \in Seq(S), s # <<>>
  PROVE  /\ Head(s) = s[1] /\ Head(s) \in S
         /\ Tail(s) \in Seq(S) /\ Len(Tail(s)) = Len(s) - 1 /\ Len(s) \in Nat \ {0}
         /\ \A i \in 1..Len(Tail(s)) : Tail(s)[i] = s[i + 1]
  OBVIOUS

(* Doing the first operation only shifts what is held later *)
LEMMA Shift ==
  ASSUME NEW s \in Seq(Operations), s # <<>>, NEW M \in SUBSET Mutexes,
         NEW i \in Nat \ {0}
  PROVE  HeldThen(After(M, Head(s)), Tail(s), i) = HeldThen(M, s, i + 1)
<1> DEFINE e == Head(s)
           r == Tail(s)
<1>1. /\ e = s[1] /\ e \in Operations /\ r \in Seq(Operations)
      /\ Len(r) = Len(s) - 1 /\ Len(s) \in Nat \ {0}
      /\ \A k \in 1..Len(r) : r[k] = s[k + 1]
  BY TailFacts
<1>2. \A k \in 1..Len(s) : k = 1 \/ (k - 1 \in 1..Len(r) /\ r[k - 1] = s[k])
  BY <1>1
<1>3. ASSUME NEW m \in Mutexes, NEW j \in 1..Len(r)
      PROVE  LockedAt(r, j, m, i) <=> LockedAt(s, j + 1, m, i + 1)
  BY <1>1, <1>2 DEF LockedAt
<1>4. ASSUME NEW m \in Mutexes
      PROVE  LockedAt(s, 1, m, i + 1) <=>
               /\ e = [op |-> "lock", on |-> m]
               /\ \A k \in 1..Len(r) : k < i => r[k] # [op |-> "unlock", on |-> m]
  BY <1>1, <1>2 DEF LockedAt
<1>5. ASSUME NEW m \in Mutexes
      PROVE  (\A k \in 1..Len(s) : k < i + 1 => s[k] # [op |-> "unlock", on |-> m]) <=>
               /\ e # [op |-> "unlock", on |-> m]
               /\ \A k \in 1..Len(r) : k < i => r[k] # [op |-> "unlock", on |-> m]
  <2> DEFINE L == \A k \in 1..Len(s) : k < i + 1 => s[k] # [op |-> "unlock", on |-> m]
             R == /\ e # [op |-> "unlock", on |-> m]
                  /\ \A k \in 1..Len(r) : k < i => r[k] # [op |-> "unlock", on |-> m]
  <2>1. ASSUME L PROVE R
    <3>1. 1 \in 1..Len(s) /\ 1 < i + 1
      BY <1>1
    <3>2. ASSUME NEW k \in 1..Len(r), k < i
          PROVE  r[k] # [op |-> "unlock", on |-> m]
      <4>1. k + 1 \in 1..Len(s) /\ k + 1 < i + 1 /\ r[k] = s[k + 1]
        BY <1>1, <3>2
      <4> QED
        BY <4>1, <2>1
    <3>3. e # [op |-> "unlock", on |-> m]
      BY <3>1, <2>1, <1>1
    <3> QED
      BY <3>2, <3>3
  <2>2. ASSUME R, NEW k \in 1..Len(s), k < i + 1
        PROVE  s[k] # [op |-> "unlock", on |-> m]
    <3>1. CASE k = 1
      BY <3>1, <2>2, <1>1
    <3>2. CASE k # 1
      <4>1. k - 1 \in 1..Len(r) /\ k - 1 < i /\ r[k - 1] = s[k]
        BY <1>2, <2>2, <3>2
      <4> QED
        BY <4>1, <2>2
    <3> QED
      BY <3>1, <3>2
  <2> QED
    BY <2>1, <2>2
<1>6. ASSUME NEW m \in Mutexes
      PROVE  m \in After(M, e) <=> \/ e = [op |-> "lock", on |-> m]
                                   \/ m \in M /\ e # [op |-> "unlock", on |-> m]
  BY <1>1 DEF After, Operations
<1>7. ASSUME NEW m \in Mutexes
      PROVE  m \in HeldThen(After(M, e), r, i) <=> m \in HeldThen(M, s, i + 1)
  <2>1. (\E j \in 1..Len(s) : LockedAt(s, j, m, i + 1)) <=>
          LockedAt(s, 1, m, i + 1) \/ \E j \in 1..Len(r) : LockedAt(r, j, m, i)
    <3>1. ASSUME NEW j \in 1..Len(s), LockedAt(s, j, m, i + 1)
          PROVE  LockedAt(s, 1, m, i + 1) \/ \E x \in 1..Len(r) : LockedAt(r, x, m, i)
      <4>1. CASE j = 1
        BY <3>1, <4>1
      <4>2. CASE j # 1
        <5>1. j - 1 \in 1..Len(r) /\ (j - 1) + 1 = j
          BY <1>1, <4>2
        <5> QED
          BY <5>1, <3>1, <1>3
      <4> QED
        BY <4>1, <4>2
    <3>2. ASSUME NEW x \in 1..Len(r), LockedAt(r, x, m, i)
          PROVE  \E j \in 1..Len(s) : LockedAt(s, j, m, i + 1)
      <4>1. x + 1 \in 1..Len(s)
        BY <1>1
      <4> QED
        BY <4>1, <3>2, <1>3
    <3>3. 1 \in 1..Len(s)
      BY <1>1
    <3> QED
      BY <3>1, <3>2, <3>3
  <2> QED
    BY <2>1, <1>4, <1>5, <1>6 DEF HeldThen
<1> QED
  BY <1>7 DEF HeldThen

LEMMA Start ==
  ASSUME NEW s \in Seq(Operations), NEW M \in SUBSET Mutexes
  PROVE  HeldThen(M, s, 1) = M
  BY DEF HeldThen, LockedAt

LEMMA Nothing ==
  ASSUME NEW M \in SUBSET Mutexes, NEW ord \in BOOLEAN
  PROVE  Good(M, <<>>, ord) <=> M = {}
<1>1. <<>> \in Seq(Operations) /\ Len(<<>>) = 0 /\ Len(<<>>) + 1 = 1
  OBVIOUS
<1>2. HeldThen(M, <<>>, 1) = M
  BY <1>1, Start
<1> QED
  BY <1>1, <1>2 DEF Good

(* A program that is good from its start, as ProgramsInOrder says of all *)
LEMMA GoodStart ==
  ASSUME NEW s \in Seq(Operations), Balanced(s), NEW ord \in BOOLEAN, ord => Orderly(s)
  PROVE  Good({}, s, ord)
<1>1. ASSUME NEW i PROVE HeldThen({}, s, i) = HeldBefore(s, i)
  BY DEF HeldThen, HeldBefore
<1>2. Len(s) \in Nat
  OBVIOUS
<1>3. ASSUME NEW i \in 1..Len(s), s[i].op = "unlock"
      PROVE  \/ s[i].on \in HeldThen({}, s, i)
             \/ \E j \in 1..Len(s) : j < i /\ s[j].op = "lock" /\ s[j].on \in HeldThen({}, s, j)
  BY <1>1, <1>3 DEF Balanced, StuckBefore
<1>4. ASSUME NEW i \in 1..Len(s), s[i].op = "leak"
      PROVE  HeldThen({}, s, i) = {s[i].on} /\ s[i].on[1] = "user"
  BY <1>1, <1>4 DEF Balanced
<1>5. ASSUME NEW i \in 1..Len(s), ord, s[i].op = "lock"
      PROVE  InOrder(HeldThen({}, s, i), s[i].on) \/ UnderClients(HeldThen({}, s, i), s[i].on)
  BY <1>1, <1>5 DEF Orderly
<1>6. HeldThen({}, s, Len(s) + 1) = {}
  BY <1>1 DEF Balanced
<1> QED
  BY <1>3, <1>4, <1>5, <1>6 DEF Good

(* What comes next, and the rest after it *)
LEMMA GoodHead ==
  ASSUME NEW s \in Seq(Operations), s # <<>>, NEW M \in SUBSET Mutexes,
         NEW ord \in BOOLEAN, Good(M, s, ord)
  PROVE  /\ Head(s).op = "unlock" => Head(s).on \in M
         /\ Head(s).op = "leak" => M = {Head(s).on} /\ Head(s).on[1] = "user"
         /\ ord /\ Head(s).op = "lock" =>
              InOrder(M, Head(s).on) \/ UnderClients(M, Head(s).on)
<1>1. Head(s) = s[1] /\ 1 \in 1..Len(s)
  BY TailFacts
<1>2. HeldThen(M, s, 1) = M
  BY Start
<1>3. \A j \in 1..Len(s) : ~(j < 1)
  BY <1>1
<1> QED
  BY <1>1, <1>2, <1>3 DEF Good

LEMMA GoodTail ==
  ASSUME NEW s \in Seq(Operations), s # <<>>, NEW M \in SUBSET Mutexes,
         NEW ord \in BOOLEAN, Good(M, s, ord),
         ~(Head(s).op = "lock" /\ Head(s).on \in M)
  PROVE  /\ After(M, Head(s)) \in SUBSET Mutexes
         /\ Good(After(M, Head(s)), Tail(s), ord)
<1> DEFINE e == Head(s)
           r == Tail(s)
           N == After(M, e)
<1>1. /\ e = s[1] /\ e \in Operations /\ r \in Seq(Operations)
      /\ Len(r) = Len(s) - 1 /\ Len(s) \in Nat \ {0}
      /\ \A k \in 1..Len(r) : r[k] = s[k + 1]
  BY TailFacts
<1>2. N \in SUBSET Mutexes
  BY <1>1 DEF After, Operations
<1>3. \A i \in Nat \ {0} : HeldThen(N, r, i) = HeldThen(M, s, i + 1)
  BY Shift
<1>4. HeldThen(M, s, 1) = M
  BY Start
<1> HIDE DEF N
<1>5. HeldThen(N, r, Len(r) + 1) = {}
  <2>1. Len(r) + 1 \in Nat \ {0} /\ (Len(r) + 1) + 1 = Len(s) + 1
    BY <1>1
  <2> QED
    BY <2>1, <1>3 DEF Good
<1>6. ASSUME NEW i \in 1..Len(r)
      PROVE  /\ r[i] = s[i + 1] /\ i + 1 \in 1..Len(s) /\ i \in Nat \ {0}
             /\ HeldThen(N, r, i) = HeldThen(M, s, i + 1)
  <2>1. r[i] = s[i + 1] /\ i + 1 \in 1..Len(s) /\ i \in Nat \ {0}
    BY <1>1
  <2> QED
    BY <2>1, <1>3
<1>7. ASSUME NEW i \in 1..Len(r), r[i].op = "unlock"
      PROVE  \/ r[i].on \in HeldThen(N, r, i)
             \/ \E j \in 1..Len(r) : j < i /\ r[j].op = "lock" /\ r[j].on \in HeldThen(N, r, j)
  <2>1. s[i + 1].op = "unlock" /\ i + 1 \in 1..Len(s)
    BY <1>6, <1>7
  <2>2. CASE s[i + 1].on \in HeldThen(M, s, i + 1)
    BY <2>2, <1>6
  <2>3. ASSUME NEW j \in 1..Len(s), j < i + 1, s[j].op = "lock", s[j].on \in HeldThen(M, s, j)
        PROVE  \E x \in 1..Len(r) : x < i /\ r[x].op = "lock" /\ r[x].on \in HeldThen(N, r, x)
    <3>1. j # 1
      BY <2>3, <1>1, <1>4
    <3>2. j - 1 \in 1..Len(r) /\ j - 1 < i /\ (j - 1) + 1 = j
      BY <3>1, <2>3, <1>1
    <3>3. r[j - 1] = s[j] /\ HeldThen(N, r, j - 1) = HeldThen(M, s, j)
      BY <3>2, <1>6
    <3> QED
      BY <3>2, <3>3, <2>3
  <2> QED
    BY <2>1, <2>2, <2>3 DEF Good
<1>8. ASSUME NEW i \in 1..Len(r), r[i].op = "leak"
      PROVE  HeldThen(N, r, i) = {r[i].on} /\ r[i].on[1] = "user"
  BY <1>6, <1>8 DEF Good
<1>9. ASSUME NEW i \in 1..Len(r), ord, r[i].op = "lock"
      PROVE  InOrder(HeldThen(N, r, i), r[i].on) \/ UnderClients(HeldThen(N, r, i), r[i].on)
  BY <1>6, <1>9 DEF Good
<1>10. Good(N, r, ord)
  BY <1>5, <1>7, <1>8, <1>9 DEF Good
<1> QED
  BY <1>2, <1>10 DEF N

-----------------------------------------------------------------------------
(* The state machine *)

Ord(t) == req[t] \notin Disorderly

(* Whatever a thread has still to do is good, given what it holds; between *)
(* two requests it has nothing to do; what was leaked is a user's mutex.   *)
GoodThreads == \A t \in Threads : Good(Held(t), todo[t], Ord(t))
IdleThreads == \A t \in Threads : req[t] = Idle => todo[t] = <<>>
LeakedUsers == \A m \in leaked : owner[m] \in Threads /\ m[1] = "user"

Inv == TypeOK /\ GoodThreads /\ IdleThreads /\ LeakedUsers

LEMMA InitInv == ASSUME LockAssumption, Init PROVE Inv
<1>1. TypeOK
  BY DEF Init, TypeOK
<1>2. \A t \in Threads : Held(t) = {} /\ todo[t] = <<>>
  BY LockAssumption DEF Init, Held
<1>3. GoodThreads
  BY <1>2, Nothing DEF GoodThreads, Ord
<1> QED
  BY <1>1, <1>2, <1>3 DEF Inv, IdleThreads, LeakedUsers, Init

(* The answer by itself is good. *)
LEMMA AnswerGood ==
  ASSUME NEW h, NEW u \in Users, NEW ord \in BOOLEAN
  PROVE  Answer(h, u) \in Seq(Operations) /\ Good({}, Answer(h, u), ord)
<1> DEFINE p == Reply(u)
<1>1. /\ p \in Seq(Operations) /\ Len(p) = 2
      /\ p[1] = [op |-> "lock", on |-> Conn(u)] /\ p[2] = [op |-> "unlock", on |-> Conn(u)]
  BY DEF Reply, Short, Within, Lock, Unlock, Operations, Mutexes
<1>2. Conn(u) \in Mutexes
  BY DEF Mutexes
<1>3. HeldBefore(p, 1) = {}
  BY DEF HeldBefore, LockedAt
<1>4. HeldBefore(p, 2) = {Conn(u)}
  BY <1>1, <1>2 DEF HeldBefore, LockedAt
<1>5. HeldBefore(p, Len(p) + 1) = {}
  BY <1>1 DEF HeldBefore, LockedAt
<1>6. \A i \in 1..Len(p) : i = 1 \/ i = 2
  BY <1>1
<1> HIDE DEF p
<1>7. Balanced(p)
  BY <1>1, <1>4, <1>5, <1>6 DEF Balanced
<1>8. Orderly(p)
  <2>1. InOrder({}, Conn(u))
    BY DEF InOrder
  <2>2. p[1].on = Conn(u) /\ p[2].op # "lock"
    BY <1>1
  <2>3. ASSUME NEW i \in 1..Len(p), p[i].op = "lock"
        PROVE  InOrder(HeldBefore(p, i), p[i].on)
    <3>1. i = 1
      BY <1>6, <2>2, <2>3
    <3> QED
      BY <3>1, <2>1, <2>2, <1>3
  <2> QED
    BY <2>3 DEF Orderly
<1>9. p \in Seq(Operations) /\ Good({}, p, ord)
  BY <1>1, <1>7, <1>8, GoodStart
<1>10. <<>> \in Seq(Operations) /\ Good({}, <<>>, ord)
  BY Nothing
<1> QED
  BY <1>9, <1>10 DEF Answer, p

LEMMA AheadGood ==
  ASSUME Inv, NEW t \in Threads
  PROVE  /\ Held(t) \in SUBSET Mutexes /\ Ord(t) \in BOOLEAN
         /\ Ahead(t) \in Seq(Operations) /\ Good(Held(t), Ahead(t), Ord(t))
<1>1. /\ Held(t) \in SUBSET Mutexes /\ Ord(t) \in BOOLEAN
      /\ todo[t] \in Seq(Operations) /\ Good(Held(t), todo[t], Ord(t))
  BY DEF Inv, TypeOK, GoodThreads, Held, Ord
<1>2. CASE todo[t] # <<>> /\ Head(todo[t]).op \in {"return", "leak"}
  <2>1. /\ Tail(todo[t]) \in Seq(Operations)
        /\ Good(After(Held(t), Head(todo[t])), Tail(todo[t]), Ord(t))
    BY <1>1, <1>2, GoodTail, TailFacts
  <2>2. After(Held(t), Head(todo[t])) = Held(t)
    BY <1>2 DEF After
  <2> QED
    BY <1>1, <1>2, <2>1, <2>2 DEF Ahead
<1>3. CASE ~(todo[t] # <<>> /\ Head(todo[t]).op \in {"return", "leak"})
  <2>1. Ahead(t) = todo[t]
    BY <1>3 DEF Ahead
  <2> QED
    BY <1>1, <2>1
<1> QED
  BY <1>2, <1>3

(* A thread with nothing left to do holds nothing but what it has leaked. *)
LEMMA HoldsNothing ==
  ASSUME Inv, NEW t \in Threads, Ahead(t) = <<>>
  PROVE  Held(t) = {}
  BY AheadGood, Nothing

(* The thread is the only one whose state the step changes. *)
LEMMA OneThread ==
  ASSUME Inv, NEW t \in Threads,
         \A x \in Threads \ {t} :
           /\ Held(x)' = Held(x) /\ todo'[x] = todo[x] /\ req'[x] = req[x],
         Good(Held(t)', todo'[t], Ord(t)'), req'[t] = Idle => todo'[t] = <<>>
  PROVE  GoodThreads' /\ IdleThreads'
<1>1. ASSUME NEW x \in Threads \ {t} PROVE Good(Held(x)', todo'[x], Ord(x)')
  <2>1. Ord(x)' = Ord(x) /\ Good(Held(x), todo[x], Ord(x))
    BY DEF Inv, GoodThreads, Ord
  <2> QED
    BY <2>1
<1> QED
  BY <1>1 DEF Inv, GoodThreads, IdleThreads

LEMMA RequestStep ==
  ASSUME LockAssumption, HandlersAssumption, ProgramsInOrder, Inv,
         NEW t \in Threads, Request(t)
  PROVE  Inv'
<1>1. PICK h \in Handlers, v \in Users, c \in Chats :
        /\ Accepts(h, me[t], v)
        /\ req' = [req EXCEPT ![t] = h]
        /\ todo' = [todo EXCEPT ![t] = Program(h, me[t], v, c)]
  BY DEF Request
<1> DEFINE p == Program(h, me[t], v, c)
<1>2. me[t] \in Users
  BY DEF Inv, TypeOK
<1>3. p \in Seq(Operations) /\ Balanced(p) /\ (h \notin Disorderly => Orderly(p))
  BY <1>1, <1>2 DEF ProgramsInOrder, KeepsOrder
<1>4. Good({}, p, h \notin Disorderly)
  BY <1>3, GoodStart
<1> HIDE DEF p
<1>5. Held(t) = {}
  <2>1. Ahead(t) = <<>>
    BY DEF Request, Inv, IdleThreads, Ahead
  <2> QED
    BY <2>1, HoldsNothing
<1>6. UNCHANGED <<me, owner, leaked>> /\ \A x \in Threads : Held(x)' = Held(x)
  BY DEF Request, Held
<1>7. TypeOK'
  <2>1. \A x \in Threads : todo'[x] = IF x = t THEN p ELSE todo[x]
    BY <1>1 DEF p, Inv, TypeOK, Request
  <2> QED
    BY <1>1, <1>3, <1>6, <2>1 DEF Inv, TypeOK
<1>8. todo'[t] = p /\ req'[t] = h /\ h # Idle
  BY <1>1, HandlersAssumption DEF p, Inv, TypeOK
<1>9. /\ \A x \in Threads \ {t} : todo'[x] = todo[x] /\ req'[x] = req[x]
      /\ Ord(t)' = (h \notin Disorderly)
  BY <1>1, <1>8 DEF Inv, TypeOK, Ord
<1>10. Good(Held(t)', todo'[t], Ord(t)')
  BY <1>4, <1>5, <1>6, <1>8, <1>9
<1>11. GoodThreads' /\ IdleThreads'
  BY <1>6, <1>8, <1>9, <1>10, OneThread
<1> QED
  BY <1>6, <1>7, <1>11 DEF Inv, LeakedUsers

LEMMA AcquireStep ==
  ASSUME LockAssumption, HandlersAssumption, Inv, NEW t \in Threads, Acquire(t)
  PROVE  Inv'
<1> DEFINE a == Ahead(t)
           m == Operand(t)
<1>1. /\ a # <<>> /\ Head(a).op = "lock" /\ Head(a).on = m
      /\ owner[m] = Free
      /\ owner' = [owner EXCEPT ![m] = t] /\ todo' = [todo EXCEPT ![t] = Tail(a)]
      /\ UNCHANGED <<me, req, leaked>>
  BY DEF Acquire, At, Operand
<1>2. /\ Held(t) \in SUBSET Mutexes /\ Ord(t) \in BOOLEAN
      /\ a \in Seq(Operations) /\ Good(Held(t), a, Ord(t))
  BY AheadGood
<1> HIDE DEF a, m
<1>3. Head(a) \in Operations /\ Tail(a) \in Seq(Operations)
  BY <1>1, <1>2, TailFacts
<1>4. m \in Mutexes
  BY <1>1, <1>3 DEF Operations
<1>5. t # Free /\ m \notin Held(t) /\ m \notin leaked
  BY <1>1, LockAssumption DEF Held, Inv, LeakedUsers
<1>6. After(Held(t), Head(a)) = Held(t) \cup {m} /\ Good(Held(t) \cup {m}, Tail(a), Ord(t))
  <2>1. After(Held(t), Head(a)) = Held(t) \cup {m}
    BY <1>1 DEF After
  <2> QED
    BY <2>1, <1>1, <1>2, <1>5, GoodTail
<1>7. /\ TypeOK'
      /\ todo'[t] = Tail(a) /\ \A x \in Threads \ {t} : todo'[x] = todo[x]
      /\ \A n \in Mutexes : owner'[n] = IF n = m THEN t ELSE owner[n]
  BY <1>1, <1>3, <1>4 DEF Inv, TypeOK
<1>8. Held(t)' = Held(t) \cup {m} /\ \A x \in Threads \ {t} : Held(x)' = Held(x)
  BY <1>1, <1>4, <1>5, <1>7, LockAssumption DEF Held
<1>9. Ord(t)' = Ord(t) /\ Good(Held(t)', todo'[t], Ord(t)')
  BY <1>1, <1>6, <1>7, <1>8 DEF Ord
<1>10. req[t] # Idle
  BY <1>1 DEF Inv, IdleThreads, Ahead, a
<1>11. GoodThreads' /\ IdleThreads'
  BY <1>1, <1>7, <1>8, <1>9, <1>10, OneThread
<1>12. LeakedUsers'
  BY <1>1, <1>5, <1>7 DEF Inv, TypeOK, LeakedUsers
<1> QED
  BY <1>7, <1>11, <1>12 DEF Inv

LEMMA ReleaseStep ==
  ASSUME LockAssumption, HandlersAssumption, Inv, NEW t \in Threads, Release(t)
  PROVE  Inv'
<1> DEFINE a == Ahead(t)
           m == Operand(t)
<1>1. /\ a # <<>> /\ Head(a).op = "unlock" /\ Head(a).on = m
      /\ owner' = [owner EXCEPT ![m] = Free] /\ todo' = [todo EXCEPT ![t] = Tail(a)]
      /\ UNCHANGED <<me, req, leaked>>
  BY DEF Release, At, Operand
<1>2. /\ Held(t) \in SUBSET Mutexes /\ Ord(t) \in BOOLEAN
      /\ a \in Seq(Operations) /\ Good(Held(t), a, Ord(t))
  BY AheadGood
<1> HIDE DEF a, m
<1>3. Head(a) \in Operations /\ Tail(a) \in Seq(Operations)
  BY <1>1, <1>2, TailFacts
<1>4. m \in Held(t)
  BY <1>1, <1>2, GoodHead
<1>5. m \in Mutexes /\ m \notin leaked /\ owner[m] = t
  BY <1>4 DEF Held
<1>6. Good(Held(t) \ {m}, Tail(a), Ord(t))
  <2>1. After(Held(t), Head(a)) = Held(t) \ {m}
    BY <1>1 DEF After
  <2> QED
    BY <2>1, <1>1, <1>2, GoodTail
<1>7. /\ TypeOK'
      /\ todo'[t] = Tail(a) /\ \A x \in Threads \ {t} : todo'[x] = todo[x]
      /\ \A n \in Mutexes : owner'[n] = IF n = m THEN Free ELSE owner[n]
  BY <1>1, <1>3, <1>5 DEF Inv, TypeOK
<1>8. Held(t)' = Held(t) \ {m} /\ \A x \in Threads \ {t} : Held(x)' = Held(x)
  BY <1>1, <1>5, <1>7, LockAssumption DEF Held
<1>9. Ord(t)' = Ord(t) /\ Good(Held(t)', todo'[t], Ord(t)')
  BY <1>1, <1>6, <1>7, <1>8 DEF Ord
<1>10. req[t] # Idle
  BY <1>1 DEF Inv, IdleThreads, Ahead, a
<1>11. GoodThreads' /\ IdleThreads'
  BY <1>1, <1>7, <1>8, <1>9, <1>10, OneThread
<1>12. LeakedUsers'
  BY <1>1, <1>5, <1>7 DEF Inv, TypeOK, LeakedUsers
<1> QED
  BY <1>7, <1>11, <1>12 DEF Inv

LEMMA GiveUpStep ==
  ASSUME LockAssumption, HandlersAssumption, Inv, NEW t \in Threads, GiveUp(t)
  PROVE  Inv'
<1> DEFINE r == Answer(req[t], me[t])
<1>1. /\ owner' = [n \in Mutexes |-> IF owner[n] = t /\ n \notin leaked THEN Free ELSE owner[n]]
      /\ todo' = [todo EXCEPT ![t] = r] /\ todo[t] # <<>>
      /\ UNCHANGED <<me, req, leaked>>
  BY DEF GiveUp, MayQuit
<1>2. /\ Ord(t) \in BOOLEAN /\ r \in Seq(Operations)
      /\ Good({}, r, Ord(t))
  <2>1. me[t] \in Users /\ Ord(t) \in BOOLEAN
    BY DEF Inv, TypeOK, Ord
  <2> QED
    BY <2>1, AnswerGood
<1> HIDE DEF r
<1>3. /\ TypeOK'
      /\ todo'[t] = r /\ \A x \in Threads \ {t} : todo'[x] = todo[x]
  BY <1>1, <1>2 DEF Inv, TypeOK
<1>4. Held(t)' = {} /\ \A x \in Threads \ {t} : Held(x)' = Held(x)
  BY <1>1, LockAssumption DEF Held
<1>5. Ord(t)' = Ord(t) /\ Good(Held(t)', todo'[t], Ord(t)')
  BY <1>1, <1>2, <1>3, <1>4 DEF Ord
<1>6. req[t] # Idle
  BY <1>1 DEF Inv, IdleThreads
<1>7. GoodThreads' /\ IdleThreads'
  BY <1>1, <1>3, <1>4, <1>5, <1>6, OneThread
<1>8. LeakedUsers'
  BY <1>1 DEF Inv, TypeOK, LeakedUsers
<1> QED
  BY <1>3, <1>7, <1>8 DEF Inv

LEMMA LeakStep ==
  ASSUME LockAssumption, HandlersAssumption, Inv, NEW t \in Threads, Leak(t)
  PROVE  Inv'
<1> DEFINE r == Answer(req[t], me[t])
           m == Head(todo[t]).on
<1>1. /\ todo[t] # <<>> /\ Head(todo[t]).op = "leak"
      /\ leaked' = leaked \cup {m} /\ todo' = [todo EXCEPT ![t] = r]
      /\ UNCHANGED <<me, req, owner>>
  BY DEF Leak, MayQuit
<1>2. /\ Ord(t) \in BOOLEAN /\ r \in Seq(Operations)
      /\ Good({}, r, Ord(t))
  <2>1. me[t] \in Users /\ Ord(t) \in BOOLEAN
    BY DEF Inv, TypeOK, Ord
  <2> QED
    BY <2>1, AnswerGood
<1>3. Held(t) = {m} /\ m[1] = "user"
  <2>1. /\ Held(t) \in SUBSET Mutexes /\ Ord(t) \in BOOLEAN
        /\ todo[t] \in Seq(Operations) /\ Good(Held(t), todo[t], Ord(t))
    BY DEF Inv, TypeOK, GoodThreads, Held, Ord
  <2> QED
    BY <2>1, <1>1, GoodHead
<1> HIDE DEF r, m
<1>4. m \in Mutexes /\ owner[m] = t
  BY <1>3 DEF Held
<1>5. /\ TypeOK'
      /\ todo'[t] = r /\ \A x \in Threads \ {t} : todo'[x] = todo[x]
  BY <1>1, <1>2, <1>4 DEF Inv, TypeOK
<1>6. Held(t)' = {} /\ \A x \in Threads \ {t} : Held(x)' = Held(x)
  BY <1>1, <1>3, <1>4 DEF Held
<1>7. Ord(t)' = Ord(t) /\ Good(Held(t)', todo'[t], Ord(t)')
  BY <1>1, <1>2, <1>5, <1>6 DEF Ord
<1>8. req[t] # Idle
  BY <1>1 DEF Inv, IdleThreads
<1>9. GoodThreads' /\ IdleThreads'
  BY <1>1, <1>5, <1>6, <1>7, <1>8, OneThread
<1>10. LeakedUsers'
  BY <1>1, <1>3, <1>4 DEF Inv, LeakedUsers
<1> QED
  BY <1>5, <1>9, <1>10 DEF Inv

LEMMA FinishStep ==
  ASSUME LockAssumption, HandlersAssumption, Inv, NEW t \in Threads, Finish(t)
  PROVE  Inv'
<1>1. /\ Ahead(t) = <<>>
      /\ req' = [req EXCEPT ![t] = Idle] /\ todo' = [todo EXCEPT ![t] = <<>>]
      /\ UNCHANGED <<me, owner, leaked>>
  BY DEF Finish
<1>2. Held(t) = {} /\ \A x \in Threads : Held(x)' = Held(x)
  BY <1>1, HoldsNothing DEF Held
<1>3. /\ TypeOK'
      /\ todo'[t] = <<>>
      /\ \A x \in Threads \ {t} : todo'[x] = todo[x] /\ req'[x] = req[x]
  BY <1>1 DEF Inv, TypeOK
<1>4. Good(Held(t)', todo'[t], Ord(t)')
  <2>1. Ord(t)' \in BOOLEAN
    BY DEF Ord
  <2> QED
    BY <1>2, <1>3, <2>1, Nothing
<1>5. GoodThreads' /\ IdleThreads'
  BY <1>2, <1>3, <1>4, OneThread
<1>6. LeakedUsers'
  BY <1>1 DEF Inv, LeakedUsers
<1> QED
  BY <1>3, <1>5, <1>6 DEF Inv

LEMMA Invariance ==
  ASSUME LockAssumption, HandlersAssumption, ProgramsInOrder
  PROVE  Spec => []Inv
<1>1. Init => Inv
  BY InitInv
<1>2. Inv /\ [Next]_vars => Inv'
  <2>1. ASSUME Inv, UNCHANGED vars PROVE Inv'
    BY <2>1 DEF Inv, TypeOK, GoodThreads, IdleThreads, LeakedUsers, Held, Ord, vars
  <2>2. ASSUME Inv, Next PROVE Inv'
    BY <2>2, RequestStep, AcquireStep, ReleaseStep, GiveUpStep, LeakStep, FinishStep
       DEF Next, Work
  <2> QED
    BY <2>1, <2>2
<1> QED
  BY <1>1, <1>2, PTL DEF Spec

-----------------------------------------------------------------------------
(* The properties, for programs that are in order *)

(* Every variable of the lock machine keeps its type. *)
THEOREM TypeCorrect == ASSUME ProgramsInOrder PROVE Spec => []TypeOK
<1>1. Inv => TypeOK
  BY DEF Inv
<1> QED
  BY <1>1, Invariance, LockAssumption, HandlersAssumption, PTL

(* A thread that waits for a message holds nothing, except the mutex of a  *)
(* banned user to whom a message was edited or deleted.                    *)
THEOREM NothingKept == ASSUME ProgramsInOrder PROVE Spec => []NothingLeftLocked
<1>1. Inv => NothingLeftLocked
  <2> SUFFICES ASSUME Inv, NEW m \in Mutexes, owner[m] # Free, req[owner[m]] = Idle
               PROVE  m \in leaked /\ m[1] = "user"
    BY DEF NothingLeftLocked
  <2>1. owner[m] \in Threads
    BY DEF Inv, TypeOK
  <2>2. Ahead(owner[m]) = <<>>
    BY <2>1 DEF Inv, IdleThreads, Ahead
  <2>3. Held(owner[m]) = {}
    BY <2>1, <2>2, HoldsNothing
  <2>4. m \in leaked
    BY <2>3 DEF Held
  <2> QED
    BY <2>4 DEF Inv, LeakedUsers
<1> QED
  BY <1>1, Invariance, LockAssumption, HandlersAssumption, PTL

LEMMA InvOrder == Inv => LockOrder
<1> SUFFICES ASSUME Inv, NEW t \in Threads, At(t, "lock"), req[t] \notin Disorderly
             PROVE  InOrder(Held(t), Operand(t)) \/ UnderClients(Held(t), Operand(t))
  BY DEF LockOrder
<1>1. Ord(t) /\ Ahead(t) # <<>> /\ Head(Ahead(t)).op = "lock"
  BY DEF Ord, At
<1> QED
  BY <1>1, AheadGood, GoodHead DEF Operand

(* Outside the disorderly handlers mutexes are taken in the order of their *)
(* ranks, or under the lock on the table of clients.                       *)
THEOREM Ordered == ASSUME ProgramsInOrder PROVE Spec => []LockOrder
  BY InvOrder, Invariance, LockAssumption, HandlersAssumption, PTL

LEMMA Ranks ==
  ASSUME NEW m \in Mutexes
  PROVE  /\ Rank(m) \in 1..8
         /\ Rank(m) = 5 => \E u \in Users : m = User(u)
         /\ Rank(m) = 4 => \E u \in Users : m = Conn(u)
  BY DEF Mutexes, Rank, Clients, LoginToId, SessionToId, ChatTable, Database, Chat, User, Conn

LEMMA RankOf ==
  /\ Rank(Clients) = 3
  /\ \A u \in Users : Rank(User(u)) = 5 /\ Rank(Conn(u)) = 4
  /\ \A c \in Chats : Rank(Chat(c)) = 2
  BY DEF Rank, Clients, Chat, User, Conn

LEMMA Different ==
  ASSUME NEW u \in Users, NEW v \in Users
  PROVE  (User(u) = User(v) => u = v) /\ (Conn(u) = Conn(v) => u = v)
  BY DEF User, Conn

(* A circle of waiting threads would need a disorderly handler or a leaked *)
(* mutex.  Without them, the rank of what a thread waits for grows along   *)
(* the circle, except past the one thread that holds the table of clients; *)
(* and what that thread holds and waits for cannot be joined by such a     *)
(* chain.                                                                  *)
LEMMA InvDeadlock == ASSUME Inv PROVE DeadlockNeedsDisorder
<1> SUFFICES ASSUME NEW D \in SUBSET Threads, Deadlocked(D),
                    \A t \in D : req[t] \notin Disorderly,
                    \A m \in leaked : owner[m] \notin D
             PROVE  FALSE
  BY DEF DeadlockNeedsDisorder
<1> DEFINE o(t) == Operand(t)
           w(t) == owner[o(t)]
           Climbs(t) == InOrder(Held(t), o(t))
           Special(t) == UnderClients(Held(t), o(t))
<1>1. ASSUME NEW t \in D
      PROVE  /\ o(t) \in Mutexes /\ w(t) \in D /\ o(t) \in Held(w(t))
             /\ Climbs(t) \/ Special(t)
  <2>1. At(t, "lock") /\ w(t) \in D /\ t \in Threads
    BY DEF Deadlocked
  <2>2. Ahead(t) \in Seq(Operations) /\ Ahead(t) # <<>>
    BY <2>1, AheadGood DEF At
  <2>3. o(t) \in Mutexes
    <3>1. Head(Ahead(t)) \in Operations
      BY <2>2, TailFacts
    <3> QED
      BY <3>1 DEF Operand, Operations
  <2>4. o(t) \notin leaked
    BY <2>1
  <2>5. LockOrder
    BY InvOrder
  <2> QED
    BY <2>1, <2>3, <2>4, <2>5 DEF LockOrder, Held
<1> HIDE DEF o
<1>2. ASSUME NEW t \in D
      PROVE  Rank(o(t)) \in 1..8 /\ (Climbs(w(t)) => Rank(o(w(t))) > Rank(o(t)))
  <2>1. Rank(o(t)) \in 1..8 /\ Rank(o(w(t))) \in 1..8
    BY <1>1, Ranks
  <2> QED
    BY <2>1, <1>1 DEF InOrder
<1>3. ASSUME NEW t \in D, Special(t)
      PROVE  \E u \in Users :
               /\ \A m \in Held(t) : Rank(m) \in {2, 3} \/ m = User(u)
               /\ \E v \in Users \ {u} : o(t) \in {User(v), Conn(v)}
  BY <1>3, RankOf DEF UnderClients
<1>4. \A t, x \in D : Special(t) /\ Special(x) => t = x
  BY DEF UnderClients, Held
<1>5. \A t \in D : Special(w(t)) => Rank(o(t)) \in {2, 3, 5}
  BY <1>1, <1>3, RankOf
<1>6. \A t \in D : Rank(o(t)) # 8
  BY <1>1, <1>2, <1>5
<1>7. \A t \in D : Rank(o(t)) # 7
  BY <1>1, <1>2, <1>5, <1>6
<1>8. \A t \in D : Rank(o(t)) # 6
  BY <1>1, <1>2, <1>5, <1>6, <1>7
<1>9. \A t \in D : Rank(o(t)) = 5 => Special(w(t))
  BY <1>1, <1>2, <1>6, <1>7, <1>8
<1>10. \A t \in D : Rank(o(t)) = 4 => Climbs(w(t)) /\ Rank(o(w(t))) = 5
  BY <1>1, <1>2, <1>5, <1>6, <1>7, <1>8
<1>11. ASSUME NEW t \in D, NEW v \in Users, o(t) = Conn(v)
       PROVE  o(w(t)) = User(v)
  <2>1. Climbs(w(t)) /\ Rank(o(w(t))) = 5
    BY <1>10, <1>11, RankOf
  <2>2. PICK x \in Users : o(w(t)) = User(x)
    BY <2>1, <1>1, Ranks
  <2>3. Conn(v) \in Held(w(t))
    BY <1>1, <1>11
  <2> QED
    BY <2>1, <2>2, <2>3 DEF InOrder
<1>12. ASSUME NEW t \in D, Special(t) PROVE FALSE
  <2>0. PICK u \in Users :
          /\ \A m \in Held(t) : Rank(m) \in {2, 3} \/ m = User(u)
          /\ \E v \in Users \ {u} : o(t) \in {User(v), Conn(v)}
    BY <1>3, <1>12
  <2>1. PICK v \in Users \ {u} : o(t) \in {User(v), Conn(v)}
    BY <2>0
  <2>2. ASSUME NEW x \in D, o(x) = User(v) PROVE FALSE
    <3>1. Special(w(x)) /\ w(x) \in D /\ User(v) \in Held(w(x))
      BY <1>1, <1>9, <2>2, RankOf
    <3>2. w(x) = t
      BY <3>1, <1>4, <1>12
    <3>3. User(v) = User(u)
      BY <3>1, <3>2, <2>0, RankOf
    <3> QED
      BY <3>3, Different
  <2>3. CASE o(t) = User(v)
    BY <2>2, <2>3
  <2>4. CASE o(t) = Conn(v)
    BY <2>2, <2>4, <1>1, <1>11
  <2> QED
    BY <2>1, <2>3, <2>4
<1>13. \A t \in D : Climbs(t)
  BY <1>1, <1>12
<1>14. \A t \in D : Rank(o(t)) \notin {5, 4, 3, 2, 1}
  <2>1. \A t \in D : Rank(o(t)) # 5
    BY <1>1, <1>9, <1>12
  <2>2. \A t \in D : Rank(o(t)) # 4
    BY <1>1, <1>10, <2>1
  <2>3. \A t \in D : Rank(o(t)) # 3
    BY <1>1, <1>2, <1>6, <1>7, <1>8, <1>13, <2>1, <2>2
  <2>4. \A t \in D : Rank(o(t)) # 2
    BY <1>1, <1>2, <1>6, <1>7, <1>8, <1>13, <2>1, <2>2, <2>3
  <2>5. \A t \in D : Rank(o(t)) # 1
    BY <1>1, <1>2, <1>6, <1>7, <1>8, <1>13, <2>1, <2>2, <2>3, <2>4
  <2> QED
    BY <2>1, <2>2, <2>3, <2>4, <2>5
<1>15. \E t \in D : TRUE
  BY DEF Deadlocked
<1> QED
  BY <1>2, <1>6, <1>7, <1>8, <1>14, <1>15

(* However many threads, users and chats there are: threads wait for each  *)
(* other for ever only with a disorderly handler or a leaked mutex among   *)
(* them.                                                                   *)
THEOREM NoDeadlock == ASSUME ProgramsInOrder PROVE Spec => []DeadlockNeedsDisorder
<1>1. Inv => DeadlockNeedsDisorder
  BY InvDeadlock
<1> QED
  BY <1>1, Invariance, LockAssumption, HandlersAssumption, PTL
===============================================================================
