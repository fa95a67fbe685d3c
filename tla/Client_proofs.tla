----------------------------- MODULE Client_proofs -----------------------------
(***************************************************************************)
(* Proofs about Client, for any number of failures and of login forms.     *)
(***************************************************************************)
EXTENDS Client, TLAPS

(* Where the threads can be with respect to each other.  The login thread  *)
(* is done before the receiver starts, the receiver has left its read      *)
(* before reconnect_handler is there, which alone keeps the mutex.         *)
Phases ==
  /\ (successful = TRUE) <=> (lr = "done")
  /\ rv # "none" => successful = TRUE
  /\ ui = "chat" => rv # "none"
  /\ ui \in {"form", "asked", "waits", "woken"} => rv = "none"
  /\ rv \in {"none", "read"} => rc = "none"
  /\ (rc = "try") <=> (mutex = "rc")

Inv == TypeOK /\ Phases

LEMMA InitInv == ASSUME ClientAssumption, Init PROVE Inv
<1>1. successful \in BOOLEAN /\ server \in BOOLEAN /\ missed \in BOOLEAN
  BY Zenon DEF Init
<1> QED
  BY <1>1 DEF ClientAssumption, Init, Inv, TypeOK, Phases

LEMMA LoginStep == ASSUME Inv, Login PROVE Inv'
<1>1. CASE Wait
  BY <1>1 DEF Inv, TypeOK, Phases, Wait
<1>5. CASE WakeUp
  <2>1. CASE successful = TRUE
    <3>1. /\ ui' = "chat" /\ rv' = "read"
          /\ UNCHANGED <<lr, rc, mutex, successful, session, conn, channel, server, failures,
                         forms, missed>>
      BY <1>5, <2>1, Zenon DEF WakeUp
    <3>2. rc = "none"
      BY <1>5 DEF Inv, Phases, WakeUp
    <3> QED
      BY <3>1, <3>2, <2>1 DEF Inv, TypeOK, Phases
  <2>2. CASE successful = FALSE
    BY <1>5, <2>2 DEF Inv, TypeOK, Phases, WakeUp
  <2> QED
    BY <2>1, <2>2 DEF Inv, TypeOK
<1>2. CASE ReadAnswer
  BY <1>2 DEF Inv, TypeOK, Phases, ReadAnswer
<1>3. CASE SignalAccepted
  BY <1>3 DEF Inv, TypeOK, Phases, SignalAccepted, Woken
<1>4. CASE SignalRefused
  BY <1>4 DEF Inv, TypeOK, Phases, SignalRefused, Woken
<1> QED
  BY <1>1, <1>2, <1>3, <1>4, <1>5 DEF Login

LEMMA ReceiverStep == ASSUME Inv, Receiver PROVE Inv'
<1>1. CASE Disconnected \/ ReadFails
  BY <1>1 DEF Inv, TypeOK, Phases, Disconnected, ReadFails
<1>2. CASE AwaitRecovery \/ EndReceiver
  BY <1>2 DEF Inv, TypeOK, Phases, AwaitRecovery, EndReceiver
<1> QED
  BY <1>1, <1>2 DEF Receiver

LEMMA ReconnectStep == ASSUME ClientAssumption, Inv, Reconnect PROVE Inv'
<1>1. CASE StartTrying \/ TryFreed
  BY <1>1 DEF Inv, TypeOK, Phases, StartTrying, TryFreed
<1>2. CASE OpenForm
  <2>1. successful' \in BOOLEAN /\ server' \in BOOLEAN /\ missed' \in BOOLEAN
    BY <1>2, Zenon DEF Inv, TypeOK, OpenForm
  <2> QED
    BY <2>1, <1>2 DEF ClientAssumption, Inv, TypeOK, Phases, OpenForm
<1>3. CASE LosePointer
  <2>1. successful' \in BOOLEAN /\ server' \in BOOLEAN /\ missed' \in BOOLEAN
    BY <1>3, Zenon DEF Inv, TypeOK, LosePointer
  <2> QED
    BY <2>1, <1>3 DEF ClientAssumption, Inv, TypeOK, Phases, LosePointer
<1> QED
  BY <1>1, <1>2, <1>3 DEF Reconnect

LEMMA OtherStep ==
  ASSUME ClientAssumption, Inv,
         \/ Click \/ CloseForm \/ CloseChat \/ ReadNull \/ SpuriousWakeup \/ Answer \/ StartServer
         \/ \E stops \in BOOLEAN : Break(stops)
  PROVE  Inv'
<1>1. CASE Click
  BY <1>1 DEF Inv, TypeOK, Phases, Click
<1>2. CASE CloseForm \/ CloseChat \/ ReadNull
  BY <1>2 DEF Inv, TypeOK, Phases, CloseForm, CloseChat, ReadNull
<1>3. CASE SpuriousWakeup
  BY <1>3 DEF Inv, TypeOK, Phases, SpuriousWakeup
<1>4. CASE Answer \/ StartServer
  <2>1. server' \in BOOLEAN
    BY <1>4, Zenon DEF Inv, TypeOK, Answer, StartServer
  <2> QED
    BY <2>1, <1>4 DEF Inv, TypeOK, Phases, Answer, StartServer, threads
<1>5. ASSUME NEW stops \in BOOLEAN, Break(stops) PROVE Inv'
  BY <1>5 DEF ClientAssumption, Inv, TypeOK, Phases, Break, threads
<1> QED
  BY <1>1, <1>2, <1>3, <1>4, <1>5

LEMMA Step == ASSUME ClientAssumption, Inv, [Next]_vars PROVE Inv'
<1>1. CASE UNCHANGED vars
  BY <1>1 DEF Inv, TypeOK, Phases, vars
<1> QED
  BY <1>1, LoginStep, ReceiverStep, ReconnectStep, OtherStep DEF Next

(* Every step of a thread of the client, and every failure, keeps the      *)
(* invariant above.                                                        *)
THEOREM Invariance == Spec => []Inv
<1>1. Init => Inv
  BY InitInv, ClientAssumption
<1>2. Inv /\ [Next]_vars => Inv'
  BY Step, ClientAssumption
<1> QED
  BY <1>1, <1>2, PTL DEF Spec

(* Every variable of the client keeps its type. *)
THEOREM TypeCorrect == Spec => []TypeOK
<1>1. Inv => TypeOK
  BY DEF Inv
<1> QED
  BY <1>1, Invariance, PTL

(* The login thread and the receiver never read from the same connection. *)
THEOREM SingleReader == Spec => []OneReader
<1>1. Inv => OneReader
  BY DEF Inv, Phases, OneReader
<1> QED
  BY <1>1, Invariance, PTL

(* The session id in use by reconnect_handler is left alone. *)
THEOREM SessionHeld == Spec => SessionHeldWhileTrying
<1>1. Inv /\ [Next]_vars => [rc = "try" /\ rc' = "try" => session' = session]_vars
  <2> SUFFICES ASSUME Inv, [Next]_vars, rc = "try", rc' = "try"
               PROVE  session' = session \/ UNCHANGED vars
    OBVIOUS
  <2>1. mutex = "rc" /\ rv # "read"
    BY DEF Inv, Phases, TypeOK
  <2>2. CASE Login
    BY <2>1, <2>2 DEF Login, Wait, WakeUp, ReadAnswer, SignalAccepted, SignalRefused
  <2>3. CASE Receiver
    BY <2>1, <2>3 DEF Receiver, Disconnected, ReadFails, AwaitRecovery, EndReceiver
  <2>4. CASE Reconnect
    BY <2>4 DEF Reconnect, StartTrying, OpenForm, LosePointer, TryFreed
  <2>5. CASE \/ Click \/ CloseForm \/ CloseChat \/ ReadNull \/ SpuriousWakeup \/ Answer \/ StartServer
             \/ \E stops \in BOOLEAN : Break(stops)
    BY <2>5 DEF Click, CloseForm, CloseChat, ReadNull, SpuriousWakeup, Answer, StartServer, Break
  <2> QED
    BY <2>2, <2>3, <2>4, <2>5 DEF Next
<1> QED
  BY <1>1, Invariance, PTL DEF Spec, SessionHeldWhileTrying
===============================================================================
