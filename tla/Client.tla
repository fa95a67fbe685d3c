-------------------------------- MODULE Client --------------------------------
(***************************************************************************)
(* The threads of the client and its connection: the login button, the     *)
(* thread that reads the answer to a login (recv_login_msg_handler), the   *)
(* thread that reads everything after it (recv_msg_handler), and the       *)
(* thread that restores a lost connection (reconnect_handler).  They share *)
(* the SSL pointer and the session id, and GTK_data's mutex and condition  *)
(* variable, on which two of them wait without a predicate.                *)
(*                                                                         *)
(* When a session has expired, reconnect_handler opens a new login form    *)
(* and runs it inside itself, with the old mutex locked for ever.  The old *)
(* threads are forgotten at this point; the variables are then those of    *)
(* the new form.  That is how each lost connection ends: the server either *)
(* refuses a session id, or goes down over it before it answers, so that   *)
(* try_to_reconnect never returns a connection.                            *)
(***************************************************************************)
EXTENDS Naturals

CONSTANTS
  MaxFailures,   (* how often the server stops or the network breaks         *)
  MaxForms       (* how many login forms are opened after the first          *)

ASSUME ClientAssumption == MaxFailures \in Nat /\ MaxForms \in Nat

VARIABLES
  ui,         (* the GTK thread                                              *)
  lr,         (* recv_login_msg_handler                                      *)
  rv,         (* recv_msg_handler                                            *)
  rc,         (* reconnect_handler                                           *)
  mutex,      (* who holds GTK_data->pthread_mutex across two steps          *)
  successful, (* GTK_data->login_successful                                  *)
  session,    (* GTK_data->session_id: "none", "held" or "freed"             *)
  conn,       (* call_data->ssl: "up", "down" (the peer is gone) or "null"   *)
  channel,    (* what is under way on the connection                         *)
  server,     (* whether the server runs                                     *)
  failures, forms,
  missed      (* the answer to the last click was signalled before the wait  *)

threads == <<ui, lr, rv, rc>>
vars == <<ui, lr, rv, rc, mutex, successful, session, conn, channel, server,
          failures, forms, missed>>

Init ==
  /\ ui = "form" /\ lr = "read" /\ rv = "none" /\ rc = "none"
  /\ mutex = "free" /\ successful = FALSE /\ session = "none"
  /\ conn = "up" /\ channel = "empty" /\ server = TRUE
  /\ failures = 0 /\ forms = 0 /\ missed = FALSE

Running == ui \notin {"crashed", "closed"}

-----------------------------------------------------------------------------
(* The login button *)

(* A request on a lost connection, or to a server that reads no more, is   *)
(* lost.  A NULL pointer crashes the client or is an error, depending on   *)
(* the version of OpenSSL.                                                 *)
Click ==
  /\ ui = "form"
  /\ \/ conn = "null" /\ ui' = "crashed"
     \/ ui' = "asked"
  /\ channel' = IF conn = "up" /\ channel = "empty" /\ lr = "read" THEN "request" ELSE channel
  /\ missed' = successful
  /\ UNCHANGED <<lr, rv, rc, mutex, successful, session, conn, server, failures, forms>>

(* pthread_mutex_lock, pthread_cond_wait *)
Wait ==
  /\ ui = "asked" /\ mutex = "free"
  /\ ui' = "waits"
  /\ UNCHANGED <<lr, rv, rc, mutex, successful, session, conn, channel, server, failures,
                 forms, missed>>

(* GTK_start creates the receiver, which asks for the list of users. *)
WakeUp ==
  /\ ui = "woken" /\ mutex = "free"
  /\ IF successful THEN ui' = "chat" /\ rv' = "read" ELSE ui' = "form" /\ UNCHANGED rv
  /\ UNCHANGED <<lr, rc, mutex, successful, session, conn, channel, server, failures,
                 forms, missed>>

(* the window of the login form is closed: the process ends *)
CloseForm ==
  /\ ui = "form"
  /\ ui' = "closed"
  /\ UNCHANGED <<lr, rv, rc, mutex, successful, session, conn, channel, server, failures,
                 forms, missed>>

(* the window of the chat is closed: so it does *)
CloseChat ==
  /\ ui = "chat"
  /\ ui' = "closed"
  /\ UNCHANGED <<lr, rv, rc, mutex, successful, session, conn, channel, server, failures,
                 forms, missed>>

-----------------------------------------------------------------------------
(* recv_login_msg_handler.  Without an answer it reads again: on a lost    *)
(* connection it spins, and a NULL pointer may crash.                      *)

ReadAnswer ==
  /\ Running /\ lr = "read" /\ channel \in {"accepted", "refused"}
  /\ lr' = channel
  /\ channel' = "empty"
  /\ UNCHANGED <<ui, rv, rc, mutex, successful, session, conn, server, failures, forms,
                 missed>>

ReadNull ==
  /\ Running /\ lr = "read" /\ conn = "null"
  /\ ui' = "crashed"
  /\ UNCHANGED <<lr, rv, rc, mutex, successful, session, conn, channel, server, failures,
                 forms, missed>>

(* pthread_cond_signal wakes who waits; the signal is lost if nobody does. *)
Woken(s) == IF s = "waits" THEN "woken" ELSE s

(* mutant: stop_login is not set *)
MutSignalAccepted ==
  /\ Running /\ lr = "accepted" /\ mutex = "free"
  /\ lr' = "read"
  /\ successful' = TRUE /\ session' = "held"
  /\ ui' = Woken(ui) /\ missed' = (missed \/ ui = "asked")
  /\ UNCHANGED <<rv, rc, mutex, conn, channel, server, failures, forms>>

SignalAccepted ==
  /\ Running /\ lr = "accepted" /\ mutex = "free"
  /\ lr' = "done"
  /\ successful' = TRUE /\ session' = "held"
  /\ ui' = Woken(ui) /\ missed' = (missed \/ ui = "asked")
  /\ UNCHANGED <<rv, rc, mutex, conn, channel, server, failures, forms>>

(* mutant: the new connection is made, but nobody is told *)
MutSignalRefused ==
  /\ Running /\ lr = "refused" /\ mutex = "free"
  /\ lr' = "read"
  /\ conn' = (IF server THEN "up" ELSE "null") /\ channel' = "empty"
  /\ UNCHANGED <<ui, missed, rv, rc, mutex, successful, session, server, failures, forms>>

(* The server has closed the connection; setup_new_connection may fail.    *)
SignalRefused ==
  /\ Running /\ lr = "refused" /\ mutex = "free"
  /\ lr' = "read"
  /\ conn' = (IF server THEN "up" ELSE "null") /\ channel' = "empty"
  /\ ui' = Woken(ui) /\ missed' = (missed \/ ui = "asked")
  /\ UNCHANGED <<rv, rc, mutex, successful, session, server, failures, forms>>

-----------------------------------------------------------------------------
(* recv_msg_handler *)

(* the end of the stream: reconnect_handler is created *)
Disconnected ==
  /\ Running /\ rv = "read" /\ conn = "down"
  /\ rv' = "lost" /\ rc' = "sleep"
  /\ UNCHANGED <<ui, lr, mutex, successful, session, conn, channel, server, failures, forms,
                 missed>>

(* An error instead of the end: the thread ends and nothing is restored.   *)
(* It comes from a lost connection, or from SSL_write, which the GTK       *)
(* thread calls for the same object without a lock.                        *)
ReadFails ==
  /\ Running /\ rv = "read"
  /\ rv' = "done" /\ session' = "freed"
  /\ UNCHANGED <<ui, lr, rc, mutex, successful, conn, channel, server, failures, forms,
                 missed>>

(* mutant: the end of reconnect_handler is awaited with the mutex held *)
MutAwaitRecovery ==
  /\ Running /\ rv = "lost" /\ mutex = "free"
  /\ rv' = "waits" /\ mutex' = "rv"
  /\ UNCHANGED <<ui, lr, rc, successful, session, conn, channel, server, failures,
                 forms, missed>>

AwaitRecovery ==
  /\ Running /\ rv = "lost" /\ mutex = "free"
  /\ rv' = "waits"
  /\ UNCHANGED <<ui, lr, rc, mutex, successful, session, conn, channel, server, failures,
                 forms, missed>>

(* It leaves its loop instead of reading on. *)
EndReceiver ==
  /\ Running /\ rv = "woken" /\ mutex = "free"
  /\ rv' = "done" /\ session' = "freed"
  /\ UNCHANGED <<ui, lr, rc, mutex, successful, conn, channel, server, failures, forms,
                 missed>>

-----------------------------------------------------------------------------
(* reconnect_handler *)

(* mutant: the attempts are made without the mutex *)
MutStartTrying ==
  /\ Running /\ rc = "sleep" /\ mutex = "free"
  /\ rc' = "try"
  /\ UNCHANGED <<ui, lr, rv, mutex, successful, session, conn, channel, server, failures, forms,
                 missed>>

(* after three seconds; the mutex stays locked until the loop ends *)
StartTrying ==
  /\ Running /\ rc = "sleep" /\ mutex = "free"
  /\ rc' = "try" /\ mutex' = "rc"
  /\ UNCHANGED <<ui, lr, rv, successful, session, conn, channel, server, failures, forms,
                 missed>>

(* The session is refused, or the answer could not be read: a new          *)
(* connection is made, the main window destroyed and a login form opened.  *)
OpenForm ==
  /\ Running /\ rc = "try" /\ server /\ forms < MaxForms
  /\ conn' = "up" /\ channel' = "empty"
  /\ ui' = "form" /\ lr' = "read" /\ rv' = "none" /\ rc' = "none"
  /\ mutex' = "free" /\ successful' = FALSE /\ session' = "none"
  /\ missed' = FALSE
  /\ forms' = forms + 1
  /\ UNCHANGED <<server, failures>>

(* The server is gone before the new connection is made, be it because it  *)
(* went down over the session id: the pointer is NULL while the attempts   *)
(* go on.                                                                  *)
LosePointer ==
  /\ Running /\ rc = "try"
  /\ failures < MaxFailures /\ failures' = failures + 1
  /\ server /\ server' = FALSE
  /\ conn' = "null" /\ channel' = "empty"
  /\ UNCHANGED <<ui, lr, rv, rc, mutex, successful, session, forms, missed>>

(* try_to_reconnect reads a session id that has been freed *)
TryFreed ==
  /\ Running /\ rc = "try" /\ session = "freed"
  /\ ui' = "crashed"
  /\ UNCHANGED <<lr, rv, rc, mutex, successful, session, conn, channel, server, failures,
                 forms, missed>>

-----------------------------------------------------------------------------
(* The operating system, the network and the server *)

(* pthread_cond_wait may return without a signal. *)
SpuriousWakeup ==
  /\ Running
  /\ \/ ui = "waits" /\ ui' = "woken" /\ UNCHANGED rv
     \/ rv = "waits" /\ rv' = "woken" /\ UNCHANGED ui
  /\ UNCHANGED <<lr, rc, mutex, successful, session, conn, channel, server, failures,
                 forms, missed>>

Answer ==
  /\ server /\ conn = "up" /\ channel = "request"
  /\ channel' \in {"accepted", "refused"}
  /\ UNCHANGED <<threads, mutex, successful, session, conn, server, failures, forms,
                 missed>>

(* What has been sent may still arrive. *)
Break(stops) ==
  /\ server /\ failures < MaxFailures
  /\ failures' = failures + 1
  /\ server' = ~stops
  /\ conn' = IF conn = "up" THEN "down" ELSE conn
  /\ channel' \in {"empty"} \cup ({channel} \ {"request"})
  /\ UNCHANGED <<threads, mutex, successful, session, forms, missed>>

StartServer ==
  /\ ~server /\ server' = TRUE
  /\ UNCHANGED <<threads, mutex, successful, session, conn, channel, failures, forms,
                 missed>>

Login == Wait \/ WakeUp \/ ReadAnswer \/ SignalAccepted \/ SignalRefused
Receiver == Disconnected \/ ReadFails \/ AwaitRecovery \/ EndReceiver
Reconnect == StartTrying \/ OpenForm \/ LosePointer \/ TryFreed

Next ==
  \/ Click \/ CloseForm \/ CloseChat \/ ReadNull \/ Login
  \/ Receiver \/ Reconnect
  \/ SpuriousWakeup \/ Answer \/ StartServer
  \/ \E stops \in BOOLEAN : Break(stops)

Spec == Init /\ [][Next]_vars

(* The operating system runs every thread, and a server that runs answers. *)
(* Nobody has to close a window, to click, or to meet an error.            *)
FairSpec ==
  /\ Spec
  /\ WF_vars(Wait \/ WakeUp) /\ WF_vars(ReadAnswer \/ SignalAccepted \/ SignalRefused)
  /\ WF_vars(Disconnected \/ AwaitRecovery \/ EndReceiver) /\ WF_vars(Reconnect) /\ WF_vars(Answer)

-----------------------------------------------------------------------------
(* Properties *)

TypeOK ==
  /\ ui \in {"form", "asked", "waits", "woken", "chat", "crashed", "closed"}
  /\ lr \in {"read", "accepted", "refused", "done"}
  /\ rv \in {"none", "read", "lost", "waits", "woken", "done"}
  /\ rc \in {"none", "sleep", "try", "done"}
  /\ mutex \in {"free", "rc"}
  /\ successful \in BOOLEAN
  /\ session \in {"none", "held", "freed"}
  /\ conn \in {"up", "down", "null"}
  /\ channel \in {"empty", "request", "accepted", "refused"}
  /\ server \in BOOLEAN
  /\ failures \in 0..MaxFailures /\ forms \in 0..MaxForms
  /\ missed \in BOOLEAN

(* The thread that reads the login has left its loop before the receiver   *)
(* starts: two threads never read from one SSL object, which would share   *)
(* out the answers at random.                                              *)
OneReader == ~(lr \in {"read", "accepted", "refused"} /\ rv = "read")

(* While reconnect_handler logs in with the session id, the receiver does  *)
(* not free it, even when it is woken too early.                           *)
SessionHeldWhileTrying == [][rc = "try" /\ rc' = "try" => session' = session]_vars

(* A connection that the receiver has lost ends in a new login form, if    *)
(* the server comes back for good: reconnect_handler gets the mutex on     *)
(* which the receiver waits, and no attempt that fails half-way is its     *)
(* last.  The exceptions: the window is closed; the receiver wakes up      *)
(* without a signal and frees the session id; the forms of the model are   *)
(* used up.                                                                *)
LossRepaired ==
  \/ []<>~server
  \/ rv = "lost" ~> ui \in {"form", "closed"} \/ session = "freed" \/ forms = MaxForms

(* A click on the login button is answered.  The exceptions: the answer is *)
(* signalled before the GTK thread waits for it, which then waits for ever *)
(* with the window frozen, or the connection is lost.                      *)
LoginAnswered ==
  ui \in {"asked", "waits", "woken"} ~>
    ui \notin {"asked", "waits", "woken"} \/ missed \/ conn # "up"
==============================================================================
