------------------------------ MODULE WebSocket ------------------------------
(***************************************************************************)
(* DefaultWebSocket, over the libwebsockets library, as RTTComms uses it.  *)
(*                                                                         *)
(* The owner is the thread that may touch the socket at the time: the      *)
(* connection thread creates it and asks isValid, later one thread sends   *)
(* and closes (RTTComms does both under _socketMutex).  The receiver loops *)
(* on recv.  The update thread runs the library, whose callbacks change    *)
(* the flags and the queues.  Flags and send queue are under _mutex, the   *)
(* receive queue under _recvMutex; each critical section is one step, and  *)
(* a wait is a state of the thread that only a notification ends.          *)
(***************************************************************************)
EXTENDS Integers, Sequences

CONSTANTS
  MaxMessages,  \* bound: messages the server sends
  MaxPieces,    \* bound: RECEIVE callbacks per message (more than MAX_PAYLOAD comes in pieces)
  MaxSends      \* bound: messages the owner sends

ASSUME WebSocketAssumption ==
  /\ MaxMessages \in Nat /\ MaxSends \in Nat
  /\ MaxPieces \in Nat \ {0}

VARIABLES
  owner,         \* where the owner is
  updater,       \* where the update thread is
  receiver,      \* where the receive thread is
  isValid,       \* _isValid
  isConnecting,  \* _isConnecting
  pLws,          \* _pLws: TRUE if it is not NULL
  conn,          \* the library's connection
  sendQueue,     \* _sendQueue
  recvQueue,     \* _recvQueue: pieces, each the number of its message
  arriving,      \* pieces of the last message brought so far, 0 between two messages
  arrived,       \* history: messages brought whole
  received,      \* history: pieces recv has returned
  sent           \* history: messages handed to send so far

threads == <<owner, updater, receiver>>
flags   == <<isValid, isConnecting, pLws, conn>>
queues  == <<sendQueue, recvQueue, arriving, arrived, received, sent>>
vars    == <<threads, flags, queues>>

Closing == {"closeRecv", "join", "kill", "closed"}

TypeOK ==
  /\ owner \in {"none", "connect", "store", "ask", "waiting", "valid", "invalid"} \cup Closing
  /\ updater \in {"none", "check", "service", "done"}
  /\ receiver \in {"none", "idle", "blocked", "woken", "ended"}
  /\ isValid \in BOOLEAN /\ isConnecting \in BOOLEAN /\ pLws \in BOOLEAN
  /\ conn \in {"none", "handshake", "up", "down"}
  /\ sendQueue \in Seq(1 .. MaxSends)
  /\ recvQueue \in Seq(1 .. MaxMessages)
  /\ received \in Seq(1 .. MaxMessages)
  /\ arriving \in 0 .. MaxPieces /\ arrived \in 0 .. MaxMessages /\ sent \in 0 .. MaxSends

Init ==
  /\ owner = "none" /\ updater = "none" /\ receiver = "none"
  /\ isValid = FALSE /\ isConnecting = TRUE /\ pLws = FALSE
  /\ conn = "none"
  /\ sendQueue = <<>> /\ recvQueue = <<>> /\ received = <<>>
  /\ arriving = 0 /\ arrived = 0 /\ sent = 0

-----------------------------------------------------------------------------
(* The owner: the constructor and isValid *)

\* _connectionCondition.notify_all
WakeOwner == owner' = IF owner = "waiting" THEN "ask" ELSE owner

\* The context and the update thread; without a context the constructor returns.
Construct ==
  /\ owner = "none"
  /\ \/ owner' = "connect" /\ updater' = "check"
     \/ owner' = "ask" /\ UNCHANGED updater
  /\ UNCHANGED <<receiver, flags, queues>>

\* lws_client_connect_via_info: the attempt is under way, and its callbacks may run
\* before the result is stored; or it has failed, usually after an error callback, or
\* without a word.
Connect ==
  /\ owner = "connect"
  /\ \/ /\ conn' = "handshake"
        /\ owner' = "store"
        /\ UNCHANGED isConnecting
     \/ /\ conn' = "down" /\ isConnecting' = FALSE
        /\ owner' = "ask"
     \/ /\ owner' = "ask"
        /\ UNCHANGED <<conn, isConnecting>>
  /\ UNCHANGED <<updater, receiver, isValid, pLws, queues>>

Store ==
  /\ owner = "store"
  /\ pLws' = TRUE
  /\ owner' = "ask"
  /\ UNCHANGED <<updater, receiver, isValid, isConnecting, conn, queues>>

\* isValid; RTTComms::connect starts the receive thread or closes the socket.
IsValid ==
  /\ owner = "ask"
  /\ IF isConnecting THEN owner' = "waiting" /\ UNCHANGED receiver
     ELSE IF isValid THEN owner' = "valid" /\ receiver' = "idle"
                     ELSE owner' = "invalid" /\ UNCHANGED receiver
  /\ UNCHANGED <<updater, flags, queues>>

-----------------------------------------------------------------------------
(* The owner: send and close *)

Send ==
  /\ owner = "valid"
  /\ sent < MaxSends
  /\ sent' = sent + 1
  /\ sendQueue' = Append(sendQueue, sent')
  /\ UNCHANGED <<threads, flags, recvQueue, arriving, arrived, received>>

\* The first section of close.
StopSending ==
  /\ owner \in {"valid", "invalid"}
  /\ owner' = "closeRecv"
  /\ sendQueue' = <<>>
  /\ isValid' = FALSE /\ isConnecting' = FALSE
  /\ UNCHANGED <<updater, receiver, pLws, conn, recvQueue, arriving, arrived, received, sent>>

\* _recvCondition.notify_all
WakeReceiver == receiver' = IF receiver = "blocked" THEN "woken" ELSE receiver

\* Mutant: the receive thread is left asleep.
StopsSilently ==
  /\ owner = "closeRecv"
  /\ owner' = "join"
  /\ recvQueue' = <<>>
  /\ UNCHANGED <<updater, receiver, flags, sendQueue, arriving, arrived, received, sent>>

StopReceiving ==
  /\ owner = "closeRecv"
  /\ owner' = "join"
  /\ recvQueue' = <<>>
  /\ WakeReceiver
  /\ UNCHANGED <<updater, flags, sendQueue, arriving, arrived, received, sent>>

\* Mutant: the update thread is not waited for.
JoinsNobody ==
  /\ owner = "join"
  /\ owner' = "kill"
  /\ UNCHANGED <<updater, receiver, flags, queues>>

Join ==
  /\ owner = "join"
  /\ updater \in {"none", "done"}
  /\ owner' = "kill"
  /\ UNCHANGED <<updater, receiver, flags, queues>>

\* lws_set_timeout with LWS_TO_KILL_SYNC: the connection is closed there and then,
\* and its close callback runs on this thread.
Kill ==
  /\ owner = "kill"
  /\ owner' = "closed"
  /\ conn' = IF pLws THEN "down" ELSE conn
  /\ pLws' = FALSE
  /\ UNCHANGED <<updater, receiver, isValid, isConnecting, queues>>

OwnerRuns ==
  \/ Construct \/ Connect \/ Store \/ IsValid \/ Send
  \/ StopSending \/ StopReceiving \/ Join \/ Kill

-----------------------------------------------------------------------------
(* The update thread and the callbacks of the library *)

\* Mutant: the loop is left once the connection has been made.
StopsOnceConnected ==
  /\ updater = "check"
  /\ updater' = IF isConnecting THEN "service" ELSE "done"
  /\ UNCHANGED <<owner, receiver, flags, queues>>

\* The condition of the update thread's loop.
CheckFlags ==
  /\ updater = "check"
  /\ updater' = IF isConnecting \/ isValid THEN "service" ELSE "done"
  /\ UNCHANGED <<owner, receiver, flags, queues>>

\* lws_service returns, at the latest after its 100 ms.
ServiceReturns ==
  /\ updater = "service"
  /\ updater' = "check"
  /\ UNCHANGED <<owner, receiver, flags, queues>>

OnConnect ==
  /\ updater = "service" /\ conn = "handshake"
  /\ conn' = "up"
  /\ isValid' = TRUE /\ isConnecting' = FALSE
  /\ WakeOwner
  /\ UNCHANGED <<updater, receiver, pLws, queues>>

\* Mutant: who waits for the connection is not woken.
DropsSilently(before) ==
  /\ updater = "service" /\ conn = before
  /\ conn' = "down"
  /\ isValid' = FALSE /\ isConnecting' = FALSE
  /\ pLws' = FALSE
  /\ UNCHANGED <<owner, updater, receiver, queues>>

\* onError and onClose do the same to the state; the receive thread is not woken.
Dropped(before) ==
  /\ updater = "service" /\ conn = before
  /\ conn' = "down"
  /\ isValid' = FALSE /\ isConnecting' = FALSE
  /\ pLws' = FALSE
  /\ WakeOwner
  /\ UNCHANGED <<updater, receiver, queues>>

OnError == Dropped("handshake")
OnClose == Dropped("up")

\* Mutant: the queue is a stack.
PushesInFront ==
  /\ updater = "service" /\ conn = "up"
  /\ arrived < MaxMessages
  /\ arriving' = 0
  /\ arrived' = arrived + 1
  /\ recvQueue' = <<arrived'>> \o recvQueue
  /\ WakeReceiver
  /\ UNCHANGED <<owner, updater, flags, sendQueue, received, sent>>

\* One RECEIVE callback: a message, or the next piece of one.
OnRecv ==
  /\ updater = "service" /\ conn = "up"
  /\ arrived < MaxMessages
  /\ \/ /\ arriving + 1 < MaxPieces
        /\ arriving' = arriving + 1
        /\ UNCHANGED arrived
     \/ /\ arriving' = 0
        /\ arrived' = arrived + 1
  /\ recvQueue' = Append(recvQueue, arrived + 1)
  /\ WakeReceiver
  /\ UNCHANGED <<owner, updater, flags, sendQueue, received, sent>>

ProcessSendQueue ==
  /\ updater = "service" /\ conn = "up"
  /\ sendQueue # <<>>
  /\ sendQueue' = <<>>
  /\ UNCHANGED <<threads, flags, recvQueue, arriving, arrived, received, sent>>

UpdaterRuns ==
  \/ CheckFlags \/ ServiceReturns \/ OnConnect \/ OnError \/ OnClose
  \/ OnRecv \/ ProcessSendQueue

-----------------------------------------------------------------------------
(* The receive thread *)

TakeFront ==
  /\ received' = Append(received, Head(recvQueue))
  /\ recvQueue' = Tail(recvQueue)
  /\ receiver' = "idle"

\* recv up to its wait.  The thread may also see RTTComms::_isConnected cleared
\* before close and not call recv again.
Recv ==
  /\ receiver = "idle"
  /\ \/ /\ recvQueue # <<>>
        /\ TakeFront
     \/ /\ recvQueue = <<>>
        /\ receiver' = IF isValid THEN "blocked" ELSE "ended"
        /\ UNCHANGED <<recvQueue, received>>
     \/ /\ owner \in Closing
        /\ receiver' = "ended"
        /\ UNCHANGED <<recvQueue, received>>
  /\ UNCHANGED <<owner, updater, flags, sendQueue, arriving, arrived, sent>>

\* recv after its wait: a message counts only while the socket is valid.
RecvWakes ==
  /\ receiver = "woken"
  /\ \/ /\ isValid /\ recvQueue # <<>>
        /\ TakeFront
     \/ /\ isValid /\ recvQueue = <<>>
        /\ receiver' = "blocked"
        /\ UNCHANGED <<recvQueue, received>>
     \/ /\ ~isValid
        /\ receiver' = "ended"
        /\ UNCHANGED <<recvQueue, received>>
  /\ UNCHANGED <<owner, updater, flags, sendQueue, arriving, arrived, sent>>

ReceiverRuns == Recv \/ RecvWakes

-----------------------------------------------------------------------------

Next == OwnerRuns \/ UpdaterRuns \/ ReceiverRuns

Spec == Init /\ [][Next]_vars

\* Threads run; lws_service returns; a connection attempt succeeds or times out.
\* Nothing makes the server send or hang up, or the app send or close.
Fairness ==
  /\ WF_vars(Construct \/ Connect \/ Store \/ IsValid)
  /\ WF_vars(StopReceiving \/ Join \/ Kill)
  /\ WF_vars(StopSending /\ owner = "invalid")
  /\ WF_vars(CheckFlags \/ ServiceReturns)
  /\ SF_vars(OnConnect \/ OnError)
  /\ SF_vars(ProcessSendQueue)
  /\ WF_vars(ReceiverRuns)

FairSpec == Spec /\ Fairness

-----------------------------------------------------------------------------
(* Properties *)

\* A thread sleeps only while what it waits for has not happened: isValid until the
\* outcome of the attempt, recv until close has gone by.  (The end of the
\* connection alone does not wake recv: see the README.)
SleepersAreWoken ==
  /\ owner = "waiting" => isConnecting
  /\ receiver = "blocked" => /\ owner \notin Closing \ {"closeRecv"}
                             /\ recvQueue = <<>>

\* _pLws leads to a connection that is still there, whenever the library is told
\* to write to it or, for a socket that has been valid, to kill it.  (An attempt that
\* fails before Connect has stored its result leaves a pointer to nothing, and the
\* close that follows uses it: see the README.)
PointerIsLive ==
  /\ pLws /\ receiver # "none" => conn \in {"handshake", "up"}
  /\ (updater = "service" /\ conn = "up" /\ sendQueue # <<>>) => pLws

\* Once close has returned no callback changes the socket any more, so the
\* destructor that follows it leaves nobody behind.
ClosedIsFinal ==
  [][owner = "closed" => UNCHANGED <<flags, updater, sendQueue, arrived>>]_vars

\* isValid answers once an attempt has been started (without one it waits for ever:
\* see the README), and a close returns.
CallsReturn ==
  /\ (owner = "ask") ~> (owner \in {"valid", "invalid"} \/ conn = "none")
  /\ (owner \in Closing) ~> (owner = "closed" /\ receiver \in {"none", "ended"})

\* What is sent goes out, unless the connection or the socket is closed first.
SentGoesOut == (sendQueue # <<>>) ~> (sendQueue = <<>> \/ conn = "down")

\* What the receive thread is given of the messages that arrived, as ISocket
\* promises it; -1 stands for a message given twice or out of order.
Ascending == \A i \in 1 .. Len(received) - 1 : received[i] < received[i + 1]

LastReceived == IF received = <<>> THEN 0 ELSE received[Len(received)]
Returned     == IF Ascending THEN LastReceived ELSE -1

Contract == INSTANCE Socket WITH
  returned <- Returned,
  over     <- conn = "down" \/ owner \in Closing,
  gaveUp   <- receiver = "ended"

ImplementsSocket == Contract!Spec

\* What the proof of it needs, for messages that come in one piece.  The queue holds the
\* last messages that arrived; those before them have been received, or were thrown
\* away by a close.
MessagesInOrder ==
  /\ arriving = 0
  /\ Ascending
  /\ \A i \in DOMAIN recvQueue : recvQueue[i] = arrived - Len(recvQueue) + i
  /\ LastReceived <= arrived - Len(recvQueue)
  /\ owner \in {"join", "kill", "closed"} \/ LastReceived = arrived - Len(recvQueue)
  /\ owner = "valid" => isValid \/ conn = "down"

\* The invariant the proofs use.  How far the attempt is says where the owner may be:
\* a handshake is waited for, a valid socket is not closed yet.
AttemptFitsOwner ==
  /\ owner \in {"none", "connect"} => isConnecting /\ conn = "none"
  /\ conn = "handshake" => isConnecting /\ owner \in {"store", "ask", "waiting"}
  /\ isValid => conn = "up" /\ ~isConnecting /\ owner \in {"store", "ask", "valid"}
  /\ conn \in {"handshake", "up"} => owner = "store" \/ pLws

\* There is something to send, and someone who receives, only once isValid has said yes;
\* when the connection is killed the update thread is gone.
ThreadsFitOwner ==
  /\ sendQueue # <<>> => owner = "valid"
  /\ receiver # "none" => owner \in {"valid"} \cup Closing
  /\ owner \in {"kill", "closed"} => updater \in {"none", "done"}

WebSocketInStep ==
  /\ TypeOK
  /\ SleepersAreWoken /\ PointerIsLive /\ AttemptFitsOwner /\ ThreadsFitOwner

=============================================================================
