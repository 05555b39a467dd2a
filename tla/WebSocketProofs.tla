--------------------------- MODULE WebSocketProofs ----------------------------
(***************************************************************************)
(* Proofs about WebSocket, for every value of its constants: who may       *)
(* sleep, who may use the connection, and what a close leaves; and that it *)
(* implements Socket, for messages in one piece.                           *)
(***************************************************************************)
EXTENDS WebSocket, TLAPS

USE DEF Closing

-----------------------------------------------------------------------------
(* The types *)

\* Taking a message off the receive queue leaves sequences of messages.
LEMMA FrontIsAMessage ==
  ASSUME TypeOK, recvQueue # <<>>, TakeFront
  PROVE  /\ recvQueue' \in Seq(1 .. MaxMessages)
         /\ received' \in Seq(1 .. MaxMessages)
<1>. DEFINE Ids == 1 .. MaxMessages
<1>1. recvQueue \in Seq(Ids) /\ received \in Seq(Ids)
  BY DEF TypeOK
<1>. HIDE DEF Ids
<1>2. Head(recvQueue) \in Ids /\ Tail(recvQueue) \in Seq(Ids)
  BY <1>1
<1>3. recvQueue' \in Seq(Ids) /\ received' \in Seq(Ids)
  BY <1>1, <1>2 DEF TakeFront
<1>. QED BY <1>3 DEF Ids

LEMMA OwnerKeepsTypes == ASSUME TypeOK, OwnerRuns PROVE TypeOK'
<1>. USE WebSocketAssumption DEF TypeOK, threads, flags, queues
<1>1. CASE Construct \/ Connect \/ Store \/ IsValid
  <2>. USE DEF Construct, Connect, Store, IsValid
  <2>1. UNCHANGED <<isValid, queues>>
    BY <1>1
  <2>2. /\ owner' \in {"connect", "ask", "store", "waiting", "valid", "invalid"}
        /\ updater' \in {updater, "check"} /\ receiver' \in {receiver, "idle"}
        /\ conn' \in {conn, "handshake", "down"}
    BY <1>1
  <2>3. isConnecting' \in BOOLEAN /\ pLws' \in BOOLEAN
    BY <1>1
  <2>. QED BY <2>1, <2>2, <2>3
<1>2. CASE Send
  <2>. DEFINE Ids == 1 .. MaxSends
  <2>1. /\ sendQueue \in Seq(Ids) /\ sendQueue' = Append(sendQueue, sent')
        /\ sent' \in Ids /\ sent' \in 0 .. MaxSends
    BY <1>2 DEF Send
  <2>. HIDE DEF Ids
  <2>2. sendQueue' \in Seq(Ids)
    BY <2>1
  <2>3. sendQueue' \in Seq(1 .. MaxSends)
    BY <2>2 DEF Ids
  <2>4. UNCHANGED <<threads, flags, recvQueue, arriving, arrived, received>>
    BY <1>2 DEF Send
  <2>. QED BY <2>1, <2>3, <2>4
<1>3. CASE StopSending \/ StopReceiving \/ Join \/ Kill
  <2>. USE DEF StopSending, StopReceiving, Join, Kill, WakeReceiver
  <2>1. UNCHANGED <<updater, arriving, arrived, received, sent>>
    BY <1>3
  <2>2. owner' \in Closing /\ receiver' \in {receiver, "woken"} /\ conn' \in {conn, "down"}
    BY <1>3
  <2>3. isValid' \in BOOLEAN /\ isConnecting' \in BOOLEAN /\ pLws' \in BOOLEAN
    BY <1>3
  <2>4. sendQueue' \in Seq(1 .. MaxSends) /\ recvQueue' \in Seq(1 .. MaxMessages)
    <3>1. sendQueue' \in {sendQueue, <<>>} /\ recvQueue' \in {recvQueue, <<>>}
      BY <1>3
    <3>2. <<>> \in Seq(1 .. MaxSends) /\ <<>> \in Seq(1 .. MaxMessages)
      OBVIOUS
    <3>. QED BY <3>1, <3>2
  <2>. QED BY <2>1, <2>2, <2>3, <2>4
<1>. QED BY <1>1, <1>2, <1>3 DEF OwnerRuns

LEMMA UpdaterKeepsTypes == ASSUME TypeOK, UpdaterRuns PROVE TypeOK'
<1>. USE WebSocketAssumption DEF TypeOK, threads, flags, queues
<1>1. CASE CheckFlags \/ ServiceReturns \/ OnConnect \/ OnError \/ OnClose
  <2>. USE DEF CheckFlags, ServiceReturns, OnConnect, OnError, OnClose, Dropped, WakeOwner
  <2>1. UNCHANGED <<receiver, queues>>
    BY <1>1
  <2>2. /\ owner' \in {owner, "ask"} /\ updater' \in {updater, "check", "service", "done"}
        /\ conn' \in {conn, "up", "down"}
    BY <1>1
  <2>3. isValid' \in BOOLEAN /\ isConnecting' \in BOOLEAN /\ pLws' \in BOOLEAN
    BY <1>1
  <2>. QED BY <2>1, <2>2, <2>3
<1>2. CASE OnRecv
  <2>. DEFINE Ids == 1 .. MaxMessages
  <2>1. /\ recvQueue \in Seq(Ids) /\ arrived + 1 \in Ids
        /\ recvQueue' = Append(recvQueue, arrived + 1)
    BY <1>2 DEF OnRecv
  <2>. HIDE DEF Ids
  <2>2. recvQueue' \in Seq(Ids)
    BY <2>1
  <2>3. recvQueue' \in Seq(1 .. MaxMessages)
    BY <2>2 DEF Ids
  <2>4. arriving' \in 0 .. MaxPieces /\ arrived' \in 0 .. MaxMessages
    BY <1>2 DEF OnRecv
  <2>5. receiver' \in {"none", "idle", "blocked", "woken", "ended"}
    BY <1>2 DEF OnRecv, WakeReceiver
  <2>6. UNCHANGED <<owner, updater, flags, sendQueue, received, sent>>
    BY <1>2 DEF OnRecv
  <2>. QED BY <2>3, <2>4, <2>5, <2>6
<1>3. CASE ProcessSendQueue
  BY <1>3 DEF ProcessSendQueue
<1>. QED BY <1>1, <1>2, <1>3 DEF UpdaterRuns

LEMMA ReceiverKeepsTypes == ASSUME TypeOK, ReceiverRuns PROVE TypeOK'
<1>1. CASE recvQueue # <<>> /\ TakeFront
  BY <1>1, FrontIsAMessage DEF ReceiverRuns, Recv, RecvWakes, TakeFront, flags, TypeOK
<1>2. CASE UNCHANGED <<recvQueue, received>>
  BY <1>2 DEF ReceiverRuns, Recv, RecvWakes, TakeFront, flags, TypeOK
<1>. QED BY <1>1, <1>2 DEF ReceiverRuns, Recv, RecvWakes

-----------------------------------------------------------------------------
(* The invariant holds initially and is kept by every step *)

LEMMA InitInStep == Init => WebSocketInStep
<1>. SUFFICES ASSUME Init PROVE WebSocketInStep
  OBVIOUS
<1>. USE WebSocketAssumption DEF Init
<1>1. 0 \in 0 .. MaxPieces /\ 0 \in 0 .. MaxMessages /\ 0 \in 0 .. MaxSends
  OBVIOUS
<1>2. /\ sendQueue \in Seq(1 .. MaxSends)
      /\ recvQueue \in Seq(1 .. MaxMessages) /\ received \in Seq(1 .. MaxMessages)
  OBVIOUS
<1>3. TypeOK
  BY <1>1, <1>2 DEF TypeOK
<1>4. SleepersAreWoken /\ PointerIsLive /\ AttemptFitsOwner /\ ThreadsFitOwner
  BY DEF SleepersAreWoken, PointerIsLive, AttemptFitsOwner, ThreadsFitOwner
<1>. QED BY <1>3, <1>4 DEF WebSocketInStep

LEMMA OwnerKeepsInStep == ASSUME WebSocketInStep, OwnerRuns PROVE WebSocketInStep'
<1>. USE DEF WebSocketInStep, SleepersAreWoken, PointerIsLive, AttemptFitsOwner,
            ThreadsFitOwner, threads, flags, queues
<1>1. TypeOK'
  BY OwnerKeepsTypes
<1>2. CASE Construct
  BY <1>1, <1>2 DEF Construct
<1>3. CASE Connect
  BY <1>1, <1>3 DEF Connect
<1>4. CASE Store
  BY <1>1, <1>4 DEF Store
<1>5. CASE IsValid
  BY <1>1, <1>5 DEF IsValid
<1>6. CASE Send
  BY <1>1, <1>6 DEF Send
<1>7. CASE StopSending
  BY <1>1, <1>7 DEF StopSending
<1>8. CASE StopReceiving
  BY <1>1, <1>8 DEF StopReceiving, WakeReceiver
<1>9. CASE Join
  BY <1>1, <1>9 DEF Join
<1>10. CASE Kill
  BY <1>1, <1>10 DEF Kill
<1>. QED BY <1>2, <1>3, <1>4, <1>5, <1>6, <1>7, <1>8, <1>9, <1>10 DEF OwnerRuns

LEMMA UpdaterKeepsInStep == ASSUME WebSocketInStep, UpdaterRuns PROVE WebSocketInStep'
<1>. USE DEF WebSocketInStep, SleepersAreWoken, PointerIsLive, AttemptFitsOwner,
            ThreadsFitOwner, threads, flags, queues
<1>1. TypeOK'
  BY UpdaterKeepsTypes
<1>2. CASE CheckFlags \/ ServiceReturns
  BY <1>1, <1>2 DEF CheckFlags, ServiceReturns
<1>3. CASE OnConnect
  BY <1>1, <1>3 DEF OnConnect, WakeOwner
<1>4. CASE OnError \/ OnClose
  BY <1>1, <1>4 DEF OnError, OnClose, Dropped, WakeOwner
<1>5. CASE OnRecv
  BY <1>1, <1>5 DEF OnRecv, WakeReceiver
<1>6. CASE ProcessSendQueue
  BY <1>1, <1>6 DEF ProcessSendQueue
<1>. QED BY <1>2, <1>3, <1>4, <1>5, <1>6 DEF UpdaterRuns

LEMMA ReceiverKeepsInStep == ASSUME WebSocketInStep, ReceiverRuns PROVE WebSocketInStep'
<1>. USE DEF WebSocketInStep, SleepersAreWoken, PointerIsLive, AttemptFitsOwner,
            ThreadsFitOwner, flags
<1>1. TypeOK'
  BY ReceiverKeepsTypes
<1>2. CASE Recv
  BY <1>1, <1>2 DEF Recv, TakeFront
<1>3. CASE RecvWakes
  BY <1>1, <1>3 DEF RecvWakes, TakeFront
<1>. QED BY <1>2, <1>3 DEF ReceiverRuns

LEMMA NextKeepsInStep == WebSocketInStep /\ [Next]_vars => WebSocketInStep'
<1>1. ASSUME WebSocketInStep, UNCHANGED vars PROVE WebSocketInStep'
  BY <1>1 DEF WebSocketInStep, TypeOK, SleepersAreWoken, PointerIsLive, AttemptFitsOwner,
              ThreadsFitOwner, vars, threads, flags, queues
<1>. QED BY <1>1, OwnerKeepsInStep, UpdaterKeepsInStep, ReceiverKeepsInStep DEF Next

-----------------------------------------------------------------------------
(* The theorems *)

\* Nobody sleeps on what has already happened, and the pointer the library is given
\* leads to a live connection, whatever the server, the network and the app do.
THEOREM WebSocketStaysInStep == Spec => []WebSocketInStep
BY InitInStep, NextKeepsInStep, PTL DEF Spec

\* After close no callback of the library changes the socket that is about to be deleted.
THEOREM CloseIsFinal == Spec => ClosedIsFinal
<1>1. ASSUME WebSocketInStep, [Next]_vars, owner = "closed"
      PROVE  UNCHANGED <<flags, updater, sendQueue, arrived>>
  <2>1. updater \in {"none", "done"}
    BY <1>1 DEF WebSocketInStep, ThreadsFitOwner
  <2>2. CASE UNCHANGED vars
    BY <2>2 DEF vars, threads, flags, queues
  <2>3. ~OwnerRuns /\ ~UpdaterRuns
    BY <1>1, <2>1 DEF OwnerRuns, Construct, Connect, Store, IsValid, Send, StopSending,
         StopReceiving, Join, Kill, UpdaterRuns, CheckFlags, ServiceReturns, OnConnect,
         OnError, OnClose, Dropped, OnRecv, ProcessSendQueue
  <2>4. CASE ReceiverRuns
    BY <2>4 DEF ReceiverRuns, Recv, RecvWakes, flags
  <2>. QED BY <1>1, <2>2, <2>3, <2>4 DEF Next
<1>2. WebSocketInStep /\ [Next]_vars
        => [owner = "closed" => UNCHANGED <<flags, updater, sendQueue, arrived>>]_vars
  BY <1>1
<1>. QED BY <1>2, WebSocketStaysInStep, PTL DEF Spec, ClosedIsFinal

-----------------------------------------------------------------------------
(* The refinement, for messages that come in one piece *)

LEMMA LastIsNat == TypeOK => LastReceived \in Nat
<1>. SUFFICES ASSUME TypeOK, received # <<>> PROVE received[Len(received)] \in Nat
  BY DEF LastReceived
<1>. DEFINE Ids == 1 .. MaxMessages
<1>1. received \in Seq(Ids) /\ \A m \in Ids : m \in Nat
  BY DEF TypeOK
<1>. HIDE DEF Ids
<1>2. received[Len(received)] \in Ids
  BY <1>1
<1>. QED BY <1>1, <1>2

LEMMA InitInOrder == Init => MessagesInOrder
<1>. SUFFICES ASSUME Init PROVE MessagesInOrder
  OBVIOUS
<1>1. /\ received = <<>> /\ recvQueue = <<>> /\ arrived = 0 /\ arriving = 0
      /\ owner = "none" /\ Len(<<>>) = 0 /\ 1 .. 0 - 1 = {}
  BY DEF Init
<1>2. DOMAIN recvQueue = {} /\ Len(recvQueue) = 0 /\ 1 .. Len(received) - 1 = {}
  BY <1>1
<1>3. Ascending /\ \A i \in DOMAIN recvQueue : recvQueue[i] = arrived - Len(recvQueue) + i
  BY <1>2 DEF Ascending
<1>4. LastReceived = 0
  BY <1>1 DEF LastReceived
<1>5. LastReceived = arrived - Len(recvQueue)
  <2>1. LastReceived = 0 /\ arrived = 0 /\ Len(recvQueue) = 0
    BY <1>1, <1>2, <1>4
  <2>. QED BY <2>1
<1>6. LastReceived <= arrived - Len(recvQueue)
  BY <1>4, <1>5
<1>. QED BY <1>1, <1>3, <1>5, <1>6 DEF MessagesInOrder

\* A message that recv takes is the one after those that were received or thrown away.
LEMMA FrontIsNext ==
  ASSUME TypeOK, MessagesInOrder, recvQueue # <<>>, TakeFront, UNCHANGED arrived
  PROVE  /\ Ascending'
         /\ \A i \in DOMAIN recvQueue' : recvQueue'[i] = arrived - Len(recvQueue') + i
         /\ LastReceived' = arrived - Len(recvQueue) + 1
         /\ LastReceived' = arrived - Len(recvQueue')
         /\ LastReceived' <= arrived
<1>. DEFINE Ids == 1 .. MaxMessages
<1>1. /\ recvQueue \in Seq(Ids) /\ received \in Seq(Ids) /\ arrived \in Nat
      /\ \A m \in Ids : m \in Nat
  BY DEF TypeOK
<1>2. /\ \A i \in DOMAIN recvQueue : recvQueue[i] = arrived - Len(recvQueue) + i
      /\ \A i \in 1 .. Len(received) - 1 : received[i] < received[i + 1]
      /\ received # <<>> => received[Len(received)] <= arrived - Len(recvQueue)
  BY DEF MessagesInOrder, Ascending, LastReceived
<1>3. received' = Append(received, Head(recvQueue)) /\ recvQueue' = Tail(recvQueue)
  BY DEF TakeFront
<1>. HIDE DEF Ids
<1>4. /\ Len(recvQueue) \in Nat \ {0} /\ DOMAIN recvQueue = 1 .. Len(recvQueue)
      /\ Head(recvQueue) = recvQueue[1] /\ recvQueue[1] \in Ids
  BY <1>1
<1>5. recvQueue[1] = arrived - Len(recvQueue) + 1
  BY <1>2, <1>4
<1>6. /\ Len(recvQueue') = Len(recvQueue) - 1 /\ DOMAIN recvQueue' = 1 .. Len(recvQueue')
      /\ \A i \in 1 .. Len(recvQueue') : recvQueue'[i] = recvQueue[i + 1]
  BY <1>1, <1>3, <1>4
<1>7. \A i \in DOMAIN recvQueue' : recvQueue'[i] = arrived - Len(recvQueue') + i
  <2>. SUFFICES ASSUME NEW i \in 1 .. Len(recvQueue')
                PROVE  recvQueue'[i] = arrived - Len(recvQueue') + i
    BY <1>6
  <2>1. i + 1 \in DOMAIN recvQueue
    BY <1>4, <1>6
  <2>2. recvQueue'[i] = arrived - Len(recvQueue) + (i + 1)
    BY <1>2, <1>6, <2>1
  <2>. QED BY <1>1, <1>4, <1>6, <2>2
<1>8. /\ Len(received) \in Nat /\ Len(received') = Len(received) + 1
      /\ received'[Len(received')] = recvQueue[1]
      /\ \A i \in 1 .. Len(received) : received'[i] = received[i] /\ received[i] \in Ids
  BY <1>1, <1>3, <1>4
<1>9. \A i \in 1 .. Len(received') - 1 : received'[i] < received'[i + 1]
  <2>. SUFFICES ASSUME NEW i \in 1 .. Len(received') - 1
                PROVE  received'[i] < received'[i + 1]
    OBVIOUS
  <2>1. CASE i < Len(received)
    <3>1. received'[i] = received[i] /\ received'[i + 1] = received[i + 1]
      BY <1>8, <2>1
    <3>2. received[i] < received[i + 1]
      BY <1>2, <1>8, <2>1
    <3>. QED BY <3>1, <3>2
  <2>2. CASE i = Len(received)
    <3>1. received # <<>> /\ received'[i] = received[Len(received)]
      BY <1>8, <2>2
    <3>2. received'[i] <= arrived - Len(recvQueue) /\ received'[i] \in Nat
      BY <1>1, <1>2, <1>8, <2>2, <3>1
    <3>3. received'[i + 1] = arrived - Len(recvQueue) + 1
      BY <1>5, <1>8, <2>2
    <3>. QED BY <1>1, <1>4, <3>2, <3>3
  <2>. QED BY <1>8, <2>1, <2>2
<1>10. LastReceived' = recvQueue[1]
  <2>1. received' # <<>>
    BY <1>8
  <2>. QED BY <1>8, <2>1 DEF LastReceived
<1>. QED BY <1>1, <1>4, <1>5, <1>6, <1>7, <1>9, <1>10 DEF Ascending

\* A message that arrives is the last of the queue.
LEMMA ArrivalIsLast ==
  ASSUME TypeOK, MessagesInOrder, recvQueue' = Append(recvQueue, arrived + 1),
         arrived' = arrived + 1
  PROVE  /\ \A i \in DOMAIN recvQueue' : recvQueue'[i] = arrived' - Len(recvQueue') + i
         /\ arrived' - Len(recvQueue') = arrived - Len(recvQueue)
<1>. DEFINE Ids == 1 .. MaxMessages
<1>1. recvQueue \in Seq(Ids) /\ arrived \in Nat
  BY DEF TypeOK
<1>2. \A i \in DOMAIN recvQueue : recvQueue[i] = arrived - Len(recvQueue) + i
  BY DEF MessagesInOrder
<1>. HIDE DEF Ids
<1>3. /\ Len(recvQueue) \in Nat /\ Len(recvQueue') = Len(recvQueue) + 1
      /\ DOMAIN recvQueue = 1 .. Len(recvQueue)
      /\ DOMAIN recvQueue' = 1 .. Len(recvQueue) + 1
      /\ \A i \in 1 .. Len(recvQueue) : recvQueue'[i] = recvQueue[i]
      /\ recvQueue'[Len(recvQueue) + 1] = arrived + 1
  BY <1>1
<1>4. ASSUME NEW i \in DOMAIN recvQueue'
      PROVE  recvQueue'[i] = arrived' - Len(recvQueue') + i
  <2>1. CASE i \in 1 .. Len(recvQueue)
    BY <1>1, <1>2, <1>3, <2>1
  <2>2. CASE i = Len(recvQueue) + 1
    BY <1>1, <1>3, <2>2
  <2>. QED BY <1>3, <1>4, <2>1, <2>2
<1>. QED BY <1>1, <1>3, <1>4

\* What the steps that leave the messages alone have to preserve.
LEMMA MessagesUntouched ==
  ASSUME MessagesInOrder, UNCHANGED <<recvQueue, arriving, arrived, received>>,
         owner \in {"join", "kill", "closed"} => owner' \in {"join", "kill", "closed"},
         owner' = "valid" => isValid' \/ conn' = "down"
  PROVE  MessagesInOrder'
BY DEF MessagesInOrder, Ascending, LastReceived

LEMMA NextKeepsInOrder ==
  ASSUME MaxPieces = 1, WebSocketInStep, MessagesInOrder, [Next]_vars
  PROVE  MessagesInOrder'
<1>. USE DEF threads, flags, queues
<1>1. TypeOK /\ AttemptFitsOwner /\ ThreadsFitOwner
  BY DEF WebSocketInStep
<1>2. CASE UNCHANGED vars
  BY <1>2, MessagesUntouched DEF vars, MessagesInOrder
<1>3. CASE Construct \/ Connect \/ Store \/ IsValid \/ Send \/ StopSending \/ Join \/ Kill
  BY <1>1, <1>3, MessagesUntouched DEF Construct, Connect, Store, IsValid, Send, StopSending,
     Join, Kill, MessagesInOrder, AttemptFitsOwner
<1>4. CASE StopReceiving
  <2>1. /\ recvQueue' = <<>> /\ owner' = "join"
        /\ UNCHANGED <<arriving, arrived, received>>
    BY <1>4 DEF StopReceiving
  <2>2. Len(recvQueue) \in Nat /\ LastReceived \in Nat /\ arrived \in Nat
    BY <1>1, LastIsNat DEF TypeOK
  <2>3. LastReceived' <= arrived' - Len(recvQueue')
    BY <2>1, <2>2 DEF MessagesInOrder, LastReceived
  <2>. QED BY <2>1, <2>3 DEF MessagesInOrder, Ascending
<1>5. CASE CheckFlags \/ ServiceReturns \/ OnConnect \/ OnError \/ OnClose \/ ProcessSendQueue
  BY <1>5, MessagesUntouched DEF CheckFlags, ServiceReturns, OnConnect, OnError, OnClose,
     Dropped, WakeOwner, ProcessSendQueue, MessagesInOrder
<1>6. CASE OnRecv
  <2>1. /\ recvQueue' = Append(recvQueue, arrived + 1) /\ arrived' = arrived + 1
        /\ arriving' = 0 /\ UNCHANGED <<owner, isValid, conn, received>>
    BY <1>6 DEF OnRecv, MessagesInOrder
  <2>2. Ascending' /\ LastReceived' = LastReceived
    BY <2>1 DEF MessagesInOrder, Ascending, LastReceived
  <2>3. /\ \A i \in DOMAIN recvQueue' : recvQueue'[i] = arrived' - Len(recvQueue') + i
        /\ arrived' - Len(recvQueue') = arrived - Len(recvQueue)
    BY <1>1, <2>1, ArrivalIsLast
  <2>4. /\ LastReceived' <= arrived' - Len(recvQueue')
        /\ owner' \in {"join", "kill", "closed"} \/ LastReceived' = arrived' - Len(recvQueue')
    BY <2>1, <2>2, <2>3 DEF MessagesInOrder
  <2>5. owner' = "valid" => isValid' \/ conn' = "down"
    BY <2>1 DEF MessagesInOrder
  <2>6. arriving' = 0
    BY <2>1
  <2>. QED BY <2>2, <2>3, <2>4, <2>5, <2>6 DEF MessagesInOrder
<1>7. CASE ReceiverRuns
  <2>1. UNCHANGED <<owner, isValid, conn, arriving, arrived>>
    BY <1>7 DEF ReceiverRuns, Recv, RecvWakes
  <2>2. CASE recvQueue # <<>> /\ TakeFront
    <3>1. /\ Ascending'
          /\ \A i \in DOMAIN recvQueue' : recvQueue'[i] = arrived - Len(recvQueue') + i
          /\ LastReceived' = arrived - Len(recvQueue')
      BY <1>1, <2>1, <2>2, FrontIsNext
    <3>2. arrived - Len(recvQueue') \in Int
      BY <1>1, <2>2, FrontIsAMessage DEF TypeOK
    <3>3. /\ LastReceived' <= arrived' - Len(recvQueue')
          /\ LastReceived' = arrived' - Len(recvQueue')
      BY <2>1, <3>1, <3>2
    <3>4. arriving' = 0 /\ (owner' = "valid" => isValid' \/ conn' = "down")
      BY <2>1 DEF MessagesInOrder
    <3>5. \A i \in DOMAIN recvQueue' : recvQueue'[i] = arrived' - Len(recvQueue') + i
      BY <2>1, <3>1
    <3>. QED BY <3>1, <3>3, <3>4, <3>5 DEF MessagesInOrder
  <2>3. CASE UNCHANGED <<recvQueue, received>>
    BY <2>1, <2>3, MessagesUntouched DEF MessagesInOrder
  <2>. QED BY <1>7, <2>2, <2>3 DEF ReceiverRuns, Recv, RecvWakes
<1>. QED BY <1>2, <1>3, <1>4, <1>5, <1>6, <1>7 DEF Next, OwnerRuns, UpdaterRuns

LEMMA StepIsSocketStep ==
  ASSUME MaxPieces = 1, WebSocketInStep, MessagesInOrder, MessagesInOrder', [Next]_vars
  PROVE  [Contract!Next]_(Contract!vars)
<1>. DEFINE over == conn = "down" \/ owner \in Closing
            gaveUp == receiver = "ended"
<1>. USE DEF threads, flags, queues
<1>1. TypeOK /\ AttemptFitsOwner /\ ThreadsFitOwner /\ Ascending /\ Ascending'
  BY DEF WebSocketInStep, MessagesInOrder
<1>2. arrived \in Nat /\ LastReceived \in Nat
  BY <1>1, LastIsNat DEF TypeOK
<1>3. UNCHANGED received => UNCHANGED LastReceived
  BY DEF LastReceived
<1>last. Returned = LastReceived /\ Returned' = LastReceived'
  BY <1>1 DEF Returned
<1>4. CASE OnRecv
  <2>1. arrived' = arrived + 1 /\ UNCHANGED <<LastReceived, over, gaveUp>>
    BY <1>3, <1>4 DEF OnRecv, MessagesInOrder, WakeReceiver
  <2>2. arrived' \in Nat /\ arrived' > arrived
    BY <1>2, <2>1
  <2>. QED BY <1>1, <2>1, <2>2, <1>last DEF Contract!Next, Contract!Arrive
<1>5. CASE ReceiverRuns /\ recvQueue # <<>> /\ TakeFront
  <2>1. UNCHANGED <<arrived, over>> /\ ~gaveUp /\ ~gaveUp'
    BY <1>5 DEF ReceiverRuns, Recv, RecvWakes, TakeFront
  <2>2. LastReceived' = arrived - Len(recvQueue) + 1 /\ LastReceived' <= arrived
    BY <1>1, <1>5, <2>1, FrontIsNext
  <2>3. /\ LastReceived <= arrived - Len(recvQueue) /\ Len(recvQueue) \in Nat
        /\ over \/ LastReceived = arrived - Len(recvQueue)
    BY <1>1 DEF MessagesInOrder, TypeOK
  <2>4. /\ LastReceived' \in LastReceived + 1 .. arrived
        /\ over \/ LastReceived' = LastReceived + 1
    BY <1>2, <2>2, <2>3
  <2>. QED BY <1>1, <2>1, <2>4, <1>last DEF Contract!Next, Contract!Return
<1>6. CASE ReceiverRuns /\ UNCHANGED <<recvQueue, received>>
  <2>1. UNCHANGED <<arrived, LastReceived, over>>
    BY <1>3, <1>6 DEF ReceiverRuns, Recv, RecvWakes
  <2>2. CASE UNCHANGED gaveUp
    BY <1>1, <2>1, <2>2, <1>last DEF Contract!vars
  <2>3. CASE ~UNCHANGED gaveUp
    <3>1. gaveUp' /\ over
      BY <1>1, <1>6, <2>3 DEF ReceiverRuns, Recv, RecvWakes, TakeFront, MessagesInOrder,
         ThreadsFitOwner
    <3>. QED BY <1>1, <2>1, <3>1, <1>last DEF Contract!Next, Contract!GiveUp
  <2>. QED BY <2>2, <2>3
<1>7. CASE OwnerRuns \/ (UpdaterRuns /\ ~OnRecv) \/ UNCHANGED vars
  <2>1. UNCHANGED <<arrived, received>>
    BY <1>7 DEF OwnerRuns, Construct, Connect, Store, IsValid, Send, StopSending, StopReceiving,
       Join, Kill, UpdaterRuns, CheckFlags, ServiceReturns, OnConnect, OnError, OnClose,
       Dropped, ProcessSendQueue, vars
  <2>2. UNCHANGED gaveUp
    BY <1>1, <1>7 DEF OwnerRuns, Construct, Connect, Store, IsValid, Send, StopSending,
       StopReceiving, Join, Kill, UpdaterRuns, CheckFlags, ServiceReturns, OnConnect, OnError,
       OnClose, Dropped, ProcessSendQueue, WakeReceiver, ThreadsFitOwner, vars
  <2>3. over => over'
    BY <1>1, <1>7 DEF OwnerRuns, Construct, Connect, Store, IsValid, Send, StopSending,
       StopReceiving, Join, Kill, UpdaterRuns, CheckFlags, ServiceReturns, OnConnect, OnError,
       OnClose, Dropped, WakeOwner, ProcessSendQueue, AttemptFitsOwner, vars
  <2>4. CASE UNCHANGED over
    BY <1>1, <1>3, <2>1, <2>2, <2>4, <1>last DEF Contract!vars
  <2>5. CASE ~over /\ over'
    BY <1>1, <1>3, <2>1, <2>2, <2>5, <1>last DEF Contract!Next, Contract!End
  <2>. QED BY <2>3, <2>4, <2>5
<1>. QED BY <1>4, <1>5, <1>6, <1>7 DEF Next, ReceiverRuns, Recv, RecvWakes

\* For messages that come in one piece, RTTComms gets from DefaultWebSocket what it relies
\* on: each message once and in order, none skipped while the connection is up, and an
\* empty string only when it is over, however recv races with the callbacks and close.
THEOREM WebSocketImplementsSocket == ASSUME MaxPieces = 1 PROVE Spec => ImplementsSocket
<1>1. Init => Contract!Init
  <2>. SUFFICES ASSUME Init PROVE Contract!Init
    OBVIOUS
  <2>1. received = <<>> /\ Ascending
    BY InitInOrder DEF Init, MessagesInOrder
  <2>2. Returned = 0
    BY <2>1 DEF Returned, LastReceived
  <2>. QED BY <2>2 DEF Init, Contract!Init
<1>2. WebSocketInStep /\ MessagesInOrder /\ [Next]_vars => MessagesInOrder'
  BY NextKeepsInOrder
<1>3. WebSocketInStep /\ MessagesInOrder /\ MessagesInOrder' /\ [Next]_vars
        => [Contract!Next]_(Contract!vars)
  BY StepIsSocketStep
<1>. QED BY <1>1, <1>2, <1>3, InitInOrder, WebSocketStaysInStep, PTL
         DEF Spec, ImplementsSocket, Contract!Spec

=============================================================================
