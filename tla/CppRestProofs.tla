----------------------------- MODULE CppRestProofs -----------------------------
(***************************************************************************)
(* Proofs about CppRest, for every number of calls, sessions, packets and  *)
(* attempts, every bundle size and every set of answers.  The queues and   *)
(* the histories are kept apart from the rest of the state: the steps      *)
(* change them in five ways, and the rest does not depend on them but for  *)
(* whether the bundle authenticates.                                       *)
(***************************************************************************)
EXTENDS CppRest, SubsequenceProofs, SequenceTheorems

Numbers == 1 .. MaxCalls

\* The types of the queues and of the histories.
CallTypes ==
  /\ messageQueue \in Seq(Call) /\ inProgress \in Seq(Call)
  /\ answered \in Seq(Numbers) /\ again \in Seq(Numbers) /\ made \in Seq(Numbers)

\* The types of the rest.
PlainTypes ==
  /\ queueThread \in {"off", "top", "check", "toWait", "fill", "inner", "http", "sleep"} \cup Waiting
  /\ app \in {"idle", "notify", "join"}
  /\ packetId \in 0 .. MaxPackets
  /\ retryCount \in Nat
  /\ isInitialized \in BOOLEAN /\ isAuthenticated \in BOOLEAN
  /\ heartbeat \in BOOLEAN /\ tearDown \in BOOLEAN
  /\ sessions \in 0 .. MaxSessions /\ issued \in 0 .. MaxCalls
  /\ attempts \in Nat /\ allowance \in Nat

LEMMA TypesSplit == TypeOK <=> CallTypes /\ PlainTypes
BY DEF TypeOK, CallTypes, PlainTypes, Numbers

LEMMA TypesSplitNext == TypeOK' <=> CallTypes' /\ PlainTypes'
BY TypesSplit, PTL

-----------------------------------------------------------------------------
(* The queues *)

\* The ids that are called back are numbers of calls: heartbeats are left out.
LEMMA IdsAreNumbers ==
  ASSUME NEW bundle \in Seq(Call)
  PROVE  Ids(bundle) \in Seq(Numbers)
<1>. DEFINE S == {i \in DOMAIN bundle : bundle[i].op \notin {"heartbeat", "marker"}}
            called == WithCallback(bundle)
<1>1. S \in SUBSET (DOMAIN bundle)
  OBVIOUS
<1>2. called = Select(bundle, S)
  BY DEF WithCallback
<1>. HIDE DEF called
<1>3. /\ called \in Seq(Call)
      /\ Len(called) = Cardinality(S)
      /\ \A k \in 1 .. Cardinality(S) : InOrder(S)[k] \in S /\ called[k] = bundle[InOrder(S)[k]]
  BY <1>1, <1>2, SelectType
<1>4. \A k \in 1 .. Len(called) : called[k] \in Call /\ called[k].op # "heartbeat"
  BY <1>3
<1>5. \A k \in 1 .. Len(called) : called[k].id \in Numbers
  BY <1>4 DEF Call, Numbers
<1>6. DOMAIN called = 1 .. Len(called) /\ Len(called) \in Nat
  BY <1>3
<1>7. Ids(bundle) = [k \in 1 .. Len(called) |-> called[k].id]
  BY <1>6 DEF Ids, called
<1>. QED BY <1>5, <1>6, <1>7

\* The five ways: a call is added, a heartbeat is added, the front of the queue is taken
\* or tossed, the bundle is called back, and nothing.
LEMMA AddKeepsCalls ==
  ASSUME CallTypes, PlainTypes, AddToQueue
  PROVE  CallTypes'
<1>1. issued' \in Numbers
  BY CppRestAssumption DEF PlainTypes, AddToQueue, Numbers
<1>2. PICK op \in Ops : /\ messageQueue' = Append(messageQueue, [id |-> issued', op |-> op])
                        /\ made' = IF op = "marker" THEN made ELSE Append(made, issued')
  BY DEF AddToQueue
<1>3. [id |-> issued', op |-> op] \in Call
  BY <1>1, CppRestAssumption DEF Call, Numbers
<1>4. messageQueue' \in Seq(Call) /\ made' \in Seq(Numbers)
  BY <1>1, <1>2, <1>3 DEF CallTypes
<1>. QED BY <1>4 DEF CallTypes, AddToQueue, told

LEMMA HeartbeatKeepsCalls ==
  ASSUME CallTypes, WaitTimesOut
  PROVE  CallTypes'
<1>1. [id |-> 0, op |-> "heartbeat"] \in Call
  BY DEF Call
<1>. QED BY <1>1 DEF CallTypes, WaitTimesOut, counts, told

LEMMA FillKeepsCalls ==
  ASSUME CallTypes, NoMarkerInBundle, Fill
  PROVE  CallTypes' /\ NoMarkerInBundle'
<1>1. CASE UNCHANGED calls
  BY <1>1 DEF Fill, CallTypes, NoMarkerInBundle, calls, counts, told
<1>2. CASE messageQueue # <<>> /\ messageQueue' = Tail(messageQueue)
  <2>1. Head(messageQueue) \in Call /\ messageQueue' \in Seq(Call)
    BY <1>2 DEF CallTypes
  <2>2. \/ inProgress' = inProgress
        \/ /\ inProgress' = Append(inProgress, Head(messageQueue))
           /\ Head(messageQueue).op # "marker"
    BY <1>2 DEF Fill, Bundled, calls
  <2>3. CASE inProgress' = inProgress
    BY <2>1, <2>3 DEF Fill, CallTypes, NoMarkerInBundle, counts, told
  <2>4. CASE /\ inProgress' = Append(inProgress, Head(messageQueue))
             /\ Head(messageQueue).op # "marker"
    <3>1. inProgress \in Seq(Call) /\ inProgress' \in Seq(Call)
      BY <2>1, <2>4 DEF CallTypes
    <3>2. ASSUME NEW i \in DOMAIN inProgress' PROVE inProgress'[i].op # "marker"
      <4>1. \/ i \in DOMAIN inProgress /\ inProgress'[i] = inProgress[i]
            \/ inProgress'[i] = Head(messageQueue)
        BY <2>1, <2>4, <3>1
      <4>. QED BY <2>4, <4>1 DEF NoMarkerInBundle
    <3>. QED BY <2>1, <3>1, <3>2 DEF Fill, CallTypes, NoMarkerInBundle, counts, told
  <2>. QED BY <2>2, <2>3, <2>4
<1>. QED BY <1>1, <1>2 DEF Fill

\* What an exception adds to the calls that are called back again.
LEMMA AgainIsOfTheBundle ==
  ASSUME CallTypes, Settle \/ SettleAgain
  PROVE  /\ ReportAll
         /\ Ids(inProgress) \in Seq(Numbers)
         /\ \/ again' = again
            \/ \E called \in 1 .. Len(Ids(inProgress)) :
                 again' = again \o SubSeq(Ids(inProgress), 1, called)
BY IdsAreNumbers DEF CallTypes, Settle, SettleAgain

LEMMA SettleKeepsCalls ==
  ASSUME CallTypes, Settle \/ SettleAgain, UNCHANGED <<messageQueue, made>>
  PROVE  CallTypes' /\ NoMarkerInBundle'
<1>1. ReportAll /\ Ids(inProgress) \in Seq(Numbers)
  BY AgainIsOfTheBundle
<1>2. answered' \in Seq(Numbers)
  BY <1>1 DEF ReportAll, CallTypes
<1>3. again' \in Seq(Numbers)
  <2>. DEFINE ids == Ids(inProgress)
  <2>. HIDE DEF ids
  <2>1. ids \in Seq(Numbers) /\ again \in Seq(Numbers)
    BY <1>1 DEF ids, CallTypes
  <2>2. \A called \in 1 .. Len(ids) : again \o SubSeq(ids, 1, called) \in Seq(Numbers)
    BY <2>1
  <2>. QED BY <2>1, <2>2, AgainIsOfTheBundle DEF ids
<1>. QED BY <1>1, <1>2, <1>3 DEF ReportAll, CallTypes, NoMarkerInBundle

LEMMA NothingKeepsCalls ==
  ASSUME CallTypes, NoMarkerInBundle, UNCHANGED <<calls, told, made>>
  PROVE  CallTypes' /\ NoMarkerInBundle'
BY DEF CallTypes, NoMarkerInBundle, calls, told

\* An answer calls the bundle back, once or with an exception, or leaves it in progress.
LEMMA ReceiveTells ==
  ASSUME Receive
  PROVE  Settle \/ SettleAgain \/ UNCHANGED <<inProgress, told>>
BY DEF Receive, Results, Ignored, PutOff, Busy, Failed

LEMMA NextKeepsCalls ==
  ASSUME CallTypes, PlainTypes, NoMarkerInBundle, [Next]_vars
  PROVE  CallTypes' /\ NoMarkerInBundle'
<1>1. CASE AddToQueue
  BY <1>1, AddKeepsCalls DEF AddToQueue, NoMarkerInBundle
<1>2. CASE WaitTimesOut
  BY <1>2, HeartbeatKeepsCalls DEF WaitTimesOut, NoMarkerInBundle
<1>3. CASE Fill
  BY <1>3, FillKeepsCalls
<1>4. CASE Send
  BY <1>4, SettleKeepsCalls, NothingKeepsCalls DEF Send, calls
<1>5. CASE Receive
  <2>1. /\ UNCHANGED <<messageQueue, made>>
        /\ Settle \/ SettleAgain \/ UNCHANGED <<inProgress, told>>
    BY <1>5, ReceiveTells DEF Receive
  <2>. QED BY <2>1, SettleKeepsCalls, NothingKeepsCalls DEF calls
<1>6. CASE UNCHANGED <<calls, told, made>>
  BY <1>6, NothingKeepsCalls
<1>. QED
  BY <1>1, <1>2, <1>3, <1>4, <1>5, <1>6
     DEF Next, AppRuns, QueueThreadRuns, vars, calls, counts, told, Initialize,
         ResetCommunication, ResetNotifies, ResetJoins, Top, Check, GoWait, StopsSending, PutOff, SleepEnds

-----------------------------------------------------------------------------
(* The threads and the attempts *)

LEMMA SendAttemptsType == SendAttempts \in 1 .. MaxSendAttempts
BY CppRestAssumption DEF SendAttempts

\* Waking the queue thread moves it only if it waits.
LEMMA WakeFits ==
  WakeQueueThread = IF queueThread \in Waiting THEN "check" ELSE queueThread
BY DEF WakeQueueThread

LEMMA AppKeepsThreads ==
  ASSUME PlainTypes, ThreadFitsSession, AttemptsCounted, AppRuns
  PROVE  PlainTypes' /\ ThreadFitsSession' /\ AttemptsCounted'
<1>. USE CppRestAssumption DEF PlainTypes, ThreadFitsSession, calls, flags, counts, tries, Waiting
<1>1. SendAttempts' = SendAttempts
  BY DEF AppRuns, Initialize, AddToQueue, ResetCommunication, ResetNotifies, ResetJoins,
         SendAttempts, Authenticates
<1>. USE <1>1 DEF AttemptsCounted
<1>2. CASE Initialize
  <2>1. /\ app = "idle" /\ ~isInitialized /\ isInitialized' = TRUE
        /\ isAuthenticated' = FALSE /\ queueThread' = "top"
        /\ sessions' \in 0 .. MaxSessions
    BY <1>2 DEF Initialize
  <2>2. UNCHANGED <<app, heartbeat, tearDown, packetId, retryCount, issued, tries>>
    BY <1>2 DEF Initialize
  <2>. QED BY <1>1, <2>1, <2>2
<1>3. CASE AddToQueue
  BY <1>3, WakeFits DEF AddToQueue
<1>4. CASE ResetCommunication
  <2>1. /\ app' = "notify" /\ tearDown' = TRUE /\ heartbeat' = FALSE /\ isInitialized
        /\ UNCHANGED <<queueThread, isInitialized, isAuthenticated, counts>>
    BY <1>4 DEF ResetCommunication
  <2>2. ThreadFitsSession' /\ AttemptsCounted'
    BY <1>1, <2>1
  <2>. QED BY <2>1, <2>2
<1>5. CASE ResetNotifies
  BY <1>5, WakeFits DEF ResetNotifies
<1>6. CASE ResetJoins
  BY <1>6 DEF ResetJoins
<1>. QED BY <1>2, <1>3, <1>4, <1>5, <1>6 DEF AppRuns

\* The steps of the queue thread that leave the bundle alone, or have not sent it yet.
LEMMA TakingKeepsThreads ==
  ASSUME PlainTypes, ThreadFitsSession, AttemptsCounted,
         Top \/ Check \/ GoWait \/ WaitTimesOut \/ Fill \/ StopsSending
  PROVE  PlainTypes' /\ ThreadFitsSession' /\ AttemptsCounted'
<1>. USE CppRestAssumption DEF PlainTypes, ThreadFitsSession, AttemptsCounted, calls, flags,
         counts, tries, Waiting
<1>1. CASE Top
  BY <1>1 DEF Top
<1>5. CASE StopsSending
  BY <1>5, SendAttemptsType DEF StopsSending, PutOff
<1>2. CASE Check \/ GoWait
  BY <1>2 DEF Check, GoWait, Wait
<1>3. CASE WaitTimesOut
  BY <1>3 DEF WaitTimesOut
<1>4. CASE Fill
  BY <1>4 DEF Fill
<1>. QED BY <1>1, <1>2, <1>3, <1>4, <1>5

\* An attempt is counted when it is made, and the retry count when it has failed.
LEMMA SendingKeepsThreads ==
  ASSUME PlainTypes, ThreadFitsSession, AttemptsCounted, Send \/ Receive \/ SleepEnds
  PROVE  PlainTypes' /\ ThreadFitsSession' /\ AttemptsCounted'
<1>. USE CppRestAssumption, SendAttemptsType
     DEF PlainTypes, ThreadFitsSession, flags, counts, tries, Waiting
<1>1. inProgress' = inProgress => SendAttempts' = SendAttempts
  BY DEF SendAttempts, Authenticates
<1>2. Settle \/ SettleAgain => queueThread' = "top" /\ attempts' = 0 /\ allowance' = 0
  BY DEF Settle, SettleAgain, ReportAll
<1>. USE DEF AttemptsCounted
<1>3. CASE Send
  BY <1>1, <1>2, <1>3 DEF Send
<1>4. CASE SleepEnds
  BY <1>1, <1>4 DEF SleepEnds, calls
<1>5. CASE Receive
  <2>1. PICK a \in Answers : Results(a) \/ Ignored(a) \/ Busy(a) \/ Failed(a)
    BY <1>5 DEF Receive
  <2>2. UNCHANGED <<app, isInitialized, tearDown, packetId, sessions, issued>>
    BY <1>5 DEF Receive
  <2>3. isInitialized
    BY <1>5 DEF Receive
  <2>4. CASE Results(a)
    <3>1. /\ retryCount' = 0 /\ attempts' = 0 /\ allowance' = 0 /\ queueThread' = "top"
          /\ heartbeat' \in BOOLEAN /\ isAuthenticated' \in BOOLEAN
      BY <1>2, <2>4 DEF Results, NewSession, Authenticates
    <3>. QED BY <2>2, <2>3, <3>1
  <2>5. CASE Ignored(a)
    BY <1>5, <2>2, <2>3, <2>5 DEF Ignored, PutOff, Receive
  <2>6. CASE Busy(a)
    <3>1. UNCHANGED <<isAuthenticated, heartbeat>> /\ retryCount' \in Nat
      BY <2>6 DEF Busy
    <3>2. \/ queueThread' = "top" /\ attempts' = 0 /\ allowance' = 0
          \/ /\ queueThread' = "sleep" /\ UNCHANGED <<inProgress, tries>>
             /\ retryCount' = retryCount + 1 /\ retryCount' < SendAttempts
      BY <1>2, <2>6 DEF Busy
    <3>. QED BY <1>1, <1>5, <2>2, <2>3, <3>1, <3>2 DEF Receive
  <2>7. CASE Failed(a)
    <3>1. UNCHANGED <<isAuthenticated, heartbeat>> /\ retryCount' \in Nat
      BY <2>7 DEF Failed
    <3>2. queueThread' = "top" /\ attempts' = 0 /\ allowance' = 0
      BY <1>2, <2>7 DEF Failed
    <3>. QED BY <2>2, <2>3, <3>1, <3>2
  <2>. QED BY <2>1, <2>4, <2>5, <2>6, <2>7
<1>. QED BY <1>3, <1>4, <1>5

LEMMA NextKeepsThreads ==
  ASSUME PlainTypes, ThreadFitsSession, AttemptsCounted, [Next]_vars
  PROVE  PlainTypes' /\ ThreadFitsSession' /\ AttemptsCounted'
<1>1. CASE UNCHANGED vars
  BY <1>1 DEF vars, thread, calls, flags, counts, tries, PlainTypes, ThreadFitsSession,
              AttemptsCounted, SendAttempts, Authenticates
<1>. QED
  BY <1>1, AppKeepsThreads, TakingKeepsThreads, SendingKeepsThreads DEF Next, QueueThreadRuns

\* What is counted stays below what the bundle has.
LEMMA CountedIsBounded ==
  ASSUME PlainTypes, AttemptsCounted
  PROVE  AttemptsBounded
<1>1. attempts <= allowance + SendAttempts
  BY SendAttemptsType, CppRestAssumption DEF PlainTypes, AttemptsCounted, Waiting
<1>. QED BY <1>1 DEF AttemptsBounded, SendAttempts

-----------------------------------------------------------------------------
(* The calls *)

HasCallback(call) == call.op \notin {"heartbeat", "marker"}

\* What Ids makes of two bundles one behind the other, and of a single call.
LEMMA IdsConcat ==
  ASSUME NEW s \in Seq(Call), NEW t \in Seq(Call)
  PROVE  Ids(s \o t) = Ids(s) \o Ids(t)
<1>. DEFINE S == {i \in DOMAIN (s \o t) : (s \o t)[i].op \notin {"heartbeat", "marker"}}
            A == {i \in DOMAIN s : s[i].op \notin {"heartbeat", "marker"}}
            B == {i \in DOMAIN t : t[i].op \notin {"heartbeat", "marker"}}
            x == WithCallback(s)
            y == WithCallback(t)
            z == WithCallback(s \o t)
<1>1. /\ s \o t \in Seq(Call) /\ Len(s \o t) = Len(s) + Len(t)
      /\ \A i \in 1 .. Len(s) : (s \o t)[i] = s[i]
      /\ \A i \in 1 .. Len(t) : (s \o t)[Len(s) + i] = t[i]
      /\ Len(s) \in Nat /\ Len(t) \in Nat
      /\ DOMAIN s = 1 .. Len(s) /\ DOMAIN t = 1 .. Len(t)
      /\ DOMAIN (s \o t) = 1 .. Len(s) + Len(t)
  OBVIOUS
<1>2. S \cap DOMAIN s = A
  BY <1>1
<1>3. {i \in DOMAIN t : Len(s) + i \in S} = B
  <2>1. \A i \in DOMAIN t : Len(s) + i \in DOMAIN (s \o t) /\ (s \o t)[Len(s) + i] = t[i]
    BY <1>1
  <2>. QED BY <2>1
<1>4. S \in SUBSET (DOMAIN (s \o t)) /\ A \in SUBSET (DOMAIN s) /\ B \in SUBSET (DOMAIN t)
  OBVIOUS
<1>5. z = Select(s \o t, S) /\ x = Select(s, A) /\ y = Select(t, B)
  BY DEF WithCallback
<1>. HIDE DEF S, A, B, x, y, z
<1>6. z = x \o y
  <2>1. Select(s \o t, S) = Select(s, A) \o Select(t, B)
    BY <1>2, <1>3, <1>4, SelectConcat
  <2>. QED BY <1>5, <2>1
<1>7. x \in Seq(Call) /\ y \in Seq(Call)
  BY <1>4, <1>5, SelectType
<1>8. /\ Ids(s) = [i \in DOMAIN x |-> x[i].id] /\ Ids(t) = [i \in DOMAIN y |-> y[i].id]
      /\ Ids(s \o t) = [i \in DOMAIN (x \o y) |-> (x \o y)[i].id]
  BY <1>6 DEF Ids, x, y, z
<1>9. /\ Ids(s) \in Seq(Numbers) /\ Ids(t) \in Seq(Numbers) /\ Ids(s \o t) \in Seq(Numbers)
  BY <1>1, IdsAreNumbers
<1>10. /\ x \o y \in Seq(Call) /\ Len(x \o y) = Len(x) + Len(y)
       /\ \A i \in 1 .. Len(x) + Len(y) :
            (x \o y)[i] = IF i <= Len(x) THEN x[i] ELSE y[i - Len(x)]
  BY <1>7, ConcatProperties
<1>11. /\ Ids(s) \o Ids(t) \in Seq(Numbers)
       /\ Len(Ids(s) \o Ids(t)) = Len(Ids(s)) + Len(Ids(t))
       /\ \A i \in 1 .. Len(Ids(s)) + Len(Ids(t)) :
            (Ids(s) \o Ids(t))[i] = IF i <= Len(Ids(s)) THEN Ids(s)[i]
                                    ELSE Ids(t)[i - Len(Ids(s))]
  BY <1>9, ConcatProperties
<1>12. Len(Ids(s)) = Len(x) /\ Len(Ids(t)) = Len(y) /\ Len(Ids(s \o t)) = Len(x) + Len(y)
  BY <1>7, <1>8, <1>9, <1>10
<1>13. ASSUME NEW i \in 1 .. Len(x) + Len(y)
       PROVE  Ids(s \o t)[i] = (Ids(s) \o Ids(t))[i]
  <2>1. Ids(s \o t)[i] = (x \o y)[i].id
    BY <1>8, <1>10
  <2>2. CASE i <= Len(x)
    <3>1. i \in DOMAIN x
      BY <1>7, <2>2
    <3>2. (x \o y)[i] = x[i] /\ Ids(s)[i] = x[i].id
      BY <1>8, <1>10, <2>2, <3>1
    <3>3. (Ids(s) \o Ids(t))[i] = Ids(s)[i]
      BY <1>11, <1>12, <2>2
    <3>. QED BY <2>1, <3>2, <3>3
  <2>3. CASE ~(i <= Len(x))
    <3>1. i - Len(x) \in DOMAIN y
      BY <1>7, <2>3
    <3>2. (x \o y)[i] = y[i - Len(x)] /\ Ids(t)[i - Len(x)] = y[i - Len(x)].id
      BY <1>8, <1>10, <2>3, <3>1
    <3>3. (Ids(s) \o Ids(t))[i] = Ids(t)[i - Len(x)]
      BY <1>11, <1>12, <2>3
    <3>. QED BY <2>1, <3>2, <3>3
  <2>. QED BY <2>2, <2>3
<1>. QED BY <1>9, <1>11, <1>12, <1>13, SeqEqual

LEMMA IdsOfFew ==
  /\ Ids(<<>>) = <<>>
  /\ \A c \in Call : Ids(<<c>>) = IF HasCallback(c) THEN <<c.id>> ELSE <<>>
<1>1. Ids(<<>>) = <<>>
  <2>1. WithCallback(<<>>) = Select(<<>>, {})
    BY DEF WithCallback
  <2>2. Select(<<>>, {}) = <<>>
    <3>1. <<>> \in Seq(Call)
      OBVIOUS
    <3>. QED BY <3>1, SelectSmall, Zenon
  <2>. QED BY <2>1, <2>2 DEF Ids
<1>2. ASSUME NEW c \in Call
      PROVE  Ids(<<c>>) = IF HasCallback(c) THEN <<c.id>> ELSE <<>>
  <2>1. <<c>> \in Seq(Call) /\ Len(<<c>>) = 1
    OBVIOUS
  <2>2. CASE HasCallback(c)
    <3>1. {i \in DOMAIN <<c>> : <<c>>[i].op \notin {"heartbeat", "marker"}} = {1}
      BY <2>2 DEF HasCallback
    <3>2. WithCallback(<<c>>) = <<c>>
      BY <2>1, <3>1, SelectSmall DEF WithCallback
    <3>. QED BY <2>2, <3>2 DEF Ids
  <2>3. CASE ~HasCallback(c)
    <3>1. {i \in DOMAIN <<c>> : <<c>>[i].op \notin {"heartbeat", "marker"}} = {}
      BY <2>3 DEF HasCallback
    <3>2. WithCallback(<<c>>) = <<>>
      BY <2>1, <3>1, SelectSmall DEF WithCallback
    <3>. QED BY <2>3, <3>2 DEF Ids
  <2>. QED BY <2>2, <2>3
<1>. QED BY <1>1, <1>2

\* A call behind the queue, and one that moves from the queue to the bundle or is tossed.
LEMMA IdsBehind ==
  ASSUME CallTypes, NEW c \in Call
  PROVE  Ids(inProgress \o Append(messageQueue, c))
           = IF HasCallback(c) THEN Append(Ids(inProgress \o messageQueue), c.id)
             ELSE Ids(inProgress \o messageQueue)
<1>. DEFINE all == inProgress \o messageQueue
<1>1. all \in Seq(Call) /\ <<c>> \in Seq(Call)
  BY DEF CallTypes
<1>2. inProgress \o Append(messageQueue, c) = all \o <<c>>
  BY AppendIsConcat, ConcatAssociative DEF CallTypes
<1>. HIDE DEF all
<1>3. Ids(all \o <<c>>) = Ids(all) \o Ids(<<c>>) /\ Ids(all) \in Seq(Numbers)
  BY <1>1, IdsConcat, IdsAreNumbers
<1>4. CASE HasCallback(c)
  <2>1. c.id \in Numbers
    BY <1>4 DEF HasCallback, Call, Numbers
  <2>2. Append(Ids(all), c.id) = Ids(all) \o <<c.id>>
    BY <1>3, <2>1, AppendIsConcat
  <2>. QED BY <1>2, <1>3, <1>4, <2>2, IdsOfFew DEF all
<1>5. CASE ~HasCallback(c)
  BY <1>2, <1>3, <1>5, IdsOfFew, ConcatEmptySeq DEF all
<1>. QED BY <1>4, <1>5

LEMMA IdsOfFront ==
  ASSUME CallTypes, messageQueue # <<>>
  PROVE  /\ Append(inProgress, Head(messageQueue)) \o Tail(messageQueue)
              = inProgress \o messageQueue
         /\ ~HasCallback(Head(messageQueue)) =>
              Ids(inProgress \o Tail(messageQueue)) = Ids(inProgress \o messageQueue)
<1>. DEFINE h == Head(messageQueue)
            rest == Tail(messageQueue)
<1>1. h \in Call /\ rest \in Seq(Call) /\ inProgress \in Seq(Call)
  BY DEF CallTypes
<1>2. messageQueue = <<h>> \o rest /\ <<h>> \in Seq(Call)
  BY DEF CallTypes
<1>. HIDE DEF h, rest
<1>3. Append(inProgress, h) = inProgress \o <<h>>
  BY <1>1, AppendIsConcat
<1>4. (inProgress \o <<h>>) \o rest = inProgress \o (<<h>> \o rest)
  BY <1>1, <1>2, ConcatAssociative
<1>5. ASSUME ~HasCallback(h) PROVE Ids(inProgress \o rest) = Ids(inProgress \o messageQueue)
  <2>1. Ids(<<h>> \o rest) = Ids(<<h>>) \o Ids(rest) /\ Ids(<<h>>) = <<>>
    BY <1>1, <1>2, <1>5, IdsConcat, IdsOfFew
  <2>2. Ids(<<h>> \o rest) = Ids(rest)
    BY <1>1, <2>1, IdsAreNumbers, ConcatEmptySeq
  <2>3. /\ Ids(inProgress \o rest) = Ids(inProgress) \o Ids(rest)
        /\ Ids(inProgress \o messageQueue) = Ids(inProgress) \o Ids(messageQueue)
    BY <1>1, IdsConcat DEF CallTypes
  <2>. QED BY <1>2, <2>2, <2>3
<1>. QED BY <1>2, <1>3, <1>4, <1>5 DEF h, rest

LEMMA NextKeepsOrder ==
  ASSUME CallTypes, CallTypes', CallsInOrder, [Next]_vars
  PROVE  CallsInOrder'
<1>. DEFINE ids == Ids(inProgress \o messageQueue)
<1>1. /\ inProgress \o messageQueue \in Seq(Call) /\ ids \in Seq(Numbers)
      /\ answered \in Seq(Numbers) /\ Ids(inProgress) \in Seq(Numbers)
      /\ Ids(messageQueue) \in Seq(Numbers)
      /\ ids = Ids(inProgress) \o Ids(messageQueue)
      /\ answered \o ids = made
  <2>1. inProgress \in Seq(Call) /\ messageQueue \in Seq(Call) /\ answered \in Seq(Numbers)
    BY DEF CallTypes
  <2>2. inProgress \o messageQueue \in Seq(Call)
    BY <2>1
  <2>3. ids = Ids(inProgress) \o Ids(messageQueue)
    BY <2>1, IdsConcat
  <2>. QED BY <2>1, <2>2, <2>3, IdsAreNumbers DEF CallsInOrder
<1>. HIDE DEF ids
<1>2. ASSUME UNCHANGED <<calls, told, made>> PROVE CallsInOrder'
  BY <1>2 DEF CallsInOrder, calls, told
<1>3. CASE AddToQueue
  <2>1. PICK op \in Ops : /\ messageQueue' = Append(messageQueue, [id |-> issued', op |-> op])
                          /\ made' = IF op = "marker" THEN made ELSE Append(made, issued')
    BY <1>3 DEF AddToQueue
  <2>. DEFINE c == [id |-> issued', op |-> op]
  <2>2. UNCHANGED <<inProgress, answered>>
    BY <1>3 DEF AddToQueue, told
  <2>3. c \in Call /\ (HasCallback(c) <=> op # "marker") /\ c.id = issued'
    <3>1. c = messageQueue'[Len(messageQueue')]
      BY <2>1 DEF CallTypes
    <3>2. c \in Call
      BY <2>1, <3>1 DEF CallTypes
    <3>3. op \in AppOps
      BY CppRestAssumption
    <3>. QED BY <3>2, <3>3 DEF HasCallback, AppOps
  <2>. HIDE DEF c
  <2>4. Ids(inProgress' \o messageQueue') = IF op # "marker" THEN Append(ids, issued') ELSE ids
    BY <2>1, <2>2, <2>3, IdsBehind DEF ids, c
  <2>5. op # "marker" => answered \o Append(ids, issued') = Append(answered \o ids, issued')
    <3>1. op # "marker" => issued' \in Numbers
      BY <2>3 DEF HasCallback, Call, Numbers
    <3>2. \A u, v \in Seq(Numbers), n \in Numbers : u \o Append(v, n) = Append(u \o v, n)
      <4>. SUFFICES ASSUME NEW u \in Seq(Numbers), NEW v \in Seq(Numbers), NEW n \in Numbers
                    PROVE  u \o Append(v, n) = Append(u \o v, n)
        OBVIOUS
      <4>1. /\ Append(v, n) = v \o <<n>> /\ <<n>> \in Seq(Numbers) /\ u \o v \in Seq(Numbers)
            /\ u \o (v \o <<n>>) = (u \o v) \o <<n>>
        BY AppendIsConcat, ConcatAssociative
      <4>. QED BY <4>1, AppendIsConcat
    <3>. QED BY <1>1, <3>1, <3>2, Zenon
  <2>. QED BY <1>1, <2>1, <2>2, <2>4, <2>5 DEF CallsInOrder
<1>4. CASE WaitTimesOut
  <2>. DEFINE c == [id |-> 0, op |-> "heartbeat"]
  <2>1. c \in Call /\ ~HasCallback(c)
    BY DEF Call, HasCallback
  <2>. HIDE DEF c
  <2>2. /\ messageQueue' = Append(messageQueue, c)
        /\ UNCHANGED <<inProgress, answered, made>>
    BY <1>4 DEF WaitTimesOut, counts, told, c
  <2>. QED BY <1>1, <2>1, <2>2, IdsBehind DEF CallsInOrder, ids
<1>5. CASE Fill
  <2>1. CASE UNCHANGED calls
    BY <1>2, <1>5, <2>1 DEF Fill, counts
  <2>2. CASE messageQueue # <<>> /\ messageQueue' = Tail(messageQueue)
    <3>1. UNCHANGED <<answered, made>>
      BY <1>5 DEF Fill, counts, told
    <3>2. \/ inProgress' = Append(inProgress, Head(messageQueue))
          \/ inProgress' = inProgress /\ ~HasCallback(Head(messageQueue))
      BY <1>5, <2>2 DEF Fill, Bundled, HasCallback, calls
    <3>. QED BY <1>1, <2>2, <3>1, <3>2, IdsOfFront DEF CallsInOrder, ids
  <2>. QED BY <1>5, <2>1, <2>2 DEF Fill
<1>6. ASSUME Settle \/ SettleAgain, UNCHANGED <<messageQueue, made>> PROVE CallsInOrder'
  <2>1. inProgress' \o messageQueue' = messageQueue
    BY <1>6, ConcatEmptySeq DEF Settle, SettleAgain, ReportAll, CallTypes
  <2>2. (answered \o Ids(inProgress)) \o Ids(messageQueue)
          = answered \o (Ids(inProgress) \o Ids(messageQueue))
    <3>1. \A u, v, w \in Seq(Numbers) : (u \o v) \o w = u \o (v \o w)
      BY ConcatAssociative
    <3>. QED BY <1>1, <3>1, Zenon
  <2>3. answered' = answered \o Ids(inProgress)
    BY <1>6 DEF Settle, SettleAgain, ReportAll
  <2>. QED BY <1>1, <1>6, <2>1, <2>2, <2>3 DEF CallsInOrder
<1>7. CASE Send
  BY <1>2, <1>6, <1>7 DEF Send, calls
<1>8. CASE Receive
  <2>1. /\ UNCHANGED <<messageQueue, made>>
        /\ Settle \/ SettleAgain \/ UNCHANGED <<inProgress, told>>
    BY <1>8, ReceiveTells DEF Receive
  <2>. QED BY <1>2, <1>6, <2>1 DEF calls
<1>. QED
  BY <1>2, <1>3, <1>4, <1>5, <1>7, <1>8
     DEF Next, AppRuns, QueueThreadRuns, vars, calls, counts, told, Initialize,
         ResetCommunication, ResetNotifies, ResetJoins, Top, Check, GoWait, StopsSending, PutOff, SleepEnds

\* Calls are numbered in the order they are made.
MadeInOrder ==
  /\ \A i, j \in DOMAIN made : i < j => made[i] < made[j]
  /\ \A i \in DOMAIN made : made[i] <= issued

LEMMA NextKeepsMade ==
  ASSUME CallTypes, CallTypes', PlainTypes, MadeInOrder, [Next]_vars
  PROVE  MadeInOrder'
<1>1. CASE UNCHANGED <<made, issued>>
  BY <1>1 DEF MadeInOrder
<1>2. CASE AddToQueue
  <2>1. issued \in Nat /\ issued' = issued + 1
    BY <1>2 DEF AddToQueue, PlainTypes
  <2>2. made' = made \/ made' = Append(made, issued')
    BY <1>2 DEF AddToQueue
  <2>3. /\ made \in Seq(Numbers)
        /\ \A i \in DOMAIN made : made[i] \in Nat
    <3>1. made \in Seq(Numbers) /\ Numbers \subseteq Nat
      BY DEF CallTypes, Numbers
    <3>2. \A i \in DOMAIN made : made[i] \in Numbers
      BY <3>1
    <3>. QED BY <3>1, <3>2
  <2>4. CASE made' = made
    BY <2>1, <2>3, <2>4 DEF MadeInOrder
  <2>5. CASE made' = Append(made, issued')
    <3>1. /\ DOMAIN made' = 1 .. Len(made) + 1 /\ DOMAIN made = 1 .. Len(made)
          /\ Len(made) \in Nat
          /\ \A i \in 1 .. Len(made) : made'[i] = made[i]
          /\ made'[Len(made) + 1] = issued'
      BY <2>3, <2>5
    <3>. QED BY <2>1, <2>3, <3>1 DEF MadeInOrder
  <2>. QED BY <2>2, <2>4, <2>5
<1>. QED
  BY <1>1, <1>2
     DEF Next, AppRuns, QueueThreadRuns, vars, counts, Initialize, ResetCommunication,
         ResetNotifies, ResetJoins, Top, Check, GoWait, WaitTimesOut, Fill, Send,
         StopsSending, Receive, SleepEnds

Ascends(s) == \A i, j \in DOMAIN s : i < j => s[i] < s[j]
Among(s, t) == \A i \in DOMAIN s : \E j \in DOMAIN t : t[j] = s[i]

\* What the two steps of an exception come to: A is what has been called back, B the
\* bundle, and everything made is A, B and the rest in turn.
LEMMA AgainOfAscending ==
  ASSUME NEW A \in Seq(Numbers), NEW B \in Seq(Numbers), NEW C \in Seq(Numbers),
         NEW a \in Seq(Numbers), NEW called \in 1 .. Len(B),
         Ascends(A \o (B \o C)), Ascends(a), Among(a, A)
  PROVE  Ascends(a \o SubSeq(B, 1, called)) /\ Among(a \o SubSeq(B, 1, called), A \o B)
<1>. DEFINE cut == SubSeq(B, 1, called)
            b == a \o cut
            D == A \o B
            all == A \o (B \o C)
<1>1. /\ cut \in Seq(Numbers) /\ Len(cut) = called /\ called \in Nat /\ called <= Len(B)
      /\ \A i \in 1 .. called : cut[i] = B[i]
  OBVIOUS
<1>2. /\ Len(a) \in Nat /\ Len(A) \in Nat /\ Len(B) \in Nat
      /\ DOMAIN a = 1 .. Len(a) /\ DOMAIN A = 1 .. Len(A) /\ DOMAIN B = 1 .. Len(B)
  OBVIOUS
<1>. HIDE DEF cut
<1>3. /\ DOMAIN b = 1 .. Len(a) + called
      /\ \A i \in 1 .. Len(a) : b[i] = a[i]
      /\ \A i \in 1 .. called : b[Len(a) + i] = B[i]
  <2>1. /\ DOMAIN b = 1 .. Len(a) + Len(cut)
        /\ \A i \in 1 .. Len(a) : b[i] = a[i]
        /\ \A i \in 1 .. Len(cut) : b[Len(a) + i] = cut[i]
    <3>1. \A u, v \in Seq(Numbers) :
            /\ DOMAIN (u \o v) = 1 .. Len(u) + Len(v)
            /\ \A i \in 1 .. Len(u) : (u \o v)[i] = u[i]
            /\ \A i \in 1 .. Len(v) : (u \o v)[Len(u) + i] = v[i]
      OBVIOUS
    <3>2. a \in Seq(Numbers) /\ cut \in Seq(Numbers)
      BY <1>1
    <3>. QED BY <3>1, <3>2, Zenon
  <2>. QED BY <1>1, <2>1
<1>4. /\ DOMAIN D = 1 .. Len(A) + Len(B)
      /\ \A i \in 1 .. Len(A) : D[i] = A[i]
      /\ \A i \in 1 .. Len(B) : D[Len(A) + i] = B[i]
  OBVIOUS
<1>5. /\ \A i \in 1 .. Len(A) : i \in DOMAIN all /\ all[i] = A[i]
      /\ \A i \in 1 .. Len(B) : Len(A) + i \in DOMAIN all /\ all[Len(A) + i] = B[i]
  <2>1. B \o C \in Seq(Numbers) /\ Len(B \o C) = Len(B) + Len(C) /\ Len(C) \in Nat
    OBVIOUS
  <2>2. \A i \in 1 .. Len(B) : (B \o C)[i] = B[i]
    OBVIOUS
  <2>3. /\ DOMAIN all = 1 .. Len(A) + Len(B \o C)
        /\ \A i \in 1 .. Len(A) : all[i] = A[i]
        /\ \A i \in 1 .. Len(B \o C) : all[Len(A) + i] = (B \o C)[i]
    BY <2>1
  <2>. QED BY <1>2, <2>1, <2>2, <2>3
<1>6. /\ \A i, j \in DOMAIN all : i < j => all[i] < all[j]
      /\ \A i, j \in DOMAIN a : i < j => a[i] < a[j]
      /\ \A i \in DOMAIN a : \E j \in DOMAIN A : A[j] = a[i]
  BY DEF Ascends, Among
<1>. HIDE DEF b, D, all
<1>7. ASSUME NEW i \in DOMAIN b
      PROVE  \/ i \in 1 .. Len(a) /\ b[i] = a[i]
             \/ i - Len(a) \in 1 .. called /\ b[i] = B[i - Len(a)]
  <2>1. CASE i <= Len(a)
    BY <1>2, <1>3, <2>1
  <2>2. CASE ~(i <= Len(a))
    <3>1. i - Len(a) \in 1 .. called /\ i = Len(a) + (i - Len(a))
      BY <1>1, <1>2, <1>3, <2>2
    <3>. QED BY <1>3, <3>1
  <2>. QED BY <2>1, <2>2
<1>8. ASSUME NEW i \in DOMAIN b, NEW j \in DOMAIN b, i < j PROVE b[i] < b[j]
  <2>1. i \in Nat /\ j \in Nat
    BY <1>1, <1>2, <1>3
  <2>2. CASE i \in 1 .. Len(a) /\ j \in 1 .. Len(a)
    BY <1>2, <1>3, <1>6, <1>8, <2>2
  <2>3. CASE i \in 1 .. Len(a) /\ j - Len(a) \in 1 .. called /\ b[j] = B[j - Len(a)]
    <3>1. PICK p \in DOMAIN A : A[p] = a[i]
      BY <1>2, <1>6, <2>3
    <3>2. j - Len(a) \in 1 .. Len(B)
      BY <1>1, <1>2, <2>3
    <3>3. p \in DOMAIN all /\ Len(A) + (j - Len(a)) \in DOMAIN all /\ p < Len(A) + (j - Len(a))
      BY <1>2, <1>5, <3>2
    <3>4. all[p] = b[i] /\ all[Len(A) + (j - Len(a))] = b[j]
      BY <1>2, <1>3, <1>5, <2>3, <3>1, <3>2
    <3>. QED BY <1>6, <3>3, <3>4
  <2>4. CASE /\ i - Len(a) \in 1 .. called /\ b[i] = B[i - Len(a)]
             /\ j - Len(a) \in 1 .. called /\ b[j] = B[j - Len(a)]
    <3>1. i - Len(a) \in 1 .. Len(B) /\ j - Len(a) \in 1 .. Len(B)
      BY <1>1, <1>2, <2>4
    <3>2. Len(A) + (i - Len(a)) < Len(A) + (j - Len(a))
      BY <1>2, <1>8, <2>1
    <3>. QED BY <1>5, <1>6, <2>4, <3>1, <3>2
  <2>5. CASE i - Len(a) \in 1 .. called /\ j \in 1 .. Len(a)
    BY <1>2, <1>8, <2>1, <2>5
  <2>. QED BY <1>7, <2>2, <2>3, <2>4, <2>5
<1>9. ASSUME NEW i \in DOMAIN b PROVE \E j \in DOMAIN D : D[j] = b[i]
  <2>1. CASE i \in 1 .. Len(a) /\ b[i] = a[i]
    <3>1. PICK p \in DOMAIN A : A[p] = a[i]
      BY <1>2, <1>6, <2>1
    <3>. QED BY <1>2, <1>4, <2>1, <3>1
  <2>2. CASE i - Len(a) \in 1 .. called /\ b[i] = B[i - Len(a)]
    <3>1. i - Len(a) \in 1 .. Len(B)
      BY <1>1, <1>2, <2>2
    <3>2. Len(A) + (i - Len(a)) \in DOMAIN D
      BY <1>2, <1>4, <3>1
    <3>. QED BY <1>4, <2>2, <3>1, <3>2
  <2>. QED BY <1>7, <2>1, <2>2
<1>10. Ascends(b) /\ Among(b, D)
  BY <1>8, <1>9 DEF Ascends, Among
<1>. QED BY <1>10 DEF b, D, cut

LEMMA NextKeepsAgain ==
  ASSUME CallTypes, CallsInOrder, MadeInOrder, AgainOnlyOnce, [Next]_vars
  PROVE  AgainOnlyOnce'
<1>1. CASE UNCHANGED told
  BY <1>1 DEF AgainOnlyOnce, told
<1>2. ASSUME Settle \/ SettleAgain PROVE AgainOnlyOnce'
  <2>. DEFINE B == Ids(inProgress)
              C == Ids(messageQueue)
  <2>1. /\ answered \in Seq(Numbers) /\ again \in Seq(Numbers)
        /\ B \in Seq(Numbers) /\ C \in Seq(Numbers)
        /\ answered \o (B \o C) = made
    BY IdsAreNumbers, IdsConcat DEF CallTypes, CallsInOrder
  <2>2. /\ answered' = answered \o B
        /\ \/ again' = again
           \/ \E called \in 1 .. Len(B) : again' = again \o SubSeq(B, 1, called)
    BY <1>2 DEF Settle, SettleAgain, ReportAll
  <2>. HIDE DEF B, C
  <2>3. CASE again' = again
    <3>1. \A j \in DOMAIN answered : j \in DOMAIN answered' /\ answered'[j] = answered[j]
      BY <2>1, <2>2
    <3>2. \A i \in DOMAIN again : \E j \in DOMAIN answered' : answered'[j] = again[i]
      BY <3>1 DEF AgainOnlyOnce
    <3>. QED BY <2>3, <3>2 DEF AgainOnlyOnce
  <2>4. ASSUME NEW called \in 1 .. Len(B), again' = again \o SubSeq(B, 1, called)
        PROVE  AgainOnlyOnce'
    <3>1. Ascends(answered \o (B \o C))
      BY <2>1 DEF MadeInOrder, Ascends
    <3>2. Ascends(again) /\ Among(again, answered)
      BY DEF AgainOnlyOnce, Ascends, Among
    <3>3. Ascends(again') /\ Among(again', answered')
      BY <2>1, <2>2, <2>4, <3>1, <3>2, AgainOfAscending
    <3>. QED BY <3>3 DEF AgainOnlyOnce, Ascends, Among
  <2>. QED BY <2>2, <2>3, <2>4
<1>3. Receive \/ Send => Settle \/ SettleAgain \/ UNCHANGED told
  BY ReceiveTells DEF Send
<1>. QED
  BY <1>1, <1>2, <1>3
     DEF Next, AppRuns, QueueThreadRuns, vars, counts, Initialize, AddToQueue,
         ResetCommunication, ResetNotifies, ResetJoins, Top, Check, GoWait, WaitTimesOut,
         Fill, StopsSending, PutOff, SleepEnds

-----------------------------------------------------------------------------
(* The theorems *)

\* The types, a queue thread that lives as long as the engine is initialized, attempts
\* within the number of timeouts (one for a bundle that authenticates) for each time the
\* bundle has been put off and one time more, whatever was left in the retry count, and
\* no marker in a bundle.
THEOREM EngineStaysInStep == Spec => []EngineInStep
<1>. DEFINE Inv == /\ CallTypes /\ NoMarkerInBundle
                   /\ PlainTypes /\ ThreadFitsSession /\ AttemptsCounted
<1>1. Init => Inv
  <2>1. ASSUME Init PROVE CallTypes /\ NoMarkerInBundle
    BY <2>1 DEF Init, CallTypes, NoMarkerInBundle
  <2>2. ASSUME Init PROVE PlainTypes /\ ThreadFitsSession /\ AttemptsCounted
    <3>. USE <2>2, CppRestAssumption DEF Init
    <3>1. /\ 0 \in 0 .. MaxPackets /\ 0 \in 0 .. MaxSendAttempts - 1
          /\ 0 \in 0 .. MaxSessions /\ 0 \in 0 .. MaxCalls
      OBVIOUS
    <3>2. PlainTypes
      BY <3>1 DEF PlainTypes
    <3>. QED BY <3>2 DEF ThreadFitsSession, AttemptsCounted
  <2>. QED BY <2>1, <2>2
<1>2. Inv /\ [Next]_vars => Inv'
  BY NextKeepsCalls, NextKeepsThreads
<1>3. Inv => EngineInStep
  BY TypesSplit, CountedIsBounded DEF EngineInStep
<1>. QED BY <1>1, <1>2, <1>3, PTL DEF Spec

\* Once resetCommunication has returned nothing runs: no callback, no packet, no thread.
THEOREM ResetStaysFinal == Spec => ResetIsFinal
<1>1. ASSUME EngineInStep, [Next]_vars, ~isInitialized, ~isInitialized'
      PROVE  UNCHANGED <<told, inProgress, packetId, queueThread>>
  <2>1. queueThread = "off" /\ app = "idle"
    BY <1>1 DEF EngineInStep, ThreadFitsSession
  <2>2. CASE UNCHANGED vars
    BY <2>2 DEF vars, thread, calls, counts, told
  <2>3. CASE AddToQueue
    BY <2>1, <2>3, WakeFits DEF AddToQueue, Waiting
  <2>4. ~QueueThreadRuns
    BY <2>1 DEF QueueThreadRuns, Top, Check, GoWait, WaitTimesOut, Fill, Send, StopsSending,
         Receive, SleepEnds
  <2>5. ~Initialize /\ ~ResetCommunication /\ ~ResetNotifies /\ ~ResetJoins
    BY <1>1, <2>1 DEF Initialize, ResetCommunication, ResetNotifies, ResetJoins
  <2>. QED BY <1>1, <2>2, <2>3, <2>4, <2>5 DEF Next, AppRuns
<1>2. EngineInStep /\ [Next]_vars
        => [~isInitialized /\ ~isInitialized'
              => UNCHANGED <<told, inProgress, packetId, queueThread>>]_vars
  BY <1>1
<1>. QED BY <1>2, EngineStaysInStep, PTL DEF Spec, ResetIsFinal

\* Calls are answered for good once each and in the order they were made, and those not
\* answered yet are in the bundle or in the queue, in that order: no retry, ignored answer,
\* local answer or reset loses a call or repeats one, and an exception in the callbacks of
\* a bundle has some of them called back once more, never twice.
THEOREM CallsAreKept == Spec => []CallsKept
<1>. DEFINE Inv == CallsInOrder /\ AgainOnlyOnce /\ MadeInOrder
<1>1. Init => Inv
  <2>. SUFFICES ASSUME Init PROVE Inv
    OBVIOUS
  <2>1. inProgress \o messageQueue = <<>>
    BY DEF Init
  <2>. QED BY <2>1, IdsOfFew DEF Init, CallsInOrder, AgainOnlyOnce, MadeInOrder
<1>2. EngineInStep /\ EngineInStep' /\ Inv /\ [Next]_vars => Inv'
  <2>1. EngineInStep /\ EngineInStep' => CallTypes /\ CallTypes' /\ PlainTypes
    BY TypesSplit, TypesSplitNext DEF EngineInStep
  <2>. QED BY <2>1, NextKeepsOrder, NextKeepsMade, NextKeepsAgain
<1>3. Inv => CallsKept
  BY DEF CallsKept
<1>. QED BY <1>1, <1>2, <1>3, EngineStaysInStep, PTL DEF Spec

=============================================================================
