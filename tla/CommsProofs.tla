------------------------------ MODULE CommsProofs ------------------------------
(***************************************************************************)
(* Proofs about Comms, for every value of its constants.                   *)
(***************************************************************************)
EXTENDS CommsLifecycle, SubsequenceProofs, SequenceTheorems

-----------------------------------------------------------------------------
(* What the helpers return *)

\* One reply for each call.
LEMMA LocalRepliesType ==
  ASSUME NEW calls \in Seq(Call), NEW result \in Result
  PROVE  LocalReplies(calls, result) \in Seq(Reply)
<1>1. LocalReplies(calls, result) \in [1 .. Len(calls) -> Reply]
  BY DEF LocalReplies, ByClient, Reply
<1>. QED BY <1>1

LEMMA MatchedType ==
  ASSUME NEW calls \in Seq(Call), NEW replies \in Seq(Reply)
  PROVE  Matched(calls, replies) \in [1 .. Len(calls) -> Reply]
<1>1. [to |-> ByClient, result |-> "missing"] \in Reply
  BY DEF ByClient, Reply, Result
<1>. QED BY <1>1 DEF Matched

LEMMA EventsForType ==
  ASSUME NEW calls \in Seq(Call), NEW replies \in [1 .. Len(calls) -> Reply]
  PROVE  EventsFor(calls, replies) \in Seq(Event)
<1>. DEFINE all == [i \in DOMAIN calls |-> [call |-> calls[i], reply |-> replies[i]]]
            S == {i \in DOMAIN calls : HasCallback(calls[i])}
<1>1. all \in [1 .. Len(calls) -> Event]
  BY DEF Event
<1>2. all \in Seq(Event) /\ DOMAIN all = DOMAIN calls
  BY <1>1
<1>3. S \in SUBSET (DOMAIN all)
  BY <1>2
<1>4. Select(all, S) \in Seq(Event)
  BY <1>2, <1>3, SelectType
<1>. QED BY <1>4 DEF EventsFor

LEMMA SessionAfterType ==
  ASSUME isAuthenticated \in BOOLEAN, NEW calls, NEW replies
  PROVE  SessionAfter(calls, replies) \in BOOLEAN
BY DEF SessionAfter, OpensSession

LEMMA ErrorCacheAfterType ==
  ASSUME errorCache \in SessionErrors, NEW calls, NEW replies
  PROVE  ErrorCacheAfter(calls, replies) \in SessionErrors
BY DEF ErrorCacheAfter, SessionErrors

LEMMA KillSwitchAtType ==
  ASSUME TypeOK,
         NEW calls \in Seq(Call), NEW replies \in [1 .. Len(calls) -> Reply],
         NEW n \in 0 .. Len(calls)
  PROVE  /\ KillSwitchAt(calls, replies, n).op \in Op \cup {NoOp}
         /\ KillSwitchAt(calls, replies, n).count \in Nat
<1>. DEFINE fresh  == Streak(replies, n) # 1 .. n
            failed == {i \in Streak(replies, n) : Counted(replies[i].result)}
            op     == IF ~fresh /\ killSwitch.op # NoOp THEN killSwitch.op
                      ELSE IF failed = {} THEN NoOp ELSE calls[Min(failed)].op
            again  == {i \in failed : calls[i].op = op}
            count  == (IF fresh THEN 0 ELSE killSwitch.count) + Cardinality(again)
<1>1. failed \in SUBSET (1 .. n) /\ failed \subseteq 1 .. Len(calls) /\ failed \subseteq Nat
  BY DEF Streak
<1>2. killSwitch.op \in Op \cup {NoOp} /\ killSwitch.count \in Nat
  BY DEF TypeOK, DataOK, KillSwitchState
<1>3. failed # {} => calls[Min(failed)].op \in Op
  <2>. SUFFICES ASSUME failed # {} PROVE calls[Min(failed)].op \in Op
    OBVIOUS
  <2>. HIDE DEF failed
  <2>1. Min(failed) \in failed
    BY <1>1, MinOfNats
  <2>2. calls[Min(failed)] \in Call
    <3>1. \A i \in 1 .. Len(calls) : calls[i] \in Call
      OBVIOUS
    <3>2. Min(failed) \in 1 .. Len(calls)
      BY <1>1, <2>1
    <3>. QED BY <3>1, <3>2
  <2>3. \A c \in Call : c.op \in Op
    BY DEF Call
  <2>. QED BY <2>2, <2>3
<1>4. op \in Op \cup {NoOp}
  BY <1>2, <1>3
<1>5. Cardinality(again) \in Nat
  <2>1. again \subseteq failed
    OBVIOUS
  <2>. HIDE DEF again, failed
  <2>2. again \in SUBSET (1 .. n)
    BY <1>1, <2>1
  <2>. QED BY <2>2, PositionsFinite
<1>6. count \in Nat
  BY <1>2, <1>5
<1>7. KillSwitchAt(calls, replies, n) = [op |-> op, count |-> count]
  BY DEF KillSwitchAt
<1>. QED BY <1>4, <1>6, <1>7

LEMMA KillSwitchAfterType ==
  ASSUME TypeOK,
         NEW calls \in Seq(Call), NEW replies \in [1 .. Len(calls) -> Reply]
  PROVE  KillSwitchAfter(calls, replies)
           \in KillSwitchState
<1>. DEFINE last == KillSwitchAt(calls, replies, Len(calls))
<1>1. last.op \in Op \cup {NoOp} /\ last.count \in Nat
  BY KillSwitchAtType
<1>2. killSwitch.engaged \in BOOLEAN
  BY DEF TypeOK, DataOK, KillSwitchState
<1>. HIDE DEF last
<1>. QED BY <1>1, <1>2 DEF KillSwitchAfter, KillSwitchState, last

\* What a bundle of replies leaves behind, whatever the replies.
LEMMA AnswerCallsType ==
  ASSUME TypeOK, NEW calls \in Seq(Call), NEW replies \in Seq(Reply),
         AnswerCalls(calls, replies)
  PROVE  /\ apiCallbackQueue' \in Seq(Event)
         /\ isAuthenticated' \in BOOLEAN
         /\ errorCache' \in SessionErrors
         /\ killSwitch' \in KillSwitchState
<1>. DEFINE matched == Matched(calls, replies)
<1>1. matched \in [1 .. Len(calls) -> Reply]
  BY MatchedType
<1>. HIDE DEF matched
<1>2. /\ apiCallbackQueue' = apiCallbackQueue \o EventsFor(calls, matched)
      /\ isAuthenticated' = SessionAfter(calls, matched)
      /\ errorCache' = ErrorCacheAfter(calls, matched)
      /\ killSwitch' = KillSwitchAfter(calls, matched)
  BY DEF AnswerCalls, matched
<1>3. apiCallbackQueue' \in Seq(Event)
  <2>1. apiCallbackQueue \in Seq(Event)
    BY DEF TypeOK, DataOK
  <2>2. EventsFor(calls, matched) \in Seq(Event)
    BY <1>1, EventsForType
  <2>. QED BY <1>2, <2>1, <2>2
<1>4. isAuthenticated' \in BOOLEAN
  BY <1>2, SessionAfterType DEF TypeOK, DataOK, FlagsOK
<1>5. errorCache' \in SessionErrors
  BY <1>2, ErrorCacheAfterType DEF TypeOK, DataOK
<1>6. killSwitch' \in KillSwitchState
  BY <1>1, <1>2, KillSwitchAfterType
<1>. QED BY <1>3, <1>4, <1>5, <1>6

LEMMA HandleResponseBundleType ==
  ASSUME TypeOK, NEW resp \in Response, HandleResponseBundle(resp)
  PROVE  /\ apiCallbackQueue' \in Seq(Event)
         /\ isAuthenticated' \in BOOLEAN
         /\ errorCache' \in SessionErrors
         /\ killSwitch' \in KillSwitchState
<1>0. inProgress \in Seq(Call) /\ resp.replies \in Seq(Reply)
  BY DEF TypeOK, DataOK, Response
<1>1. CASE DropBundle
  <2>1. LocalReplies(inProgress, "dropped") \in [1 .. Len(inProgress) -> Reply]
    BY <1>0 DEF LocalReplies, ByClient, Reply, Result
  <2>2. EventsFor(inProgress, LocalReplies(inProgress, "dropped")) \in Seq(Event)
    BY <1>0, <2>1, EventsForType
  <2>3. apiCallbackQueue' \in Seq(Event)
    BY <1>1, <2>2 DEF DropBundle, TypeOK, DataOK
  <2>. QED BY <1>1, <2>3 DEF DropBundle, TypeOK, DataOK, FlagsOK, sessionVars
<1>2. CASE AnswerCalls(inProgress, resp.replies)
  BY <1>0, <1>2, AnswerCallsType
<1>. QED BY <1>1, <1>2 DEF HandleResponseBundle

-----------------------------------------------------------------------------
(* What goes into a bundle *)

LEMMA ReorderedType ==
  ASSUME TypeOK
  PROVE  Reordered \in Seq(Call) /\ Len(Reordered) = Len(queue)
<1>0. queue \in Seq(Call) /\ Len(queue) \in Nat
  BY DEF TypeOK, DataOK
<1>1. CASE AuthFound
  <2>. DEFINE a == Min(AuthPositions)
              front == <<queue[a]>> \o SubSeq(queue, 1, a - 1)
              back  == SubSeq(queue, a + 1, Len(queue))
  <2>1. AuthPositions \subseteq Nat /\ AuthPositions # {} /\ AuthPositions \subseteq 1 .. Len(queue)
    BY <1>0, <1>1 DEF AuthPositions, AuthFound
  <2>2. a \in 1 .. Len(queue)
    BY <2>1, MinOfNats
  <2>. HIDE DEF a
  <2>3. <<queue[a]>> \in Seq(Call) /\ Len(<<queue[a]>>) = 1
    BY <1>0, <2>2
  <2>4. SubSeq(queue, 1, a - 1) \in Seq(Call) /\ Len(SubSeq(queue, 1, a - 1)) = a - 1
    BY <1>0, <2>2
  <2>5. front \in Seq(Call) /\ Len(front) = a
    BY <2>2, <2>3, <2>4
  <2>6. back \in Seq(Call) /\ Len(back) = Len(queue) - a
    BY <1>0, <2>2
  <2>7. Reordered = front \o back
    BY <1>1 DEF Reordered, a
  <2>. HIDE DEF front, back
  <2>8. front \o back \in Seq(Call) /\ Len(front \o back) = a + (Len(queue) - a)
    BY <2>5, <2>6
  <2>. QED BY <2>2, <2>7, <2>8
<1>2. CASE ~AuthFound
  BY <1>0, <1>2 DEF Reordered
<1>. QED BY <1>1, <1>2

LEMMA TakenByPositions ==
  ASSUME TypeOK, NEW n \in 0 .. Len(queue)
  PROVE  TakenBy(n) \in SUBSET (1 .. n)
BY DEF TakenBy

LEMMA CutType ==
  ASSUME TypeOK
  PROVE  Cut \in 0 .. Len(queue)
<1>. DEFINE stops == {n \in 0 .. Len(queue) : StopsAt(n)}
<1>1. Len(queue) \in Nat
  BY DEF TypeOK, DataOK
<1>2. Len(queue) \in stops
  BY <1>1 DEF StopsAt
<1>3. stops \subseteq Nat /\ stops # {}
  BY <1>1, <1>2
<1>4. stops \subseteq 0 .. Len(queue)
  OBVIOUS
<1>. HIDE DEF stops
<1>5. Min(stops) \in stops
  BY <1>3, MinOfNats
<1>6. Cut = Min(stops)
  BY DEF Cut, stops
<1>. QED BY <1>4, <1>5, <1>6

LEMMA BundleType ==
  ASSUME TypeOK
  PROVE  Bundle \in Seq(Call) /\ Rest \in Seq(Call)
<1>1. Reordered \in Seq(Call) /\ Len(Reordered) = Len(queue) /\ Len(queue) \in Nat
  BY ReorderedType DEF TypeOK, DataOK
<1>2. Cut \in 0 .. Len(queue)
  BY CutType
<1>3. TakenBy(Cut) \in SUBSET (1 .. Cut)
  BY <1>2, TakenByPositions
<1>4. TakenBy(Cut) \in SUBSET (DOMAIN Reordered)
  BY <1>1, <1>2, <1>3
<1>5. Select(Reordered, TakenBy(Cut)) \in Seq(Call)
  BY <1>1, <1>4, SelectType
<1>6. SubSeq(Reordered, Cut + 1, Len(queue)) \in Seq(Call)
  BY <1>1, <1>2
<1>. QED BY <1>5, <1>6 DEF Bundle, Rest

-----------------------------------------------------------------------------
(* Type correctness *)

\* The values that stand for "nothing" have the types of their variables.
LEMMA Nothing ==
  /\ 0 \in 0 .. MaxSendAttempts - 1
  /\ NoPacket \in Int
  /\ NoResponse \in Response
  /\ "nosession" \in SessionErrors
  /\ NoRequest.calls \in Seq(Call) /\ NoRequest.packetId \in Int
  /\ NoRequest.packetId = NoPacket
<1>1. 0 \in 0 .. MaxSendAttempts - 1
  BY CommsAssumption
<1>2. NoResponse \in Response
  BY DEF NoResponse, Response, NoPacket
<1>. QED BY <1>1, <1>2 DEF SessionErrors, NoRequest, NoPacket

LEMMA TypeInit == Init => TypeOK
<1>. SUFFICES ASSUME Init PROVE TypeOK
  OBVIOUS
<1>1. killSwitch \in KillSwitchState
  BY DEF Init, KillSwitchState
<1>2. FlagsOK
  BY DEF Init, FlagsOK
<1>3. DataOK
  BY <1>1, Nothing DEF Init, DataOK
<1>. QED BY <1>2, <1>3 DEF TypeOK

\* The operations of the app.
LEMMA TypeApp == TypeOK /\ App => TypeOK'
<1>. SUFFICES ASSUME TypeOK, App PROVE TypeOK'
  OBVIOUS
<1>. USE DEF sessionVars, retryVars, packetVars, loaderVars, history
<1>1. CASE \E op \in AppOps : AddToQueue(op)
  <2>1. PICK op \in AppOps : AddToQueue(op)
    BY <1>1
  <2>2. op \in Op /\ [id |-> Len(issued) + 1, op |-> op] \in Call
    BY CommsAssumption DEF TypeOK, DataOK, Call
  <2>. QED BY <2>1, <2>2 DEF AddToQueue, Push, TypeOK, DataOK, FlagsOK
<1>2. CASE Initialize
  BY <1>2 DEF Initialize, TypeOK, DataOK, FlagsOK
<1>3. CASE \E enabled \in BOOLEAN : EnableNetworkErrorMessageCaching(enabled)
  BY <1>3 DEF EnableNetworkErrorMessageCaching, TypeOK, DataOK, FlagsOK
<1>4. CASE RetryCachedMessages
  <2>1. packetId - 1 \in Nat \cup {NoPacket}
    BY DEF TypeOK, DataOK, NoPacket
  <2>. QED BY <1>4, <2>1, Nothing
           DEF RetryCachedMessages, StartHttpRequest, ResendPacketId, TypeOK, DataOK, FlagsOK
<1>5. CASE \E notify \in BOOLEAN : FlushCachedMessages(notify)
  <2>1. PICK notify \in BOOLEAN : FlushCachedMessages(notify)
    BY <1>5
  <2>2. CASE notify
    <3>1. inProgress \in Seq(Call) /\ LocalReplies(inProgress, "timeout") \in Seq(Reply)
      BY LocalRepliesType DEF TypeOK, DataOK, Result
    <3>2. AnswerCalls(inProgress, LocalReplies(inProgress, "timeout"))
      BY <2>1, <2>2 DEF FlushCachedMessages
    <3>3. /\ apiCallbackQueue' \in Seq(Event)
          /\ isAuthenticated' \in BOOLEAN
          /\ errorCache' \in SessionErrors
          /\ killSwitch' \in KillSwitchState
      BY <3>1, <3>2, AnswerCallsType
    <3>7. FlagsOK'
      BY <2>1, <3>3 DEF FlushCachedMessages, TypeOK, FlagsOK
    <3>8. DataOK'
      BY <2>1, <3>3 DEF FlushCachedMessages, TypeOK, DataOK
    <3>. QED BY <3>7, <3>8 DEF TypeOK
  <2>3. CASE ~notify
    <3>1. UNCHANGED <<apiCallbackQueue, sessionVars, expectedPacketId>>
      BY <2>1, <2>3, Zenon DEF FlushCachedMessages
    <3>7. FlagsOK'
      BY <2>1, <3>1 DEF FlushCachedMessages, TypeOK, FlagsOK
    <3>8. DataOK'
      BY <2>1, <3>1 DEF FlushCachedMessages, TypeOK, DataOK
    <3>. QED BY <3>7, <3>8 DEF TypeOK
  <2>. QED BY <2>2, <2>3
<1>6. CASE ResetCommunication \/ Shutdown
  <2>1. NoResponse \in Response /\ isInitialized' \in BOOLEAN
    BY <1>6, Nothing DEF ResetCommunication, Shutdown, TypeOK, DataOK, FlagsOK
  <2>2. Clear
    BY <1>6 DEF ResetCommunication, Shutdown
  <2>7. FlagsOK'
    BY <2>1, <2>2, Nothing DEF Clear, ForgetPacket, ClearCalls, TypeOK, FlagsOK
  <2>8. DataOK'
    BY <2>1, <2>2, Nothing DEF Clear, ForgetPacket, ClearCalls, TypeOK, DataOK
  <2>. QED BY <2>7, <2>8 DEF TypeOK
<1>. QED BY <1>1, <1>2, <1>3, <1>4, <1>5, <1>6 DEF App

\* The steps of runCallbacks on the loader and the callbacks.
LEMMA TypeRunCallbacks == TypeOK /\ RunCallbacks => TypeOK'
<1>. SUFFICES ASSUME TypeOK, RunCallbacks PROVE TypeOK'
  OBVIOUS
<1>. USE DEF sessionVars, retryVars, packetVars, loaderVars, history
<1>0. NoResponse \in Response
  BY DEF NoResponse, Response, NoPacket
<1>1. CASE ScheduleRetry
  <2>1. retryCount + 1 \in 0 .. MaxSendAttempts - 1
    BY <1>1, CommsAssumption DEF ScheduleRetry, LastAttempt, SendAttempts, TypeOK, DataOK
  <2>. QED BY <1>1, <2>1 DEF ScheduleRetry, TypeOK, DataOK, FlagsOK
<1>2. CASE GiveUp
  <2>. DEFINE resp == [packetId |-> expectedPacketId,
                       replies |-> LocalReplies(inProgress, "timeout")]
  <2>1. LocalReplies(inProgress, "timeout") \in Seq(Reply)
    BY LocalRepliesType DEF TypeOK, DataOK, Result
  <2>2. resp \in Response
    BY <2>1 DEF Response, TypeOK, DataOK, NoPacket
  <2>3. /\ apiCallbackQueue' \in Seq(Event)
        /\ isAuthenticated' \in BOOLEAN
        /\ errorCache' \in SessionErrors
        /\ killSwitch' \in KillSwitchState
    BY <1>2, <2>2, HandleResponseBundleType DEF GiveUp
  <2>7. FlagsOK'
    BY <1>2, <2>3, Nothing DEF GiveUp, TypeOK, FlagsOK
  <2>8. DataOK'
    BY <1>2, <2>3, Nothing DEF GiveUp, TypeOK, DataOK
  <2>. QED BY <2>7, <2>8 DEF TypeOK
<1>3. CASE BlockQueue
  BY <1>3, Nothing DEF BlockQueue, TypeOK, DataOK, FlagsOK
<1>4. CASE NetworkErrorReturns
  BY <1>0, <1>4 DEF NetworkErrorReturns, TypeOK, DataOK, FlagsOK
<1>5. CASE TakeReply
  <2>1. response \in Response
    BY DEF TypeOK, DataOK
  <2>2. /\ apiCallbackQueue' \in Seq(Event)
        /\ isAuthenticated' \in BOOLEAN
        /\ errorCache' \in SessionErrors
        /\ killSwitch' \in KillSwitchState
    BY <1>5, <2>1, HandleResponseBundleType DEF TakeReply
  <2>. QED BY <1>0, <1>5, <2>2 DEF TakeReply, TypeOK, DataOK, FlagsOK
<1>6. CASE Resend
  <2>1. packetId - 1 \in Nat \cup {NoPacket}
    BY DEF TypeOK, DataOK, NoPacket
  <2>2. request \in Packet
    BY <1>6 DEF Resend, InRetry, TypeOK, DataOK
  <2>7. FlagsOK'
    BY <1>6 DEF Resend, StartHttpRequest, ResendPacketId, TypeOK, FlagsOK
  <2>8. DataOK'
    BY <1>0, <1>6, <2>1, <2>2 DEF Resend, StartHttpRequest, ResendPacketId, TypeOK, DataOK
  <2>. QED BY <2>7, <2>8 DEF TypeOK
<1>7. CASE TossQueue
  BY <1>7, BundleType DEF TossQueue, TypeOK, DataOK, FlagsOK
<1>8. CASE RefuseBundle
  <2>. DEFINE calls == inProgress \o Bundle
              result == IF killSwitch.engaged THEN "disabled" ELSE errorCache
  <2>1. calls \in Seq(Call) /\ Rest \in Seq(Call)
    BY BundleType DEF TypeOK, DataOK
  <2>2. result \in Result
    BY DEF TypeOK, DataOK, Result
  <2>3. LocalReplies(calls, result) \in Seq(Reply)
    BY <2>1, <2>2, LocalRepliesType
  <2>4. AnswerCalls(calls, LocalReplies(calls, result))
    BY <1>8 DEF RefuseBundle
  <2>. HIDE DEF calls, result
  <2>5. /\ apiCallbackQueue' \in Seq(Event)
        /\ isAuthenticated' \in BOOLEAN
        /\ errorCache' \in SessionErrors
        /\ killSwitch' \in KillSwitchState
    BY <2>1, <2>3, <2>4, AnswerCallsType
  <2>. QED BY <1>8, <2>1, <2>5 DEF RefuseBundle, TypeOK, DataOK, FlagsOK
<1>9. CASE SendBundle
  <2>1. Bundle \in Seq(Call) /\ Rest \in Seq(Call)
    BY BundleType
  <2>2. request' \in Packet
    BY <1>9, <2>1 DEF SendBundle, Payload, Packet, TypeOK, DataOK
  <2>7. FlagsOK'
    BY <1>9 DEF SendBundle, StartHttpRequest, TypeOK, FlagsOK
  <2>8. DataOK'
    BY <1>0, <1>9, <2>1, <2>2 DEF SendBundle, StartHttpRequest, TypeOK, DataOK
  <2>. QED BY <2>7, <2>8 DEF TypeOK
<1>10. CASE SendHeartbeat
  <2>1. "heartbeat" \in Op /\ [id |-> Len(issued) + 1, op |-> "heartbeat"] \in Call
    BY DEF TypeOK, DataOK, Call, Op
  <2>. QED BY <1>10, <2>1 DEF SendHeartbeat, Push, TypeOK, DataOK, FlagsOK
<1>11. CASE NothingToDo
  BY <1>11 DEF NothingToDo, TypeOK, DataOK, FlagsOK
<1>12. CASE RunApiCallback
  <2>1. Head(apiCallbackQueue) \in Event /\ Tail(apiCallbackQueue) \in Seq(Event)
    BY <1>12 DEF RunApiCallback, TypeOK, DataOK
  <2>. QED BY <1>12, <2>1 DEF RunApiCallback, TypeOK, DataOK, FlagsOK
<1>13. CASE ReturnFromRunCallbacks
  BY <1>13 DEF ReturnFromRunCallbacks, TypeOK, DataOK, FlagsOK
<1>. QED BY <1>1, <1>2, <1>3, <1>4, <1>5, <1>6, <1>7, <1>8, <1>9, <1>10, <1>11,
            <1>12, <1>13 DEF RunCallbacks

\* The loader comes back.
LEMMA TypeNetwork == TypeOK /\ Network => TypeOK'
<1>. SUFFICES ASSUME TypeOK, Network PROVE TypeOK'
  OBVIOUS
<1>0. /\ request.calls \in Seq(Call)
      /\ request.packetId \in Int
  BY Nothing DEF TypeOK, DataOK, Packet
<1>1. \E state \in {"replied", "failed"}, resp \in Response : LoaderReturns(state, resp)
  <2>2. CASE ServerReplies
    <3>1. PICK results \in [DOMAIN request.calls -> ServerResults] :
            LoaderReturns("replied",
              [packetId |-> request.packetId,
               replies  |-> [i \in DOMAIN request.calls |->
                               [to |-> request.calls[i].id, result |-> results[i]]]])
      BY <2>2 DEF ServerReplies
    <3>. DEFINE replies == [i \in DOMAIN request.calls |->
                              [to |-> request.calls[i].id, result |-> results[i]]]
    <3>2. ServerResults \subseteq Result
      <4>1. ServerResults \subseteq {"ok", "error", "session"}
        BY CommsAssumption
      <4>. QED BY <4>1 DEF Result, SessionErrors
    <3>3. \A i \in DOMAIN request.calls : request.calls[i] \in Call
      BY <1>0
    <3>4. \A i \in DOMAIN request.calls :
            [to |-> request.calls[i].id, result |-> results[i]] \in Reply
      BY <3>2, <3>3 DEF Call, Reply
    <3>5. replies \in [DOMAIN request.calls -> Reply]
      BY <3>4
    <3>6. replies \in Seq(Reply)
      BY <1>0, <3>5
    <3>7. [packetId |-> request.packetId, replies |-> replies] \in Response
      BY <1>0, <3>6 DEF Response
    <3>. QED BY <3>1, <3>7
  <2>3. CASE NetworkFails
    BY <2>3, Nothing DEF NetworkFails
  <2>4. CASE ServerOutOfSync
    <3>1. [packetId |-> request.packetId - 1, replies |-> <<>>] \in Response
      BY <1>0 DEF Response
    <3>. QED BY <2>4, <3>1 DEF ServerOutOfSync
  <2>. QED BY <2>2, <2>3, <2>4 DEF Network
<1>2. PICK state \in {"replied", "failed"}, resp \in Response : LoaderReturns(state, resp)
  BY <1>1
<1>3. FlagsOK'
  BY <1>2 DEF LoaderReturns, TypeOK, FlagsOK, retryVars, sessionVars
<1>4. DataOK'
  BY <1>2 DEF LoaderReturns, TypeOK, DataOK, packetVars, retryVars, sessionVars, history
<1>. QED BY <1>3, <1>4 DEF TypeOK

LEMMA TypeStep == TypeOK /\ [Next]_vars => TypeOK'
<1>. SUFFICES ASSUME TypeOK, [Next]_vars PROVE TypeOK'
  OBVIOUS
<1>1. CASE UNCHANGED vars
  BY <1>1 DEF vars, sessionVars, retryVars, packetVars, loaderVars, history, TypeOK, DataOK, FlagsOK
<1>. QED BY <1>1, TypeApp, TypeRunCallbacks, TypeNetwork DEF Next

\* Every variable of the engine keeps its type: in particular the retry count
\* stays below the number of packet timeouts that getRetryTimeoutMillis indexes with
\* it, and a session error is all the error cache ever holds.
THEOREM TypeCorrect == Spec => []TypeOK
BY TypeInit, TypeStep, PTL DEF Spec

-----------------------------------------------------------------------------
(* InStep is inductive for an app that makes no retry from inside networkError(), and
   the safety properties that follow from it *)


\* The variables InStep is about, but for pc.
engine == <<inProgress, request, loader, packetId, expectedPacketId, retryCount,
            retrying, blockingQueue, isAuthenticated, killSwitch, wire, sends>>

\* Where pc stands, as far as InStep can tell.
PcStays == \/ pc' = pc
           \/ pc # "networkError" /\ pc' # "networkError"

\* A step that leaves the engine alone.
LEMMA InStepFrame ==
  ASSUME InStep, UNCHANGED engine, PcStays
  PROVE  InStep'
<1>. USE DEF engine
<1>1. CallsServed'
  BY DEF InStep, CallsServed
<1>2. LoaderBusy'
  BY DEF InStep, LoaderBusy, PcStays
<1>3. RetryPending'
  BY DEF InStep, RetryPending
<1>4. QueueBlocked'
  BY DEF InStep, QueueBlocked, PcStays
<1>5. WireNumbered'
  BY DEF InStep, WireNumbered, PacketNumberNamesBundle
<1>. QED BY <1>1, <1>2, <1>3, <1>4, <1>5 DEF InStep

\* A step after which nothing is in progress, blocked or pending, and that sends
\* nothing.
LEMMA InStepIdle ==
  ASSUME InStep, TypeOK,
         inProgress' = <<>>, ~retrying', ~blockingQueue',
         loader' = "none" \/ (pc' = "networkError" /\ loader' # "loading"),
         request' \in {request, NoRequest},
         pc' # "networkError" \/ request' = NoRequest,
         packetId' \in {packetId, packetId + 1},
         UNCHANGED <<wire, sends>>
  PROVE  InStep'
<1>1. CallsServed'
  BY DEF CallsServed
<1>2. LoaderBusy'
  BY DEF LoaderBusy
<1>3. RetryPending'
  BY DEF RetryPending
<1>4. QueueBlocked'
  BY DEF QueueBlocked
<1>5. WireNumbered'
  <2>1. \A p \in wire' : p.packetId < packetId'
    <3>1. SUFFICES ASSUME NEW p \in wire PROVE p.packetId < packetId'
      OBVIOUS
    <3>2. p.packetId < packetId /\ p.packetId \in Nat /\ packetId \in Nat
      BY DEF InStep, WireNumbered, TypeOK, DataOK, Packet
    <3>. QED BY <3>2
  <2>2. (request # NoRequest => request \in wire)'
    BY DEF InStep, WireNumbered
  <2>3. PacketNumberNamesBundle'
    BY DEF InStep, WireNumbered, PacketNumberNamesBundle
  <2>4. (sends <= MaxSendAttempts)'
    BY DEF InStep, WireNumbered
  <2>. QED BY <2>1, <2>2, <2>3, <2>4 DEF WireNumbered
<1>. QED BY <1>1, <1>2, <1>3, <1>4, <1>5 DEF InStep

LEMMA InStepInit == Init => InStep
<1>. SUFFICES ASSUME Init PROVE InStep
  OBVIOUS
<1>1. CallsServed /\ LoaderBusy /\ RetryPending /\ QueueBlocked
  BY DEF Init, CallsServed, LoaderBusy, RetryPending, QueueBlocked
<1>2. WireNumbered
  BY CommsAssumption DEF Init, WireNumbered, PacketNumberNamesBundle
<1>. QED BY <1>1, <1>2 DEF InStep

\* The packet in hand keeps its number on the wire, and nothing new is numbered.
LEMMA WireKept ==
  ASSUME WireNumbered, request # NoRequest, StartHttpRequest(request),
         UNCHANGED <<request, packetId>>
  PROVE  /\ wire' = wire
         /\ \A p \in wire' : p.packetId < packetId'
         /\ (request # NoRequest => request \in wire)'
         /\ PacketNumberNamesBundle'
<1>1. wire' = wire
  BY DEF StartHttpRequest, WireNumbered
<1>. QED BY <1>1 DEF WireNumbered, PacketNumberNamesBundle

-----------------------------------------------------------------------------
(* The app *)

LEMMA InStepRetryCachedMessages ==
  ASSUME "retryInCallback" \notin Controls, TypeOK, InStep, RetryCachedMessages
  PROVE  InStep'
<1>1. pc # "networkError" /\ blockingQueue /\ request # NoRequest
  BY DEF RetryCachedMessages, AppMayAct
<1>2. inProgress # <<>> /\ loader = "none"
  BY <1>1 DEF InStep, QueueBlocked
<1>3. /\ request.calls = inProgress /\ request.packetId = packetId - 1
      /\ isAuthenticated \/ IsAuthenticating(inProgress)
      /\ ~killSwitch.engaged
  BY <1>2 DEF InStep, CallsServed
<1>4. StartHttpRequest(request) /\ UNCHANGED <<request, packetId>> /\ WireNumbered
  BY DEF RetryCachedMessages, InStep
<1>5. /\ loader' = "loading" /\ ~retrying' /\ ~blockingQueue' /\ pc' = pc
      /\ expectedPacketId' = packetId - 1 /\ retryCount' = 0 /\ sends' = 1
      /\ UNCHANGED <<request, packetId, inProgress, isAuthenticated, killSwitch>>
  BY DEF RetryCachedMessages, StartHttpRequest, ResendPacketId, sessionVars
<1>6. 1 <= SendAttempts(inProgress) /\ 1 <= MaxSendAttempts
  BY CommsAssumption DEF SendAttempts
<1>7. CallsServed'
  BY <1>1, <1>3, <1>5, <1>6 DEF CallsServed
<1>8. LoaderBusy'
  BY <1>1, <1>2, <1>3, <1>5 DEF LoaderBusy
<1>9. RetryPending' /\ QueueBlocked'
  BY <1>1, <1>5 DEF RetryPending, QueueBlocked
<1>10. WireNumbered'
  BY <1>1, <1>4, <1>5, <1>6, WireKept DEF WireNumbered
<1>. QED BY <1>7, <1>8, <1>9, <1>10 DEF InStep

LEMMA InStepFlushCachedMessages ==
  ASSUME TypeOK, InStep, NEW notify \in BOOLEAN, FlushCachedMessages(notify)
  PROVE  InStep'
<1>1. blockingQueue /\ inProgress # <<>>
  BY DEF FlushCachedMessages, InStep, QueueBlocked
<1>2. ~retrying /\ (loader = "none" \/ (pc = "networkError" /\ loader # "loading"))
  BY <1>1 DEF InStep, RetryPending, QueueBlocked, LoaderBusy
<1>3. /\ inProgress' = <<>> /\ request' = NoRequest /\ ~blockingQueue'
      /\ UNCHANGED <<pc, loader, packetId, retrying, wire, sends>>
  BY DEF FlushCachedMessages, retryVars, history
<1>. QED BY <1>2, <1>3, InStepIdle

LEMMA InStepClear ==
  ASSUME TypeOK, InStep, Clear
  PROVE  InStep'
<1>1. /\ inProgress' = <<>> /\ request' = NoRequest /\ ~blockingQueue' /\ ~retrying'
      /\ loader' = "none"
      /\ UNCHANGED <<packetId, wire, sends>>
  BY DEF Clear, ClearCalls, ForgetPacket, packetVars, history
<1>. QED BY <1>1, InStepIdle

LEMMA InStepApp ==
  ASSUME "retryInCallback" \notin Controls, TypeOK, InStep, App
  PROVE  InStep'
<1>. USE DEF loaderVars, packetVars, retryVars, sessionVars, history
<1>1. CASE \E op \in AppOps : AddToQueue(op)
  <2>1. UNCHANGED engine /\ PcStays
    BY <1>1 DEF AddToQueue, engine, PcStays
  <2>. QED BY <2>1, InStepFrame
<1>2. CASE Initialize
  <2>1. UNCHANGED engine /\ PcStays
    BY <1>2 DEF Initialize, engine, PcStays
  <2>. QED BY <2>1, InStepFrame
<1>3. CASE \E enabled \in BOOLEAN : EnableNetworkErrorMessageCaching(enabled)
  <2>1. UNCHANGED engine /\ PcStays
    BY <1>3 DEF EnableNetworkErrorMessageCaching, engine, PcStays
  <2>. QED BY <2>1, InStepFrame
<1>4. CASE RetryCachedMessages
  BY <1>4, InStepRetryCachedMessages
<1>5. CASE \E notify \in BOOLEAN : FlushCachedMessages(notify)
  BY <1>5, InStepFlushCachedMessages
<1>6. CASE ResetCommunication \/ Shutdown
  BY <1>6, InStepClear DEF ResetCommunication, Shutdown
<1>. QED BY <1>1, <1>2, <1>3, <1>4, <1>5, <1>6 DEF App

-----------------------------------------------------------------------------
(* runCallbacks *)

\* A loader that is done in a tick of its own has calls to serve.
LEMMA LoaderInTick ==
  ASSUME TypeOK, InStep, Ticking, loader # "none"
  PROVE  /\ inProgress # <<>> /\ ~blockingQueue /\ ~retrying
         /\ expectedPacketId = request.packetId
         /\ sends <= retryCount + 1
BY DEF Ticking, InStep, LoaderBusy, RetryPending

LEMMA InStepScheduleRetry ==
  ASSUME TypeOK, InStep, ScheduleRetry
  PROVE  InStep'
<1>. USE DEF packetVars, sessionVars, history
<1>1. Ticking /\ loader # "none" /\ ~(retryCount + 1 >= SendAttempts(inProgress))
  BY DEF ScheduleRetry, LoaderFailed, LastAttempt
<1>2. inProgress # <<>> /\ ~blockingQueue /\ sends <= retryCount + 1
  BY <1>1, LoaderInTick
<1>3. /\ retryCount' = retryCount + 1 /\ retrying' /\ loader' = "none" /\ pc' = "callbacks"
      /\ UNCHANGED <<inProgress, request, packetId, blockingQueue, isAuthenticated,
                     killSwitch, wire, sends>>
  BY DEF ScheduleRetry
<1>5. CallsServed'
  BY <1>3 DEF InStep, CallsServed
<1>6. LoaderBusy' /\ QueueBlocked'
  BY <1>2, <1>3 DEF LoaderBusy, QueueBlocked
<1>7. RetryPending'
  <2>1. sends' <= retryCount'
    BY <1>2, <1>3
  <2>2. retryCount' < SendAttempts(inProgress)'
    <3>1. retryCount \in Int /\ SendAttempts(inProgress) \in Int
      BY CommsAssumption DEF TypeOK, DataOK, SendAttempts
    <3>. QED BY <1>1, <1>3, <3>1
  <2>3. inProgress' # <<>> /\ loader' = "none" /\ ~blockingQueue'
    BY <1>2, <1>3
  <2>. QED BY <2>1, <2>2, <2>3 DEF RetryPending
<1>8. WireNumbered'
  BY <1>3 DEF InStep, WireNumbered, PacketNumberNamesBundle
<1>. QED BY <1>5, <1>6, <1>7, <1>8 DEF InStep

\* The steps that settle the calls in progress.
LEMMA InStepSettled ==
  ASSUME TypeOK, InStep, GiveUp \/ TakeReply \/ RefuseBundle
  PROVE  InStep'
<1>1. ~blockingQueue /\ ~retrying
  <2>1. CASE GiveUp \/ TakeReply
    BY <2>1, LoaderInTick DEF GiveUp, LoaderFailed, TakeReply
  <2>2. CASE RefuseBundle
    <3>1. Ticking /\ loader = "none" /\ ~InRetry
      BY <2>2 DEF RefuseBundle, CreatesBundle
    <3>2. ~blockingQueue
      BY <3>1 DEF Ticking
    <3>3. ~retrying
      BY <3>1 DEF InRetry, InStep, RetryPending, CallsServed
    <3>. QED BY <3>2, <3>3
  <2>. QED BY <2>1, <2>2
<1>2. /\ inProgress' = <<>> /\ loader' = "none" /\ ~retrying' /\ pc' = "callbacks"
      /\ UNCHANGED <<request, blockingQueue, wire, sends>>
  BY <1>1 DEF GiveUp, TakeReply, RefuseBundle, CreatesBundle, loaderVars, retryVars, history
<1>3. packetId' \in {packetId, packetId + 1}
  BY DEF GiveUp, TakeReply, RefuseBundle
<1>. QED BY <1>1, <1>2, <1>3, InStepIdle

LEMMA InStepBlockQueue ==
  ASSUME TypeOK, InStep, BlockQueue
  PROVE  InStep'
<1>. USE DEF loaderVars, packetVars, sessionVars, history
<1>1. Ticking /\ loader = "failed"
  BY DEF BlockQueue, LoaderFailed
<1>2. inProgress # <<>>
  BY <1>1, LoaderInTick
<1>3. /\ ~retrying' /\ blockingQueue' /\ pc' = "networkError"
      /\ UNCHANGED <<inProgress, request, loader, packetId, isAuthenticated,
                     killSwitch, wire, sends>>
  BY DEF BlockQueue
<1>4. CallsServed'
  BY <1>3 DEF InStep, CallsServed
<1>5. LoaderBusy' /\ RetryPending' /\ QueueBlocked'
  BY <1>1, <1>2, <1>3 DEF LoaderBusy, RetryPending, QueueBlocked
<1>6. WireNumbered'
  BY <1>3 DEF InStep, WireNumbered, PacketNumberNamesBundle
<1>. QED BY <1>4, <1>5, <1>6 DEF InStep

\* If networkError() left calls in progress the queue is still blocked.
LEMMA InStepNetworkErrorReturns ==
  ASSUME TypeOK, InStep, NetworkErrorReturns
  PROVE  InStep'
<1>. USE DEF retryVars, sessionVars, history
<1>1. pc = "networkError"
  BY DEF NetworkErrorReturns
<1>2. /\ loader' = "none" /\ pc' = "callbacks"
      /\ UNCHANGED <<inProgress, request, packetId, retryCount, retrying, blockingQueue,
                     isAuthenticated, killSwitch, wire, sends>>
  BY DEF NetworkErrorReturns
<1>3. inProgress # <<>> => blockingQueue
  BY <1>1 DEF InStep, QueueBlocked
<1>4. CallsServed'
  BY <1>2, <1>3 DEF InStep, CallsServed
<1>5. LoaderBusy' /\ QueueBlocked'
  BY <1>2, <1>3 DEF InStep, LoaderBusy, QueueBlocked
<1>6. RetryPending'
  <2>1. retrying => ~blockingQueue /\ inProgress # <<>>
    BY DEF InStep, RetryPending
  <2>. QED BY <1>2, <1>3, <2>1 DEF RetryPending
<1>7. WireNumbered'
  BY <1>2 DEF InStep, WireNumbered, PacketNumberNamesBundle
<1>. QED BY <1>4, <1>5, <1>6, <1>7 DEF InStep

LEMMA InStepResend ==
  ASSUME TypeOK, InStep, Resend
  PROVE  InStep'
<1>. USE DEF sessionVars
<1>1. retrying /\ request # NoRequest /\ pc = "idle"
  BY DEF Resend, InRetry, Ticking
<1>2. /\ inProgress # <<>> /\ ~blockingQueue
      /\ sends <= retryCount /\ retryCount < SendAttempts(inProgress)
  BY <1>1 DEF InStep, RetryPending
<1>3. /\ loader' = "loading" /\ ~retrying' /\ pc' = "callbacks"
      /\ expectedPacketId' = packetId - 1 /\ sends' = sends + 1
      /\ UNCHANGED <<inProgress, request, packetId, retryCount, blockingQueue,
                     isAuthenticated, killSwitch>>
  BY DEF Resend, StartHttpRequest, ResendPacketId
<1>4. /\ SendAttempts(inProgress)' = SendAttempts(inProgress)
      /\ SendAttempts(inProgress) \in Nat /\ SendAttempts(inProgress) <= MaxSendAttempts
  BY <1>3, CommsAssumption DEF SendAttempts, IsRetried
<1>5. sends' <= retryCount' + 1 /\ sends' <= SendAttempts(inProgress)' /\ sends' <= MaxSendAttempts
  <2>1. sends \in Nat /\ retryCount \in Nat /\ MaxSendAttempts \in Nat
    BY CommsAssumption DEF TypeOK, DataOK
  <2>. QED BY <1>2, <1>3, <1>4, <2>1
<1>6. CallsServed'
  BY <1>3, <1>5 DEF InStep, CallsServed
<1>7. LoaderBusy'
  <2>1. request.packetId = packetId - 1
    BY <1>1, <1>2 DEF InStep, CallsServed
  <2>. QED BY <1>2, <1>3, <1>5, <2>1 DEF LoaderBusy
<1>8. RetryPending' /\ QueueBlocked'
  BY <1>2, <1>3 DEF RetryPending, QueueBlocked
<1>9. WireNumbered'
  <2>1. StartHttpRequest(request) /\ WireNumbered /\ UNCHANGED <<request, packetId>>
    BY <1>3 DEF Resend, InStep
  <2>. QED BY <1>1, <1>5, <2>1, WireKept DEF WireNumbered
<1>. QED BY <1>6, <1>7, <1>8, <1>9 DEF InStep

\* A bundle is made only when no calls are in progress.
LEMMA BundleFromIdle ==
  ASSUME TypeOK, InStep, CreatesBundle
  PROVE  inProgress = <<>> /\ ~blockingQueue /\ ~retrying
<1>1. loader = "none" /\ ~blockingQueue /\ ~InRetry
  BY DEF CreatesBundle, Ticking
<1>2. ~retrying
  BY <1>1 DEF InRetry, InStep, RetryPending, CallsServed
<1>3. inProgress = <<>>
  BY <1>1, <1>2 DEF InStep, CallsServed
<1>. QED BY <1>1, <1>2, <1>3

LEMMA InStepSendBundle ==
  ASSUME TypeOK, InStep, SendBundle
  PROVE  InStep'
<1>. USE DEF sessionVars
<1>1. inProgress = <<>> /\ ~blockingQueue
  BY BundleFromIdle DEF SendBundle
<1>2. Bundle \in Seq(Call) /\ Bundle # <<>> /\ packetId \in Nat
  BY BundleType DEF SendBundle, TypeOK, DataOK
<1>3. inProgress' = Bundle
  BY <1>1, <1>2 DEF SendBundle
<1>4. /\ request' = [packetId |-> packetId, calls |-> Bundle]
      /\ packetId' = packetId + 1 /\ expectedPacketId' = packetId
      /\ loader' = "loading" /\ ~retrying' /\ pc' = "callbacks" /\ sends' = 1
      /\ wire' = wire \cup {request'}
      /\ UNCHANGED <<retryCount, blockingQueue, isAuthenticated, killSwitch>>
  BY DEF SendBundle, StartHttpRequest, Payload
<1>5. request' # NoRequest
  BY <1>2, <1>4 DEF NoRequest
<1>6. 1 <= SendAttempts(inProgress)' /\ 1 <= MaxSendAttempts
  BY CommsAssumption DEF SendAttempts
<1>7. CallsServed'
  <2>1. ~killSwitch'.engaged
    BY <1>4 DEF SendBundle, Refused
  <2>2. isAuthenticated' \/ IsAuthenticating(inProgress)'
    BY <1>3, <1>4 DEF SendBundle, Refused, IsAuthenticating
  <2>3. request'.packetId = packetId' - 1
    BY <1>2, <1>4
  <2>. QED BY <1>3, <1>4, <1>5, <1>6, <2>1, <2>2, <2>3 DEF CallsServed
<1>8. LoaderBusy'
  <2>1. sends' <= retryCount' + 1
    BY <1>4 DEF TypeOK, DataOK
  <2>. QED BY <1>1, <1>2, <1>3, <1>4, <2>1 DEF LoaderBusy
<1>9. RetryPending' /\ QueueBlocked'
  BY <1>1, <1>4 DEF RetryPending, QueueBlocked
<1>10. WireNumbered'
  <2>1. \A p \in wire : p.packetId < packetId /\ p.packetId \in Nat
    BY DEF InStep, WireNumbered, TypeOK, DataOK, Packet
  <2>2. \A p \in wire' : p.packetId < packetId'
    BY <1>2, <1>4, <2>1
  <2>3. PacketNumberNamesBundle'
    <3>1. SUFFICES ASSUME NEW p \in wire', NEW q \in wire', p.packetId = q.packetId
                   PROVE  p = q
      BY DEF PacketNumberNamesBundle
    <3>3. p \in wire <=> q \in wire
      BY <1>4, <2>1, <3>1
    <3>4. CASE p \in wire /\ q \in wire
      BY <3>1, <3>4 DEF InStep, WireNumbered, PacketNumberNamesBundle
    <3>5. CASE p \notin wire /\ q \notin wire
      BY <1>4, <3>5
    <3>. QED BY <3>3, <3>4, <3>5
  <2>4. (request # NoRequest => request \in wire)' /\ (sends <= MaxSendAttempts)'
    BY <1>4, <1>6
  <2>. QED BY <2>2, <2>3, <2>4 DEF WireNumbered
<1>. QED BY <1>7, <1>8, <1>9, <1>10 DEF InStep

LEMMA InStepRunCallbacks ==
  ASSUME TypeOK, InStep, RunCallbacks
  PROVE  InStep'
<1>. USE DEF loaderVars, packetVars, retryVars, sessionVars, history
<1>1. CASE TossQueue \/ SendHeartbeat \/ NothingToDo
  <2>1. UNCHANGED engine
    BY <1>1 DEF TossQueue, SendHeartbeat, NothingToDo, engine
  <2>2. PcStays
    BY <1>1 DEF TossQueue, CreatesBundle, SendHeartbeat, NothingToDo, Ticking, PcStays
  <2>. QED BY <2>1, <2>2, InStepFrame
<1>2. CASE RunApiCallback \/ ReturnFromRunCallbacks
  <2>1. UNCHANGED engine
    BY <1>2 DEF RunApiCallback, ReturnFromRunCallbacks, engine
  <2>2. PcStays
    BY <1>2 DEF RunApiCallback, ReturnFromRunCallbacks, PcStays
  <2>. QED BY <2>1, <2>2, InStepFrame
<1>. QED BY <1>1, <1>2, InStepScheduleRetry, InStepSettled, InStepBlockQueue,
            InStepNetworkErrorReturns, InStepResend, InStepSendBundle DEF RunCallbacks

LEMMA InStepNetwork ==
  ASSUME TypeOK, InStep, Network
  PROVE  InStep'
<1>. USE DEF packetVars, retryVars, sessionVars, history
<1>1. /\ loader = "loading" /\ loader' \in {"replied", "failed"}
      /\ UNCHANGED <<pc, inProgress, request, packetId, expectedPacketId, retryCount,
                     retrying, blockingQueue, isAuthenticated, killSwitch, wire, sends>>
  <2>1. CASE ServerReplies
    BY <2>1 DEF ServerReplies, LoaderReturns
  <2>2. CASE NetworkFails
    BY <2>2 DEF NetworkFails, LoaderReturns
  <2>3. CASE ServerOutOfSync
    BY <2>3 DEF ServerOutOfSync, LoaderReturns
  <2>. QED BY <2>1, <2>2, <2>3 DEF Network
<1>2. CallsServed'
  BY <1>1 DEF InStep, CallsServed
<1>3. LoaderBusy'
  BY <1>1 DEF InStep, LoaderBusy
<1>4. RetryPending' /\ QueueBlocked'
  <2>1. pc # "networkError" /\ ~retrying /\ ~blockingQueue
    BY <1>1 DEF InStep, LoaderBusy, RetryPending
  <2>. QED BY <1>1, <2>1 DEF RetryPending, QueueBlocked
<1>5. WireNumbered'
  BY <1>1 DEF InStep, WireNumbered, PacketNumberNamesBundle
<1>. QED BY <1>2, <1>3, <1>4, <1>5 DEF InStep

-----------------------------------------------------------------------------
(* The theorems *)

LEMMA InStepStep ==
  ASSUME "retryInCallback" \notin Controls, TypeOK, InStep, [Next]_vars
  PROVE  InStep'
<1>1. CASE UNCHANGED vars
  <2>1. UNCHANGED engine /\ PcStays
    BY <1>1 DEF vars, engine, PcStays, loaderVars, packetVars, retryVars, sessionVars, history
  <2>. QED BY <2>1, InStepFrame
<1>. QED BY <1>1, InStepApp, InStepRunCallbacks, InStepNetwork DEF Next

\* For an app that makes no retry from inside networkError(), the loader, the
\* request, the packet numbers, the retry state and the calls in progress agree at
\* every step of runCallbacks, whatever the app, the network and the server do.
THEOREM EngineInStep ==
  ASSUME "retryInCallback" \notin Controls
  PROVE  Spec => []CommsInStep
<1>1. Init => CommsInStep
  BY TypeInit, InStepInit DEF CommsInStep
<1>2. CommsInStep /\ [Next]_vars => CommsInStep'
  BY TypeStep, InStepStep DEF CommsInStep
<1>. QED BY <1>1, <1>2, PTL DEF Spec

\* The invariants of the runs that follow from InStep.
LEMMA InStepImplies ==
  ASSUME TypeOK, InStep
  PROVE  /\ NoStrandedCalls /\ LoaderServesInProgress /\ SessionGuardsTraffic
         /\ AttemptsBounded /\ PacketNumberNamesBundle /\ KillSwitchSilences
<1>1. NoStrandedCalls
  BY DEF InStep, CallsServed, NoStrandedCalls
<1>2. LoaderServesInProgress
  BY DEF InStep, CallsServed, LoaderBusy, LoaderServesInProgress
<1>3. SessionGuardsTraffic
  <2>1. SUFFICES ASSUME loader = "loading"
                 PROVE  isAuthenticated \/ IsAuthenticating(request.calls)
    BY DEF SessionGuardsTraffic
  <2>2. inProgress # <<>>
    BY <2>1 DEF InStep, LoaderBusy
  <2>. QED BY <2>2 DEF InStep, CallsServed
<1>4. AttemptsBounded
  <2>. DEFINE auth == \E i \in DOMAIN request.calls : request.calls[i].op = "authenticate"
  <2>1. SUFFICES ASSUME loader # "none"
                 PROVE  sends <= IF auth THEN 1 ELSE MaxSendAttempts
    BY DEF AttemptsBounded
  <2>2. CASE ~auth
    BY <2>2 DEF InStep, WireNumbered
  <2>3. CASE auth
    <3>1. request # NoRequest
      BY <2>3 DEF NoRequest
    <3>2. inProgress # <<>>
      BY <2>1, <3>1 DEF InStep, LoaderBusy, QueueBlocked
    <3>. QED BY <2>3, <3>2 DEF InStep, CallsServed, SendAttempts, IsRetried
  <2>. QED BY <2>2, <2>3
<1>5. PacketNumberNamesBundle
  BY DEF InStep, WireNumbered
<1>6. KillSwitchSilences
  <2>1. SUFFICES ASSUME killSwitch.engaged PROVE loader # "loading" /\ ~retrying
    BY DEF KillSwitchSilences
  <2>2. inProgress = <<>>
    BY <2>1 DEF InStep, CallsServed
  <2>. QED BY <2>2 DEF InStep, LoaderBusy, RetryPending
<1>. QED BY <1>1, <1>2, <1>3, <1>4, <1>5, <1>6

\* runCallbacks, the app and the network never leave calls in progress that no
\* later frame picks up.
THEOREM NoCallIsStranded ==
  ASSUME "retryInCallback" \notin Controls
  PROVE  Spec => []NoStrandedCalls
<1>1. Spec => []CommsInStep
  BY EngineInStep
<1>2. CommsInStep => NoStrandedCalls
  BY InStepImplies DEF CommsInStep
<1>. QED BY <1>1, <1>2, PTL

\* The loader works for the calls in progress and under the number expected back,
\* through retries (Resend), retryCachedMessages, flushCachedMessages and resets.
THEOREM LoaderServes ==
  ASSUME "retryInCallback" \notin Controls
  PROVE  Spec => []LoaderServesInProgress
<1>1. Spec => []CommsInStep
  BY EngineInStep
<1>2. CommsInStep => LoaderServesInProgress
  BY InStepImplies DEF CommsInStep
<1>. QED BY <1>1, <1>2, PTL

\* createAndSendBundle's session check also covers what is resent later.
THEOREM SessionIsGuarded ==
  ASSUME "retryInCallback" \notin Controls
  PROVE  Spec => []SessionGuardsTraffic
<1>1. Spec => []CommsInStep
  BY EngineInStep
<1>2. CommsInStep => SessionGuardsTraffic
  BY InStepImplies DEF CommsInStep
<1>. QED BY <1>1, <1>2, PTL

\* handleError lets no packet out more often than getMaxSendAttempts, although
\* _retryCount is carried over from one packet to the next.
THEOREM AttemptsAreBounded ==
  ASSUME "retryInCallback" \notin Controls
  PROVE  Spec => []AttemptsBounded
<1>1. Spec => []CommsInStep
  BY EngineInStep
<1>2. CommsInStep => AttemptsBounded
  BY InStepImplies DEF CommsInStep
<1>. QED BY <1>1, <1>2, PTL

\* _packetId is never reused for another bundle, though retries count back from it.
THEOREM NumbersNameBundles ==
  ASSUME "retryInCallback" \notin Controls
  PROVE  Spec => []PacketNumberNamesBundle
<1>1. Spec => []CommsInStep
  BY EngineInStep
<1>2. CommsInStep => PacketNumberNamesBundle
  BY InStepImplies DEF CommsInStep
<1>. QED BY <1>1, <1>2, PTL

\* An engaged kill switch leaves nothing in transit and nothing to be resent.
THEOREM KillSwitchIsSilent ==
  ASSUME "retryInCallback" \notin Controls
  PROVE  Spec => []KillSwitchSilences
<1>1. Spec => []CommsInStep
  BY EngineInStep
<1>2. CommsInStep => KillSwitchSilences
  BY InStepImplies DEF CommsInStep
<1>. QED BY <1>1, <1>2, PTL

\* While the queue is blocked no step numbers or sends a packet.
THEOREM BlockedIsFrozen == Spec => BlockedMeansFrozen
<1>. DEFINE Frozen == blockingQueue /\ blockingQueue' => UNCHANGED <<packetId, wire, sends>>
<1>1. ASSUME [Next]_vars PROVE Frozen
  <2>. SUFFICES ASSUME blockingQueue, blockingQueue'
                PROVE  UNCHANGED <<packetId, wire, sends>>
    OBVIOUS
  <2>. USE DEF loaderVars, packetVars, retryVars, sessionVars, history
  <2>1. CASE UNCHANGED vars
    BY <2>1 DEF vars
  <2>2. CASE App
    BY <2>2 DEF App, AddToQueue, Push, Initialize, EnableNetworkErrorMessageCaching,
       RetryCachedMessages, FlushCachedMessages, ResetCommunication, Shutdown, Clear
  <2>3. CASE RunCallbacks
    BY <2>3 DEF RunCallbacks, Ticking, LoaderFailed, CreatesBundle, ScheduleRetry, GiveUp,
       BlockQueue, NetworkErrorReturns, TakeReply, Resend, TossQueue, RefuseBundle,
       SendBundle, SendHeartbeat, NothingToDo, RunApiCallback, ReturnFromRunCallbacks
  <2>4. CASE Network
    BY <2>4 DEF Network, ServerReplies, NetworkFails, ServerOutOfSync, LoaderReturns
  <2>. QED BY <1>1, <2>1, <2>2, <2>3, <2>4 DEF Next
<1>2. [Next]_vars => [Frozen]_vars
  BY <1>1
<1>. QED BY <1>2, PTL DEF Spec, BlockedMeansFrozen

-----------------------------------------------------------------------------
(***************************************************************************)
(* The order of the calls, what a packet carries, and whose reply a        *)
(* callback is given.                                                      *)
(***************************************************************************)

(* Sequences of calls in order *)

\* c may come before d on the way from the queue to the callbacks.
MayPrecede(c, d) ==
  /\ c.id # d.id
  /\ c.op \notin Authenticating => c.id < d.id

Ordered(s)     == \A i, j \in DOMAIN s : i < j => MayPrecede(s[i], s[j])
Precedes(s, t) == \A i \in DOMAIN s, j \in DOMAIN t : MayPrecede(s[i], t[j])
Within(s, t)   == \A i \in DOMAIN s : \E j \in DOMAIN t : s[i] = t[j]

LEMMA PipelineOrdered == PipelineInOrder <=> Ordered(Pipeline)
BY DEF PipelineInOrder, Ordered, MayPrecede

\* The elements of a concatenation.
LEMMA ConcatElements ==
  ASSUME NEW T, NEW s \in Seq(T), NEW t \in Seq(T)
  PROVE  /\ s \o t \in Seq(T)
         /\ \A i \in DOMAIN s : i \in DOMAIN (s \o t) /\ (s \o t)[i] = s[i]
         /\ \A j \in DOMAIN t : /\ Len(s) + j \in DOMAIN (s \o t)
                                /\ (s \o t)[Len(s) + j] = t[j]
         /\ \A k \in DOMAIN (s \o t) :
              \/ k \in DOMAIN s
              \/ k - Len(s) \in DOMAIN t /\ k = Len(s) + (k - Len(s))
OBVIOUS

LEMMA OrderedConcat ==
  ASSUME NEW s \in Seq(Call), NEW t \in Seq(Call)
  PROVE  Ordered(s \o t) <=> Ordered(s) /\ Ordered(t) /\ Precedes(s, t)
<1>0. /\ Len(s) \in Nat /\ Len(t) \in Nat
      /\ DOMAIN s = 1 .. Len(s) /\ DOMAIN t = 1 .. Len(t)
  OBVIOUS
<1>1. ASSUME Ordered(s \o t) PROVE Ordered(s) /\ Ordered(t) /\ Precedes(s, t)
  <2>1. ASSUME NEW i \in DOMAIN s, NEW j \in DOMAIN s, i < j PROVE MayPrecede(s[i], s[j])
    <3>1. /\ i \in DOMAIN (s \o t) /\ (s \o t)[i] = s[i]
          /\ j \in DOMAIN (s \o t) /\ (s \o t)[j] = s[j]
      BY ConcatElements
    <3>. QED BY <1>1, <2>1, <3>1, Zenon DEF Ordered
  <2>2. ASSUME NEW i \in DOMAIN t, NEW j \in DOMAIN t, i < j PROVE MayPrecede(t[i], t[j])
    <3>1. Len(s) + i < Len(s) + j
      BY <1>0, <2>2
    <3>. QED BY <1>1, <3>1, ConcatElements DEF Ordered
  <2>3. ASSUME NEW i \in DOMAIN s, NEW j \in DOMAIN t PROVE MayPrecede(s[i], t[j])
    <3>1. i < Len(s) + j
      BY <1>0
    <3>. QED BY <1>1, <3>1, ConcatElements DEF Ordered
  <2>. QED BY <2>1, <2>2, <2>3 DEF Ordered, Precedes
<1>2. ASSUME Ordered(s), Ordered(t), Precedes(s, t),
             NEW i \in DOMAIN (s \o t), NEW j \in DOMAIN (s \o t), i < j
      PROVE  MayPrecede((s \o t)[i], (s \o t)[j])
  <2>1. CASE i \in DOMAIN s /\ j \in DOMAIN s
    BY <1>2, <2>1, ConcatElements DEF Ordered
  <2>2. CASE i \in DOMAIN s /\ j \notin DOMAIN s
    BY <1>2, <2>2, ConcatElements DEF Precedes
  <2>3. CASE i \notin DOMAIN s
    <3>1. i - Len(s) \in DOMAIN t /\ j - Len(s) \in DOMAIN t /\ i - Len(s) < j - Len(s)
      BY <1>0, <1>2, <2>3
    <3>2. (s \o t)[i] = t[i - Len(s)] /\ (s \o t)[j] = t[j - Len(s)]
      BY <1>0, <3>1, ConcatElements
    <3>. QED BY <1>2, <3>1, <3>2 DEF Ordered
  <2>. QED BY <2>1, <2>2, <2>3
<1>. QED BY <1>1, <1>2 DEF Ordered

LEMMA PrecedesConcat ==
  ASSUME NEW s \in Seq(Call), NEW t \in Seq(Call), NEW u
  PROVE  /\ Precedes(s \o t, u) <=> Precedes(s, u) /\ Precedes(t, u)
         /\ Precedes(u, s \o t) <=> Precedes(u, s) /\ Precedes(u, t)
         /\ Within(s \o t, u) <=> Within(s, u) /\ Within(t, u)
         /\ Within(s, s \o t) /\ Within(t, s \o t)
<1>1. ASSUME NEW k \in DOMAIN (s \o t)
      PROVE  \/ k \in DOMAIN s /\ (s \o t)[k] = s[k]
             \/ \E j \in DOMAIN t : (s \o t)[k] = t[j]
  BY ConcatElements
<1>2. ASSUME NEW i \in DOMAIN s PROVE \E k \in DOMAIN (s \o t) : (s \o t)[k] = s[i]
  BY ConcatElements
<1>3. ASSUME NEW j \in DOMAIN t PROVE \E k \in DOMAIN (s \o t) : (s \o t)[k] = t[j]
  <2>1. Len(s) + j \in DOMAIN (s \o t) /\ (s \o t)[Len(s) + j] = t[j]
    BY ConcatElements
  <2>. QED BY <2>1
<1>4. Precedes(s \o t, u) <=> Precedes(s, u) /\ Precedes(t, u)
  <2>1. ASSUME Precedes(s \o t, u) PROVE Precedes(s, u) /\ Precedes(t, u)
    BY <1>2, <1>3, <2>1, Zenon DEF Precedes
  <2>2. ASSUME Precedes(s, u), Precedes(t, u) PROVE Precedes(s \o t, u)
    BY <1>1, <2>2, Zenon DEF Precedes
  <2>. QED BY <2>1, <2>2
<1>5. Precedes(u, s \o t) <=> Precedes(u, s) /\ Precedes(u, t)
  <2>1. ASSUME Precedes(u, s \o t) PROVE Precedes(u, s) /\ Precedes(u, t)
    BY <1>2, <1>3, <2>1, Zenon DEF Precedes
  <2>2. ASSUME Precedes(u, s), Precedes(u, t) PROVE Precedes(u, s \o t)
    BY <1>1, <2>2, Zenon DEF Precedes
  <2>. QED BY <2>1, <2>2
<1>6. Within(s \o t, u) <=> Within(s, u) /\ Within(t, u)
  <2>1. ASSUME Within(s \o t, u) PROVE Within(s, u) /\ Within(t, u)
    <3>1. ASSUME NEW i \in DOMAIN s PROVE \E k \in DOMAIN u : s[i] = u[k]
      BY <1>2, <2>1 DEF Within
    <3>2. ASSUME NEW i \in DOMAIN t PROVE \E k \in DOMAIN u : t[i] = u[k]
      BY <1>3, <2>1 DEF Within
    <3>. QED BY <3>1, <3>2 DEF Within
  <2>2. ASSUME Within(s, u), Within(t, u) PROVE Within(s \o t, u)
    <3>1. ASSUME NEW k \in DOMAIN (s \o t) PROVE \E i \in DOMAIN u : (s \o t)[k] = u[i]
      <4>1. CASE k \in DOMAIN s /\ (s \o t)[k] = s[k]
        BY <2>2, <4>1 DEF Within
      <4>2. CASE \E j \in DOMAIN t : (s \o t)[k] = t[j]
        BY <2>2, <4>2 DEF Within
      <4>. QED BY <1>1, <4>1, <4>2
    <3>. QED BY <3>1 DEF Within
  <2>. QED BY <2>1, <2>2
<1>7. Within(s, s \o t) /\ Within(t, s \o t)
  BY <1>2, <1>3, Zenon DEF Within
<1>. QED BY <1>4, <1>5, <1>6, <1>7

\* Leaving out or moving elements leaves them on the same side of the others.
LEMMA PrecedesWithin ==
  ASSUME NEW s, NEW t, NEW u, Within(s, t)
  PROVE  /\ Precedes(t, u) => Precedes(s, u)
         /\ Precedes(u, t) => Precedes(u, s)
BY DEF Within, Precedes

\* Positions that are selected keep their order.
LEMMA SelectOrdered ==
  ASSUME NEW s \in Seq(Call), NEW S \in SUBSET (DOMAIN s)
  PROVE  /\ Select(s, S) \in Seq(Call)
         /\ Within(Select(s, S), s)
         /\ Ordered(s) => Ordered(Select(s, S))
<1>1. /\ Select(s, S) \in Seq(Call) /\ Len(Select(s, S)) = Cardinality(S)
      /\ \A k \in 1 .. Cardinality(S) :
           InOrder(S)[k] \in S /\ Select(s, S)[k] = s[InOrder(S)[k]]
  BY SelectType
<1>2. DOMAIN Select(s, S) = 1 .. Cardinality(S)
  BY <1>1
<1>3. \A i, j \in 1 .. Cardinality(S) : i < j => InOrder(S)[i] < InOrder(S)[j]
  <2>1. DOMAIN s = 1 .. Len(s) /\ Len(s) \in Nat
    OBVIOUS
  <2>. QED BY <2>1, InOrderEnumerates DEF Enumerates
<1>4. Within(Select(s, S), s)
  BY <1>1, <1>2, Zenon DEF Within
<1>5. ASSUME Ordered(s), NEW i \in 1 .. Cardinality(S), NEW j \in 1 .. Cardinality(S), i < j
      PROVE  MayPrecede(Select(s, S)[i], Select(s, S)[j])
  <2>1. /\ InOrder(S)[i] \in DOMAIN s /\ InOrder(S)[j] \in DOMAIN s
        /\ InOrder(S)[i] < InOrder(S)[j]
    BY <1>1, <1>3, <1>5
  <2>. QED BY <1>1, <1>5, <2>1 DEF Ordered
<1>. QED BY <1>1, <1>2, <1>4, <1>5 DEF Ordered

-----------------------------------------------------------------------------
(* The calls of callback events *)

LEMMA CallsOfType ==
  ASSUME NEW events \in Seq(Event)
  PROVE  /\ CallsOf(events) \in Seq(Call)
         /\ DOMAIN CallsOf(events) = DOMAIN events
         /\ Len(CallsOf(events)) = Len(events)
         /\ \A i \in DOMAIN events : CallsOf(events)[i] = events[i].call
<1>1. Len(events) \in Nat /\ DOMAIN events = 1 .. Len(events)
  OBVIOUS
<1>2. \A i \in DOMAIN events : events[i].call \in Call
  <2>1. \A e \in Event : e.call \in Call
    BY DEF Event
  <2>2. \A i \in DOMAIN events : events[i] \in Event
    OBVIOUS
  <2>. QED BY <2>1, <2>2
<1>3. CallsOf(events) \in [1 .. Len(events) -> Call]
  BY <1>1, <1>2 DEF CallsOf
<1>. QED BY <1>1, <1>3 DEF CallsOf

LEMMA CallsOfConcat ==
  ASSUME NEW s \in Seq(Event), NEW t \in Seq(Event)
  PROVE  CallsOf(s \o t) = CallsOf(s) \o CallsOf(t)
<1>. DEFINE one == CallsOf(s \o t)
            two == CallsOf(s) \o CallsOf(t)
<1>1. /\ Len(s) \in Nat /\ DOMAIN s = 1 .. Len(s)
      /\ Len(t) \in Nat /\ DOMAIN t = 1 .. Len(t)
      /\ s \o t \in Seq(Event) /\ Len(s \o t) = Len(s) + Len(t)
  OBVIOUS
<1>2. one \in Seq(Call) /\ Len(one) = Len(s) + Len(t)
  BY <1>1, CallsOfType
<1>3. two \in Seq(Call) /\ Len(two) = Len(s) + Len(t)
  <2>1. /\ CallsOf(s) \in Seq(Call) /\ Len(CallsOf(s)) = Len(s)
        /\ CallsOf(t) \in Seq(Call) /\ Len(CallsOf(t)) = Len(t)
    BY CallsOfType
  <2>2. \A a, b \in Seq(Call) : a \o b \in Seq(Call) /\ Len(a \o b) = Len(a) + Len(b)
    BY ConcatProperties
  <2>3. /\ CallsOf(s) \o CallsOf(t) \in Seq(Call)
        /\ Len(CallsOf(s) \o CallsOf(t)) = Len(CallsOf(s)) + Len(CallsOf(t))
    BY <2>1, <2>2
  <2>. QED BY <2>1, <2>3
<1>4. ASSUME NEW i \in 1 .. Len(one) PROVE one[i] = two[i]
  <2>1. i \in DOMAIN (s \o t) /\ one[i] = (s \o t)[i].call
    <3>1. DOMAIN (s \o t) = 1 .. Len(s \o t)
      BY <1>1
    <3>2. i \in DOMAIN (s \o t)
      BY <1>1, <1>2, <3>1
    <3>. QED BY <1>1, <3>2, CallsOfType
  <2>2. CASE i \in DOMAIN s
    BY <1>1, <2>1, <2>2, CallsOfType, ConcatElements
  <2>3. CASE i - Len(s) \in DOMAIN t /\ i = Len(s) + (i - Len(s))
    <3>1. (s \o t)[i] = t[i - Len(s)]
      BY <2>3, ConcatElements
    <3>2. two[i] = CallsOf(t)[i - Len(s)]
      BY <2>3, CallsOfType, ConcatElements
    <3>. QED BY <2>1, <2>3, <3>1, <3>2, CallsOfType
  <2>. QED BY <2>1, <2>2, <2>3, ConcatElements
<1>. HIDE DEF one, two
<1>5. one = two
  BY <1>2, <1>3, <1>4, SeqEqual
<1>. QED BY <1>5 DEF one, two

\* An event pairs a call with the reply at its position.
LEMMA EventsPair ==
  ASSUME NEW calls \in Seq(Call), NEW replies \in [1 .. Len(calls) -> Reply]
  PROVE  \A k \in DOMAIN EventsFor(calls, replies) : \E i \in DOMAIN calls :
           /\ EventsFor(calls, replies)[k].call = calls[i]
           /\ EventsFor(calls, replies)[k].reply = replies[i]
<1>. DEFINE all == [i \in DOMAIN calls |-> [call |-> calls[i], reply |-> replies[i]]]
            S == {i \in DOMAIN calls : HasCallback(calls[i])}
<1>1. all \in [1 .. Len(calls) -> Event]
  BY DEF Event
<1>2. all \in Seq(Event) /\ DOMAIN all = DOMAIN calls
  BY <1>1
<1>3. S \in SUBSET (DOMAIN all)
  BY <1>2
<1>. HIDE DEF all, S
<1>4. /\ Select(all, S) \in Seq(Event) /\ Len(Select(all, S)) = Cardinality(S)
      /\ \A k \in 1 .. Cardinality(S) :
           InOrder(S)[k] \in S /\ Select(all, S)[k] = all[InOrder(S)[k]]
  BY <1>2, <1>3, SelectType
<1>5. ASSUME NEW k \in DOMAIN Select(all, S)
      PROVE  \E i \in DOMAIN calls : /\ Select(all, S)[k].call = calls[i]
                                     /\ Select(all, S)[k].reply = replies[i]
  <2>1. DOMAIN Select(all, S) = 1 .. Cardinality(S)
    BY <1>4
  <2>2. InOrder(S)[k] \in DOMAIN calls /\ Select(all, S)[k] = all[InOrder(S)[k]]
    BY <1>2, <1>3, <1>4, <2>1
  <2>3. ASSUME NEW i \in DOMAIN calls PROVE all[i].call = calls[i] /\ all[i].reply = replies[i]
    BY DEF all
  <2>. QED BY <2>2, <2>3
<1>. QED BY <1>5 DEF EventsFor, all, S

\* The events of a bundle are for calls of the bundle, in its order.
LEMMA EventsOrdered ==
  ASSUME NEW calls \in Seq(Call), NEW replies \in [1 .. Len(calls) -> Reply]
  PROVE  /\ EventsFor(calls, replies) \in Seq(Event)
         /\ CallsOf(EventsFor(calls, replies)) \in Seq(Call)
         /\ Within(CallsOf(EventsFor(calls, replies)), calls)
         /\ Ordered(calls) => Ordered(CallsOf(EventsFor(calls, replies)))
<1>. DEFINE all == [i \in DOMAIN calls |-> [call |-> calls[i], reply |-> replies[i]]]
            S == {i \in DOMAIN calls : HasCallback(calls[i])}
            events == Select(all, S)
<1>1. all \in [1 .. Len(calls) -> Event]
  BY DEF Event
<1>2. all \in Seq(Event) /\ DOMAIN all = DOMAIN calls
  BY <1>1
<1>3. S \in SUBSET (DOMAIN all) /\ S \in SUBSET (DOMAIN calls)
  BY <1>2
<1>. HIDE DEF all, S
<1>4. /\ events \in Seq(Event) /\ Len(events) = Cardinality(S)
      /\ \A k \in 1 .. Cardinality(S) :
           InOrder(S)[k] \in S /\ events[k] = all[InOrder(S)[k]]
  BY <1>2, <1>3, SelectType
<1>5. /\ Select(calls, S) \in Seq(Call) /\ Len(Select(calls, S)) = Cardinality(S)
      /\ \A k \in 1 .. Cardinality(S) : Select(calls, S)[k] = calls[InOrder(S)[k]]
  BY <1>3, SelectType
<1>6. /\ CallsOf(events) \in Seq(Call) /\ Len(CallsOf(events)) = Cardinality(S)
      /\ \A k \in DOMAIN events : CallsOf(events)[k] = events[k].call
  BY <1>4, CallsOfType
<1>7. ASSUME NEW k \in 1 .. Cardinality(S) PROVE CallsOf(events)[k] = Select(calls, S)[k]
  <2>1. DOMAIN events = 1 .. Cardinality(S) /\ DOMAIN all = DOMAIN calls
    BY <1>2, <1>4
  <2>2. CallsOf(events)[k] = all[InOrder(S)[k]].call /\ InOrder(S)[k] \in DOMAIN calls
    BY <1>3, <1>4, <1>6, <2>1
  <2>3. all[InOrder(S)[k]].call = calls[InOrder(S)[k]]
    BY <2>2 DEF all
  <2>. QED BY <1>5, <2>2, <2>3
<1>. HIDE DEF events
<1>8. CallsOf(events) = Select(calls, S)
  BY <1>5, <1>6, <1>7, SeqEqual
<1>9. EventsFor(calls, replies) = events
  BY DEF EventsFor, events, all, S
<1>. QED BY <1>3, <1>4, <1>6, <1>8, <1>9, SelectOrdered

-----------------------------------------------------------------------------
(* What createAndSendBundle takes off the queue *)

\* Every call of the bundle that has a callback gets an event, and no other does.
LEMMA EventsComplete ==
  ASSUME NEW calls \in Seq(Call), NEW replies \in [1 .. Len(calls) -> Reply],
         NEW x, x = CallsOf(EventsFor(calls, replies))
  PROVE  /\ \A k \in DOMAIN x : HasCallback(x[k])
         /\ \A i \in DOMAIN calls : HasCallback(calls[i]) => \E k \in DOMAIN x : x[k] = calls[i]
<1>. DEFINE all == [i \in DOMAIN calls |-> [call |-> calls[i], reply |-> replies[i]]]
            S == {i \in DOMAIN calls : HasCallback(calls[i])}
<1>1. all \in [1 .. Len(calls) -> Event] /\ \A i \in DOMAIN calls : all[i].call = calls[i]
  BY DEF Event
<1>2. all \in Seq(Event) /\ DOMAIN all = DOMAIN calls
  BY <1>1
<1>3. S \in SUBSET (DOMAIN all) /\ \A i \in S : i \in DOMAIN calls /\ HasCallback(calls[i])
  BY <1>2
<1>4. \A i \in DOMAIN calls : HasCallback(calls[i]) => i \in S
  OBVIOUS
<1>. HIDE DEF all, S
<1>5. /\ Select(all, S) \in Seq(Event) /\ DOMAIN Select(all, S) = 1 .. Cardinality(S)
      /\ \A k \in 1 .. Cardinality(S) :
           InOrder(S)[k] \in S /\ Select(all, S)[k] = all[InOrder(S)[k]]
  BY <1>2, <1>3, SelectType
<1>6. x = CallsOf(Select(all, S))
  BY DEF EventsFor, all, S
<1>7. /\ DOMAIN x = DOMAIN Select(all, S)
      /\ \A k \in DOMAIN x : x[k] = Select(all, S)[k].call
  BY <1>5, <1>6, CallsOfType
<1>8. ASSUME NEW k \in DOMAIN x PROVE HasCallback(x[k])
  BY <1>1, <1>3, <1>5, <1>7
<1>9. ASSUME NEW i \in DOMAIN calls, HasCallback(calls[i])
      PROVE  \E k \in DOMAIN x : x[k] = calls[i]
  <2>1. PICK k \in DOMAIN Select(all, S) : Select(all, S)[k] = all[i]
    BY <1>2, <1>3, <1>4, <1>9, SelectComplete
  <2>. QED BY <1>1, <1>7, <2>1
<1>. QED BY <1>8, <1>9

\* The call that is moved to the front, and where the others are then.
LEMMA ReorderedElements ==
  ASSUME TypeOK, AuthFound
  PROVE  \E a \in DOMAIN queue :
           /\ queue[a].op \in Authenticating
           /\ Reordered[1] = queue[a]
           /\ \A k \in DOMAIN queue : 1 < k /\ k <= a => Reordered[k] = queue[k - 1]
           /\ \A k \in DOMAIN queue : a < k => Reordered[k] = queue[k]
<1>. DEFINE a == Min(AuthPositions)
            front == SubSeq(queue, 1, a - 1)
            back  == SubSeq(queue, a + 1, Len(queue))
            moved == <<queue[a]>> \o front
<1>1. queue \in Seq(Call) /\ Len(queue) \in Nat /\ DOMAIN queue = 1 .. Len(queue)
  BY DEF TypeOK, DataOK
<1>2. AuthPositions \subseteq Nat /\ AuthPositions # {}
  BY <1>1 DEF AuthPositions, AuthFound
<1>3. a \in AuthPositions
  BY <1>2, MinOfNats
<1>. HIDE DEF a
<1>4. a \in 1 .. Len(queue) /\ queue[a].op \in Authenticating
  BY <1>1, <1>3 DEF AuthPositions
<1>5. /\ front \in Seq(Call) /\ Len(front) = a - 1
      /\ \A k \in 1 .. a - 1 : front[k] = queue[k]
  BY <1>1, <1>4
<1>6. /\ back \in Seq(Call) /\ Len(back) = Len(queue) - a
      /\ \A k \in 1 .. Len(queue) - a : back[k] = queue[a + k]
  <2>0. Len(queue) \in Nat /\ a \in Nat /\ a <= Len(queue) /\ 1 <= a
    BY <1>1, <1>4
  <2>1. back \in Seq(Call) /\ Len(back) = Len(queue) - a
    <3>1. \A i \in a + 1 .. Len(queue) : queue[i] \in Call
      BY <1>1, <2>0
    <3>2. /\ back \in Seq(Call)
          /\ Len(back) = IF a + 1 <= Len(queue) THEN Len(queue) - (a + 1) + 1 ELSE 0
      BY <2>0, <3>1, SubSeqProperties
    <3>. QED BY <2>0, <3>2
  <2>2. ASSUME NEW k \in 1 .. Len(queue) - a PROVE back[k] = queue[a + k]
    <3>1. back[k] = queue[a + 1 + k - 1] /\ a + 1 + k - 1 = a + k
      BY <1>1, <1>4
    <3>. QED BY <3>1
  <2>. QED BY <2>1, <2>2
<1>. HIDE DEF front, back
<1>7. /\ <<queue[a]>> \in Seq(Call) /\ Len(<<queue[a]>>) = 1 /\ <<queue[a]>>[1] = queue[a]
      /\ DOMAIN <<queue[a]>> = {1}
  BY <1>1, <1>4
<1>8. /\ moved \in Seq(Call) /\ Len(moved) = a /\ moved[1] = queue[a]
      /\ \A k \in 1 .. a : 1 < k => moved[k] = queue[k - 1]
  <2>1. moved \in Seq(Call) /\ Len(moved) = 1 + (a - 1)
    BY <1>5, <1>7
  <2>2. moved[1] = queue[a]
    BY <1>5, <1>7
  <2>3. ASSUME NEW k \in 1 .. a, 1 < k PROVE moved[k] = queue[k - 1]
    <3>1. moved[k] = front[k - 1]
      BY <1>4, <1>5, <1>7, <2>3
    <3>. QED BY <1>4, <1>5, <2>3, <3>1
  <2>. QED BY <1>4, <2>1, <2>2, <2>3
<1>9. Reordered = moved \o back
  BY DEF Reordered, a, front, back
<1>. HIDE DEF moved
<1>10. Reordered[1] = queue[a]
  BY <1>4, <1>6, <1>8, <1>9
<1>11. ASSUME NEW k \in DOMAIN queue, 1 < k, k <= a PROVE Reordered[k] = queue[k - 1]
  <2>1. Reordered[k] = moved[k]
    BY <1>1, <1>4, <1>6, <1>8, <1>9, <1>11
  <2>. QED BY <1>1, <1>8, <1>11, <2>1
<1>12. ASSUME NEW k \in DOMAIN queue, a < k PROVE Reordered[k] = queue[k]
  <2>1. Reordered[k] = back[k - a]
    BY <1>1, <1>4, <1>6, <1>8, <1>9, <1>12
  <2>. QED BY <1>1, <1>4, <1>6, <1>12, <2>1
<1>. QED BY <1>1, <1>4, <1>10, <1>11, <1>12

LEMMA ReorderedOrdered ==
  ASSUME TypeOK
  PROVE  /\ Within(Reordered, queue)
         /\ Ordered(queue) => Ordered(Reordered)
<1>1. /\ queue \in Seq(Call) /\ Len(queue) \in Nat /\ DOMAIN queue = 1 .. Len(queue)
      /\ Reordered \in Seq(Call) /\ DOMAIN Reordered = DOMAIN queue
  <2>1. Reordered \in Seq(Call) /\ Len(Reordered) = Len(queue)
    BY ReorderedType
  <2>. QED BY <2>1 DEF TypeOK, DataOK
<1>2. CASE ~AuthFound
  BY <1>2 DEF Reordered, Within
<1>3. CASE AuthFound
  <2>1. PICK a \in DOMAIN queue :
           /\ queue[a].op \in Authenticating
           /\ Reordered[1] = queue[a]
           /\ \A k \in DOMAIN queue : 1 < k /\ k <= a => Reordered[k] = queue[k - 1]
           /\ \A k \in DOMAIN queue : a < k => Reordered[k] = queue[k]
    BY <1>3, ReorderedElements
  <2>2. ASSUME NEW k \in DOMAIN queue
        PROVE  \/ k = 1 /\ Reordered[k] = queue[a]
               \/ 1 < k /\ k <= a /\ Reordered[k] = queue[k - 1] /\ k - 1 \in DOMAIN queue
               \/ a < k /\ Reordered[k] = queue[k]
    BY <1>1, <2>1
  <2>3. Within(Reordered, queue)
    BY <1>1, <2>2 DEF Within
  <2>4. ASSUME Ordered(queue), NEW k \in DOMAIN queue, NEW l \in DOMAIN queue, k < l
        PROVE  MayPrecede(Reordered[k], Reordered[l])
    <3>1. CASE k = 1 /\ l <= a
      <4>1. MayPrecede(queue[l - 1], queue[a])
        BY <1>1, <2>4, <3>1 DEF Ordered
      <4>. QED BY <1>1, <2>1, <2>4, <3>1, <4>1 DEF MayPrecede
    <3>2. CASE k = 1 /\ a < l
      BY <1>1, <2>1, <2>4, <3>2 DEF Ordered
    <3>3. CASE 1 < k
      <4>1. PICK i \in DOMAIN queue, j \in DOMAIN queue :
               i < j /\ Reordered[k] = queue[i] /\ Reordered[l] = queue[j]
        <5>1. CASE l <= a
          <6>1. /\ k - 1 \in DOMAIN queue /\ l - 1 \in DOMAIN queue /\ k - 1 < l - 1
                /\ Reordered[k] = queue[k - 1] /\ Reordered[l] = queue[l - 1]
            BY <1>1, <2>1, <2>4, <3>3, <5>1
          <6>. QED BY <6>1
        <5>2. CASE k <= a /\ a < l
          <6>1. k - 1 \in DOMAIN queue /\ k - 1 < l /\ Reordered[k] = queue[k - 1]
            BY <1>1, <2>1, <2>4, <3>3, <5>2
          <6>. QED BY <2>1, <5>2, <6>1
        <5>3. CASE a < k
          BY <1>1, <2>1, <2>4, <5>3
        <5>. QED BY <1>1, <5>1, <5>2, <5>3
      <4>. QED BY <2>4, <4>1 DEF Ordered
    <3>. QED BY <1>1, <3>1, <3>2, <3>3
  <2>. QED BY <1>1, <2>3, <2>4 DEF Ordered
<1>. QED BY <1>2, <1>3

\* A bundle and what is left of the queue.
LEMMA BundleOrdered ==
  ASSUME TypeOK
  PROVE  /\ Bundle \in Seq(Call) /\ Rest \in Seq(Call)
         /\ Within(Bundle, queue) /\ Within(Rest, queue)
         /\ Ordered(queue) => Ordered(Bundle) /\ Ordered(Rest) /\ Precedes(Bundle, Rest)
<1>1. /\ Reordered \in Seq(Call) /\ Len(Reordered) = Len(queue)
      /\ Len(queue) \in Nat /\ DOMAIN Reordered = 1 .. Len(queue)
  BY ReorderedType DEF TypeOK, DataOK
<1>2. Cut \in 0 .. Len(queue)
  BY CutType
<1>3. TakenBy(Cut) \in SUBSET (1 .. Cut) /\ TakenBy(Cut) \in SUBSET (DOMAIN Reordered)
  <2>1. TakenBy(Cut) \in SUBSET (1 .. Cut)
    BY <1>2, TakenByPositions
  <2>. QED BY <1>1, <1>2, <2>1
<1>4. /\ Bundle \in Seq(Call) /\ Rest \in Seq(Call)
      /\ Len(Bundle) = Cardinality(TakenBy(Cut))
      /\ \A k \in 1 .. Cardinality(TakenBy(Cut)) :
           /\ InOrder(TakenBy(Cut))[k] \in 1 .. Cut
           /\ Bundle[k] = Reordered[InOrder(TakenBy(Cut))[k]]
  <2>1. Select(Reordered, TakenBy(Cut)) \in Seq(Call)
    BY <1>1, <1>3, SelectType
  <2>2. /\ Len(Select(Reordered, TakenBy(Cut))) = Cardinality(TakenBy(Cut))
        /\ \A k \in 1 .. Cardinality(TakenBy(Cut)) :
             /\ InOrder(TakenBy(Cut))[k] \in TakenBy(Cut)
             /\ Select(Reordered, TakenBy(Cut))[k] = Reordered[InOrder(TakenBy(Cut))[k]]
    BY <1>1, <1>3, SelectType
  <2>. QED BY <1>3, <2>1, <2>2, BundleType DEF Bundle
<1>5. ASSUME NEW k \in DOMAIN Bundle
      PROVE  \E i \in 1 .. Cut : Bundle[k] = Reordered[i]
  <2>1. k \in 1 .. Cardinality(TakenBy(Cut))
    BY <1>4
  <2>. QED BY <1>4, <2>1
<1>6. /\ DOMAIN Rest = 1 .. Len(queue) - Cut
      /\ \A k \in DOMAIN Rest : /\ Rest[k] = Reordered[Cut + k]
                                /\ Cut + k \in DOMAIN Reordered
  BY <1>1, <1>2 DEF Rest
<1>7. Within(Rest, Reordered) /\ Within(Bundle, Reordered)
  BY <1>1, <1>2, <1>5, <1>6 DEF Within
<1>8. Within(Bundle, queue) /\ Within(Rest, queue)
  BY <1>7, ReorderedOrdered DEF Within
<1>9. ASSUME Ordered(queue)
      PROVE  Ordered(Bundle) /\ Ordered(Rest) /\ Precedes(Bundle, Rest)
  <2>1. Ordered(Reordered)
    BY <1>9, ReorderedOrdered
  <2>2. Ordered(Bundle)
    BY <1>1, <1>3, <2>1, SelectOrdered DEF Bundle
  <2>3. ASSUME NEW i \in DOMAIN Rest, NEW j \in DOMAIN Rest, i < j
        PROVE  MayPrecede(Rest[i], Rest[j])
    <3>1. Cut + i < Cut + j
      BY <1>2, <1>6, <2>3
    <3>. QED BY <1>6, <2>1, <3>1 DEF Ordered
  <2>4. ASSUME NEW i \in DOMAIN Bundle, NEW j \in DOMAIN Rest
        PROVE  MayPrecede(Bundle[i], Rest[j])
    <3>1. PICK k \in 1 .. Cut : Bundle[i] = Reordered[k]
      BY <1>5
    <3>2. k \in DOMAIN Reordered /\ Cut + j \in DOMAIN Reordered /\ k < Cut + j
      BY <1>1, <1>2, <1>6
    <3>. QED BY <1>6, <2>1, <3>1, <3>2 DEF Ordered
  <2>. QED BY <2>2, <2>3, <2>4 DEF Ordered, Precedes
<1>. QED BY <1>4, <1>8, <1>9

-----------------------------------------------------------------------------
(* The parts of the pipeline: f called back, a waiting for their callback, p in
   progress, q queued *)

PartsInOrder(f, a, p, q) ==
  /\ Ordered(f) /\ Ordered(a) /\ Ordered(p) /\ Ordered(q)
  /\ Precedes(f, a) /\ Precedes(f, p) /\ Precedes(f, q)
  /\ Precedes(a, p) /\ Precedes(a, q) /\ Precedes(p, q)

\* The calls of s are what the log says was queued under their numbers.
IssuedIn(s, log) == \A i \in DOMAIN s : s[i].id \in DOMAIN log /\ log[s[i].id] = s[i].op

PartsLegal(f, a, p, q, log) ==
  /\ PartsInOrder(f, a, p, q)
  /\ IssuedIn(f, log) /\ IssuedIn(a, log) /\ IssuedIn(p, log) /\ IssuedIn(q, log)

LEMMA PartsOfPipeline ==
  ASSUME NEW f \in Seq(Call), NEW a \in Seq(Call), NEW p \in Seq(Call), NEW q \in Seq(Call)
  PROVE  Ordered(f \o a \o p \o q) <=> PartsInOrder(f, a, p, q)
<1>1. \A s, t \in Seq(Call) : s \o t \in Seq(Call)
  BY ConcatProperties
<1>2. f \o a \in Seq(Call) /\ f \o a \o p \in Seq(Call)
  BY <1>1
<1>3. Ordered(f \o a \o p \o q) <=>
        /\ Ordered(f \o a \o p) /\ Ordered(q) /\ Precedes(f \o a \o p, q)
  BY <1>2, OrderedConcat
<1>4. Ordered(f \o a \o p) <=> Ordered(f \o a) /\ Ordered(p) /\ Precedes(f \o a, p)
  BY <1>2, OrderedConcat
<1>5. Ordered(f \o a) <=> Ordered(f) /\ Ordered(a) /\ Precedes(f, a)
  BY OrderedConcat
<1>6. /\ Precedes(f \o a \o p, q) <=> Precedes(f \o a, q) /\ Precedes(p, q)
      /\ Precedes(f \o a, q) <=> Precedes(f, q) /\ Precedes(a, q)
      /\ Precedes(f \o a, p) <=> Precedes(f, p) /\ Precedes(a, p)
  BY <1>2, PrecedesConcat
<1>. QED BY <1>3, <1>4, <1>5, <1>6, Zenon DEF PartsInOrder

LEMMA IssuedConcat ==
  ASSUME NEW s \in Seq(Call), NEW t \in Seq(Call), NEW log
  PROVE  IssuedIn(s \o t, log) <=> IssuedIn(s, log) /\ IssuedIn(t, log)
<1>1. ASSUME IssuedIn(s, log), IssuedIn(t, log) PROVE IssuedIn(s \o t, log)
  BY <1>1, ConcatElements DEF IssuedIn
<1>2. ASSUME IssuedIn(s \o t, log) PROVE IssuedIn(s, log)
  BY <1>2, ConcatElements DEF IssuedIn
<1>3. ASSUME IssuedIn(s \o t, log) PROVE IssuedIn(t, log)
  <2>1. ASSUME NEW j \in DOMAIN t PROVE t[j].id \in DOMAIN log /\ log[t[j].id] = t[j].op
    <3>1. Len(s) + j \in DOMAIN (s \o t) /\ (s \o t)[Len(s) + j] = t[j]
      BY ConcatElements
    <3>. QED BY <1>3, <3>1 DEF IssuedIn
  <2>. QED BY <2>1 DEF IssuedIn
<1>. QED BY <1>1, <1>2, <1>3

LEMMA IssuedWithin ==
  ASSUME NEW s, NEW t, NEW log, Within(s, t), IssuedIn(t, log)
  PROVE  IssuedIn(s, log)
BY DEF Within, IssuedIn

LEMMA NothingOrdered ==
  ASSUME NEW s, NEW log
  PROVE  /\ Ordered(<<>>) /\ Precedes(<<>>, s) /\ Precedes(s, <<>>)
         /\ IssuedIn(<<>>, log) /\ Within(<<>>, s)
<1>1. DOMAIN <<>> = {}
  OBVIOUS
<1>. QED BY <1>1 DEF Ordered, Precedes, IssuedIn, Within

\* A bundle is taken off the front of the queue, the rest kept.
LEMMA PartsBundle ==
  ASSUME NEW f \in Seq(Call), NEW a \in Seq(Call), NEW p \in Seq(Call), NEW q \in Seq(Call),
         NEW b \in Seq(Call), NEW r \in Seq(Call), NEW log,
         PartsLegal(f, a, p, q, log),
         Within(b, q), Within(r, q), Ordered(b), Ordered(r), Precedes(b, r)
  PROVE  PartsLegal(f, a, p \o b, r, log)
<1>1. Ordered(p \o b)
  BY OrderedConcat, PrecedesWithin DEF PartsLegal, PartsInOrder
<1>2. Precedes(f, r) /\ Precedes(a, r) /\ Precedes(p, r)
  BY PrecedesWithin DEF PartsLegal, PartsInOrder
<1>3. Precedes(f, b) /\ Precedes(a, b)
  BY PrecedesWithin DEF PartsLegal, PartsInOrder
<1>4. Precedes(f, p \o b) /\ Precedes(a, p \o b) /\ Precedes(p \o b, r)
  BY <1>2, <1>3, PrecedesConcat DEF PartsLegal, PartsInOrder
<1>5. IssuedIn(p \o b, log) /\ IssuedIn(r, log)
  BY IssuedWithin, IssuedConcat DEF PartsLegal
<1>. QED BY <1>1, <1>2, <1>4, <1>5 DEF PartsLegal, PartsInOrder

\* The calls in progress are answered: x are those with a callback.
LEMMA PartsAnswered ==
  ASSUME NEW f \in Seq(Call), NEW a \in Seq(Call), NEW p \in Seq(Call), NEW q \in Seq(Call),
         NEW x \in Seq(Call), NEW log,
         PartsLegal(f, a, p, q, log), Within(x, p), Ordered(x)
  PROVE  PartsLegal(f, a \o x, <<>>, q, log)
<1>1. Precedes(f, x) /\ Precedes(a, x) /\ Precedes(x, q)
  BY PrecedesWithin DEF PartsLegal, PartsInOrder
<1>2. Ordered(a \o x) /\ Precedes(f, a \o x) /\ Precedes(a \o x, q)
  BY <1>1, OrderedConcat, PrecedesConcat DEF PartsLegal, PartsInOrder
<1>3. IssuedIn(a \o x, log)
  BY IssuedWithin, IssuedConcat DEF PartsLegal
<1>. QED BY <1>2, <1>3, NothingOrdered DEF PartsLegal, PartsInOrder

\* Calls are forgotten without an answer.
LEMMA PartsForgotten ==
  ASSUME NEW f, NEW a, NEW p, NEW q, NEW r, NEW log,
         PartsLegal(f, a, p, q, log), r \in {q, <<>>}
  PROVE  PartsLegal(f, a, <<>>, r, log)
BY NothingOrdered DEF PartsLegal, PartsInOrder

\* The oldest callback is run.
LEMMA PartsCalledBack ==
  ASSUME NEW f \in Seq(Call), NEW h \in Call, NEW a \in Seq(Call),
         NEW p \in Seq(Call), NEW q \in Seq(Call), NEW log,
         PartsLegal(f, <<h>> \o a, p, q, log)
  PROVE  PartsLegal(f \o <<h>>, a, p, q, log)
<1>0. <<h>> \in Seq(Call)
  OBVIOUS
<1>1. /\ Ordered(<<h>>) /\ Ordered(a) /\ Precedes(<<h>>, a)
      /\ Precedes(f, <<h>>) /\ Precedes(f, a)
      /\ Precedes(<<h>>, p) /\ Precedes(a, p)
      /\ Precedes(<<h>>, q) /\ Precedes(a, q)
  BY <1>0, OrderedConcat, PrecedesConcat DEF PartsLegal, PartsInOrder
<1>2. IssuedIn(<<h>>, log) /\ IssuedIn(a, log)
  BY <1>0, IssuedConcat DEF PartsLegal
<1>3. /\ Ordered(f \o <<h>>) /\ Precedes(f \o <<h>>, a) /\ Precedes(f \o <<h>>, p)
      /\ Precedes(f \o <<h>>, q)
  BY <1>0, <1>1, OrderedConcat, PrecedesConcat DEF PartsLegal, PartsInOrder
<1>4. IssuedIn(f \o <<h>>, log)
  BY <1>0, <1>2, IssuedConcat DEF PartsLegal
<1>. QED BY <1>1, <1>2, <1>3, <1>4 DEF PartsLegal, PartsInOrder

\* A call numbered after all others goes to the back of the queue.
LEMMA PartsPushed ==
  ASSUME NEW f \in Seq(Call), NEW a \in Seq(Call), NEW p \in Seq(Call), NEW q \in Seq(Call),
         NEW log \in Seq(Op), NEW op \in Op,
         PartsLegal(f, a, p, q, log)
  PROVE  PartsLegal(f, a, p, q \o <<[id |-> Len(log) + 1, op |-> op]>>, Append(log, op))
<1>. DEFINE c == [id |-> Len(log) + 1, op |-> op]
            new == Append(log, op)
<1>1. /\ Len(log) \in Nat /\ DOMAIN log = 1 .. Len(log)
      /\ DOMAIN new = 1 .. Len(log) + 1
      /\ \A i \in 1 .. Len(log) : new[i] = log[i]
      /\ new[Len(log) + 1] = op
  OBVIOUS
<1>2. c \in Call /\ <<c>> \in Seq(Call) /\ DOMAIN <<c>> = {1} /\ <<c>>[1] = c
  BY <1>1 DEF Call
<1>. HIDE DEF new
<1>3. ASSUME NEW s, IssuedIn(s, log)
      PROVE  IssuedIn(s, new) /\ Precedes(s, <<c>>)
  <2>1. \A i \in DOMAIN s : s[i].id \in 1 .. Len(log)
    BY <1>1, <1>3 DEF IssuedIn
  <2>2. IssuedIn(s, new)
    BY <1>1, <1>3, <2>1 DEF IssuedIn
  <2>3. Precedes(s, <<c>>)
    BY <1>1, <1>2, <2>1 DEF Precedes, MayPrecede
  <2>. QED BY <2>2, <2>3
<1>4. IssuedIn(<<c>>, new) /\ Ordered(<<c>>)
  BY <1>1, <1>2 DEF IssuedIn, Ordered
<1>. HIDE DEF c
<1>5. Ordered(q \o <<c>>) /\ IssuedIn(q \o <<c>>, new)
  BY <1>2, <1>3, <1>4, OrderedConcat, IssuedConcat DEF PartsLegal, PartsInOrder
<1>6. Precedes(f, q \o <<c>>) /\ Precedes(a, q \o <<c>>) /\ Precedes(p, q \o <<c>>)
  BY <1>2, <1>3, PrecedesConcat DEF PartsLegal, PartsInOrder
<1>7. PartsLegal(f, a, p, q \o <<c>>, new)
  BY <1>3, <1>5, <1>6 DEF PartsLegal, PartsInOrder
<1>. QED BY <1>7 DEF c, new

-----------------------------------------------------------------------------
(* Every step keeps the pipeline in order *)

PipelineLegal ==
  PartsLegal(CallsOf(finished), CallsOf(apiCallbackQueue), inProgress, queue, issued)

LEMMA PipelinePartsType ==
  ASSUME TypeOK
  PROVE  /\ CallsOf(finished) \in Seq(Call) /\ CallsOf(apiCallbackQueue) \in Seq(Call)
         /\ inProgress \in Seq(Call) /\ queue \in Seq(Call) /\ issued \in Seq(Op)
         /\ finished \in Seq(Event) /\ apiCallbackQueue \in Seq(Event)
<1>1. /\ inProgress \in Seq(Call) /\ queue \in Seq(Call) /\ issued \in Seq(Op)
      /\ finished \in Seq(Event) /\ apiCallbackQueue \in Seq(Event)
  BY DEF TypeOK, DataOK
<1>. QED BY <1>1, CallsOfType

\* The callback events of a bundle extend the callback queue by the calls of the bundle
\* that have a callback.
Answers(calls) ==
  \E x \in Seq(Call) :
    /\ CallsOf(apiCallbackQueue') = CallsOf(apiCallbackQueue) \o x
    /\ Within(x, calls)
    /\ Ordered(calls) => Ordered(x)
    /\ \A k \in DOMAIN x : HasCallback(x[k])
    /\ \A i \in DOMAIN calls : HasCallback(calls[i]) => \E k \in DOMAIN x : x[k] = calls[i]

LEMMA EventsAnswer ==
  ASSUME TypeOK, NEW calls \in Seq(Call), NEW replies \in [1 .. Len(calls) -> Reply],
         apiCallbackQueue' = apiCallbackQueue \o EventsFor(calls, replies)
  PROVE  Answers(calls)
<1>. DEFINE events == EventsFor(calls, replies)
<1>1. /\ events \in Seq(Event) /\ CallsOf(events) \in Seq(Call)
      /\ Within(CallsOf(events), calls)
      /\ Ordered(calls) => Ordered(CallsOf(events))
      /\ \A k \in DOMAIN CallsOf(events) : HasCallback(CallsOf(events)[k])
      /\ \A i \in DOMAIN calls : HasCallback(calls[i]) =>
           \E k \in DOMAIN CallsOf(events) : CallsOf(events)[k] = calls[i]
  <2>1. /\ \A k \in DOMAIN CallsOf(events) : HasCallback(CallsOf(events)[k])
        /\ \A i \in DOMAIN calls : HasCallback(calls[i]) =>
             \E k \in DOMAIN CallsOf(events) : CallsOf(events)[k] = calls[i]
    BY EventsComplete
  <2>. QED BY <2>1, EventsOrdered
<1>2. apiCallbackQueue \in Seq(Event)
  BY PipelinePartsType
<1>. HIDE DEF events
<1>3. CallsOf(apiCallbackQueue \o events) = CallsOf(apiCallbackQueue) \o CallsOf(events)
  BY <1>1, <1>2, CallsOfConcat
<1>4. apiCallbackQueue' = apiCallbackQueue \o events
  BY DEF events
<1>. QED BY <1>1, <1>3, <1>4 DEF Answers

LEMMA AnswerCallsAnswer ==
  ASSUME TypeOK, NEW calls \in Seq(Call), NEW replies \in Seq(Reply),
         AnswerCalls(calls, replies)
  PROVE  Answers(calls)
<1>1. Matched(calls, replies) \in [1 .. Len(calls) -> Reply]
  BY MatchedType
<1>2. apiCallbackQueue' = apiCallbackQueue \o EventsFor(calls, Matched(calls, replies))
  BY DEF AnswerCalls
<1>. QED BY <1>1, <1>2, EventsAnswer

LEMMA HandleResponseBundleAnswers ==
  ASSUME TypeOK, NEW resp \in Response, HandleResponseBundle(resp)
  PROVE  Answers(inProgress)
<1>0. inProgress \in Seq(Call) /\ resp.replies \in Seq(Reply)
  BY DEF TypeOK, DataOK, Response
<1>1. CASE DropBundle
  <2>1. LocalReplies(inProgress, "dropped") \in [1 .. Len(inProgress) -> Reply]
    BY <1>0 DEF LocalReplies, ByClient, Reply, Result
  <2>. QED BY <1>0, <1>1, <2>1, EventsAnswer DEF DropBundle
<1>2. CASE AnswerCalls(inProgress, resp.replies)
  BY <1>0, <1>2, AnswerCallsAnswer
<1>. QED BY <1>1, <1>2 DEF HandleResponseBundle

\* Steps that move no call.
LEMMA PipelineFrame ==
  ASSUME PipelineLegal, UNCHANGED <<finished, apiCallbackQueue, inProgress, queue, issued>>
  PROVE  PipelineLegal'
BY DEF PipelineLegal, CallsOf

LEMMA PipelinePush ==
  ASSUME TypeOK, PipelineLegal, NEW op \in Op, Push(op),
         UNCHANGED <<finished, apiCallbackQueue, inProgress>>
  PROVE  PipelineLegal'
<1>. DEFINE c == [id |-> Len(issued) + 1, op |-> op]
<1>1. queue' = queue \o <<c>> /\ issued' = Append(issued, op)
  BY PipelinePartsType DEF Push
<1>2. PartsLegal(CallsOf(finished), CallsOf(apiCallbackQueue), inProgress,
                 queue \o <<c>>, Append(issued, op))
  BY PipelinePartsType, PartsPushed DEF PipelineLegal
<1>3. CallsOf(finished)' = CallsOf(finished) /\ CallsOf(apiCallbackQueue)' = CallsOf(apiCallbackQueue)
  BY DEF CallsOf
<1>. HIDE DEF c
<1>. QED BY <1>1, <1>2, <1>3 DEF PipelineLegal

\* The calls in progress are answered.
LEMMA PipelineAnswered ==
  ASSUME TypeOK, PipelineLegal, Answers(inProgress), inProgress' = <<>>,
         UNCHANGED <<finished, queue, issued>>
  PROVE  PipelineLegal'
<1>1. PICK x \in Seq(Call) : /\ CallsOf(apiCallbackQueue') = CallsOf(apiCallbackQueue) \o x
                             /\ Within(x, inProgress)
                             /\ Ordered(inProgress) => Ordered(x)
  BY DEF Answers
<1>2. PartsLegal(CallsOf(finished), CallsOf(apiCallbackQueue) \o x, <<>>, queue, issued)
  BY <1>1, PipelinePartsType, PartsAnswered DEF PipelineLegal, PartsLegal, PartsInOrder
<1>3. CallsOf(finished)' = CallsOf(finished)
  BY DEF CallsOf
<1>. QED BY <1>1, <1>2, <1>3 DEF PipelineLegal

\* The calls in progress are forgotten, and perhaps those of the queue.
LEMMA PipelineForgotten ==
  ASSUME PipelineLegal, inProgress' = <<>>, queue' \in {queue, <<>>},
         UNCHANGED <<finished, apiCallbackQueue, issued>>
  PROVE  PipelineLegal'
<1>1. PartsLegal(CallsOf(finished), CallsOf(apiCallbackQueue), <<>>, queue', issued)
  BY PartsForgotten DEF PipelineLegal
<1>2. CallsOf(finished)' = CallsOf(finished) /\ CallsOf(apiCallbackQueue)' = CallsOf(apiCallbackQueue)
  BY DEF CallsOf
<1>. QED BY <1>1, <1>2 DEF PipelineLegal

\* The bundle leaves the queue for the calls in progress.
LEMMA BundleInParts ==
  ASSUME TypeOK, PipelineLegal
  PROVE  PartsLegal(CallsOf(finished), CallsOf(apiCallbackQueue), inProgress \o Bundle,
                    Rest, issued)
<1>1. /\ Bundle \in Seq(Call) /\ Rest \in Seq(Call)
      /\ Within(Bundle, queue) /\ Within(Rest, queue)
      /\ Ordered(queue) => Ordered(Bundle) /\ Ordered(Rest) /\ Precedes(Bundle, Rest)
  BY BundleOrdered
<1>2. Ordered(queue)
  BY DEF PipelineLegal, PartsLegal, PartsInOrder
<1>. QED BY <1>1, <1>2, PipelinePartsType, PartsBundle DEF PipelineLegal

LEMMA PipelineTossQueue ==
  ASSUME TypeOK, PipelineLegal, TossQueue
  PROVE  PipelineLegal'
<1>1. /\ queue' = Rest /\ Bundle = <<>>
      /\ UNCHANGED <<finished, apiCallbackQueue, inProgress, issued>>
  BY DEF TossQueue, history
<1>2. inProgress \o Bundle = inProgress
  BY <1>1, PipelinePartsType
<1>3. CallsOf(finished)' = CallsOf(finished) /\ CallsOf(apiCallbackQueue)' = CallsOf(apiCallbackQueue)
  BY <1>1 DEF CallsOf
<1>. QED BY <1>1, <1>2, <1>3, BundleInParts DEF PipelineLegal

LEMMA PipelineSendBundle ==
  ASSUME TypeOK, PipelineLegal, SendBundle
  PROVE  PipelineLegal'
<1>1. /\ queue' = Rest /\ inProgress' = inProgress \o Bundle
      /\ UNCHANGED <<finished, apiCallbackQueue, issued>>
  BY DEF SendBundle
<1>2. CallsOf(finished)' = CallsOf(finished) /\ CallsOf(apiCallbackQueue)' = CallsOf(apiCallbackQueue)
  BY <1>1 DEF CallsOf
<1>. QED BY <1>1, <1>2, BundleInParts DEF PipelineLegal

LEMMA PipelineRefuseBundle ==
  ASSUME TypeOK, PipelineLegal, RefuseBundle
  PROVE  PipelineLegal'
<1>. DEFINE calls == inProgress \o Bundle
            result == IF killSwitch.engaged THEN "disabled" ELSE errorCache
<1>1. /\ AnswerCalls(calls, LocalReplies(calls, result))
      /\ queue' = Rest /\ inProgress' = <<>>
      /\ UNCHANGED <<finished, issued>>
  BY DEF RefuseBundle, history
<1>2. calls \in Seq(Call) /\ Rest \in Seq(Call)
  BY BundleType, PipelinePartsType
<1>3. result \in Result
  BY DEF TypeOK, DataOK, Result
<1>4. PartsLegal(CallsOf(finished), CallsOf(apiCallbackQueue), calls, Rest, issued)
  BY BundleInParts
<1>. HIDE DEF calls, result
<1>5. LocalReplies(calls, result) \in Seq(Reply)
  BY <1>2, <1>3, LocalRepliesType
<1>6. Answers(calls)
  BY <1>1, <1>2, <1>5, AnswerCallsAnswer
<1>7. PICK x \in Seq(Call) : /\ CallsOf(apiCallbackQueue') = CallsOf(apiCallbackQueue) \o x
                             /\ Within(x, calls)
                             /\ Ordered(calls) => Ordered(x)
  BY <1>6 DEF Answers
<1>8. Ordered(x)
  BY <1>4, <1>7 DEF PartsLegal, PartsInOrder
<1>9. PartsLegal(CallsOf(finished), CallsOf(apiCallbackQueue) \o x, <<>>, Rest, issued)
  BY <1>2, <1>4, <1>7, <1>8, PipelinePartsType, PartsAnswered
<1>10. CallsOf(finished)' = CallsOf(finished)
  BY <1>1 DEF CallsOf
<1>. QED BY <1>1, <1>7, <1>9, <1>10 DEF PipelineLegal

LEMMA PipelineRunApiCallback ==
  ASSUME TypeOK, PipelineLegal, RunApiCallback
  PROVE  PipelineLegal'
<1>. DEFINE h == Head(apiCallbackQueue)
            a == Tail(apiCallbackQueue)
<1>1. /\ finished' = finished \o <<h>> /\ apiCallbackQueue' = a
      /\ h \in Event /\ a \in Seq(Event) /\ <<h>> \in Seq(Event)
      /\ apiCallbackQueue = <<h>> \o a
      /\ UNCHANGED <<inProgress, queue, issued>>
  <2>1. apiCallbackQueue # <<>> /\ apiCallbackQueue \in Seq(Event) /\ finished \in Seq(Event)
    BY PipelinePartsType DEF RunApiCallback
  <2>2. h \in Event /\ a \in Seq(Event)
    BY <2>1
  <2>3. apiCallbackQueue = <<h>> \o a
    BY <2>1
  <2>4. finished' = finished \o <<h>>
    BY <2>1 DEF RunApiCallback
  <2>. QED BY <2>2, <2>3, <2>4 DEF RunApiCallback
<1>. HIDE DEF h, a
<1>2. CallsOf(<<h>>) = <<h.call>> /\ h.call \in Call
  <2>1. h.call \in Call
    BY <1>1 DEF Event
  <2>2. /\ CallsOf(<<h>>) \in Seq(Call) /\ Len(CallsOf(<<h>>)) = 1
        /\ CallsOf(<<h>>)[1] = h.call
    <3>1. <<h>> \in Seq(Event) /\ Len(<<h>>) = 1 /\ 1 \in DOMAIN <<h>> /\ <<h>>[1] = h
      BY <1>1
    <3>. QED BY <3>1, CallsOfType
  <2>. QED BY <2>1, <2>2
<1>3. CallsOf(apiCallbackQueue) = <<h.call>> \o CallsOf(a)
  BY <1>1, <1>2, CallsOfConcat
<1>4. CallsOf(finished') = CallsOf(finished) \o <<h.call>>
  BY <1>1, <1>2, CallsOfConcat, PipelinePartsType
<1>5. CallsOf(a) \in Seq(Call)
  BY <1>1, CallsOfType
<1>6. PartsLegal(CallsOf(finished) \o <<h.call>>, CallsOf(a), inProgress, queue, issued)
  BY <1>2, <1>3, <1>5, PipelinePartsType, PartsCalledBack DEF PipelineLegal
<1>. QED BY <1>1, <1>4, <1>6 DEF PipelineLegal

LEMMA PipelineInit == Init => PipelineLegal
<1>. SUFFICES ASSUME Init PROVE PipelineLegal
  OBVIOUS
<1>1. CallsOf(finished) = <<>> /\ CallsOf(apiCallbackQueue) = <<>>
  <2>1. finished = <<>> /\ apiCallbackQueue = <<>> /\ <<>> \in Seq(Event)
    BY DEF Init
  <2>2. CallsOf(<<>>) \in Seq(Call) /\ Len(CallsOf(<<>>)) = 0
    BY <2>1, CallsOfType
  <2>. QED BY <2>1, <2>2
<1>2. inProgress = <<>> /\ queue = <<>>
  BY DEF Init
<1>. QED BY <1>1, <1>2, NothingOrdered DEF PipelineLegal, PartsLegal, PartsInOrder

LEMMA PipelineStep ==
  ASSUME TypeOK, PipelineLegal, [Next]_vars
  PROVE  PipelineLegal'
<1>. USE DEF history
<1>1. CASE UNCHANGED vars
  BY <1>1, PipelineFrame DEF vars
<1>2. CASE App
  <2>1. CASE \E op \in AppOps : AddToQueue(op)
    <3>1. PICK op \in AppOps : AddToQueue(op)
      BY <2>1
    <3>2. op \in Op
      BY CommsAssumption
    <3>. QED BY <3>1, <3>2, PipelinePush DEF AddToQueue
  <2>2. CASE \/ Initialize \/ RetryCachedMessages
             \/ \E enabled \in BOOLEAN : EnableNetworkErrorMessageCaching(enabled)
    BY <2>2, PipelineFrame
       DEF Initialize, RetryCachedMessages, EnableNetworkErrorMessageCaching
  <2>3. CASE \E notify \in BOOLEAN : FlushCachedMessages(notify)
    <3>1. PICK notify \in BOOLEAN : FlushCachedMessages(notify)
      BY <2>3
    <3>2. inProgress' = <<>> /\ UNCHANGED <<finished, queue, issued>>
      BY <3>1 DEF FlushCachedMessages
    <3>3. CASE notify
      <4>1. inProgress \in Seq(Call) /\ LocalReplies(inProgress, "timeout") \in Seq(Reply)
        BY LocalRepliesType, PipelinePartsType DEF Result
      <4>2. Answers(inProgress)
        BY <3>1, <3>3, <4>1, AnswerCallsAnswer DEF FlushCachedMessages
      <4>. QED BY <3>2, <4>2, PipelineAnswered
    <3>4. CASE ~notify
      <4>1. UNCHANGED apiCallbackQueue
        BY <3>1, <3>4 DEF FlushCachedMessages
      <4>. QED BY <3>2, <4>1, PipelineForgotten
    <3>. QED BY <3>3, <3>4
  <2>4. CASE ResetCommunication \/ Shutdown
    BY <2>4, PipelineForgotten DEF ResetCommunication, Shutdown, Clear, ClearCalls
  <2>. QED BY <1>2, <2>1, <2>2, <2>3, <2>4 DEF App
<1>3. CASE RunCallbacks
  <2>1. CASE \/ ScheduleRetry \/ BlockQueue \/ NetworkErrorReturns \/ Resend
             \/ NothingToDo \/ ReturnFromRunCallbacks
    BY <2>1, PipelineFrame DEF ScheduleRetry, BlockQueue, NetworkErrorReturns, Resend,
       NothingToDo, ReturnFromRunCallbacks
  <2>2. CASE GiveUp
    <3>. DEFINE resp == [packetId |-> expectedPacketId,
                         replies |-> LocalReplies(inProgress, "timeout")]
    <3>1. LocalReplies(inProgress, "timeout") \in Seq(Reply)
      BY LocalRepliesType, PipelinePartsType DEF Result
    <3>2. resp \in Response
      BY <3>1 DEF Response, TypeOK, DataOK, NoPacket
    <3>3. HandleResponseBundle(resp)
      BY <2>2 DEF GiveUp
    <3>. HIDE DEF resp
    <3>4. Answers(inProgress)
      BY <3>2, <3>3, HandleResponseBundleAnswers
    <3>. QED BY <2>2, <3>4, PipelineAnswered DEF GiveUp
  <2>3. CASE TakeReply
    <3>1. response \in Response /\ HandleResponseBundle(response)
      BY <2>3 DEF TakeReply, TypeOK, DataOK
    <3>2. Answers(inProgress)
      BY <3>1, HandleResponseBundleAnswers
    <3>. QED BY <2>3, <3>2, PipelineAnswered DEF TakeReply
  <2>4. CASE SendHeartbeat
    BY <2>4, PipelinePush DEF SendHeartbeat, Op
  <2>. QED BY <1>3, <2>1, <2>2, <2>3, <2>4, PipelineTossQueue, PipelineSendBundle,
              PipelineRefuseBundle, PipelineRunApiCallback DEF RunCallbacks
<1>4. CASE Network
  BY <1>4, PipelineFrame
     DEF Network, ServerReplies, NetworkFails, ServerOutOfSync, LoaderReturns
<1>. QED BY <1>1, <1>2, <1>3, <1>4 DEF Next

\* Whatever the app, the network and the server do, with retries from inside
\* networkError() as well, every call is called back, waits for its callback, is in
\* progress or is queued at most once, and no call but an authenticating one overtakes
\* another (addToQueue, createAndSendBundle, handleResponseBundle, runCallbacks).
THEOREM CallsStayInOrder == Spec => []PipelineInOrder
<1>1. Init => TypeOK /\ PipelineLegal
  BY TypeInit, PipelineInit
<1>2. TypeOK /\ PipelineLegal /\ [Next]_vars => TypeOK' /\ PipelineLegal'
  BY TypeStep, PipelineStep
<1>3. TypeOK /\ PipelineLegal => PipelineInOrder
  <2>. SUFFICES ASSUME TypeOK, PipelineLegal PROVE Ordered(Pipeline)
    BY PipelineOrdered
  <2>. QED BY PipelinePartsType, PartsOfPipeline DEF PipelineLegal, PartsLegal, Pipeline
<1>. QED BY <1>1, <1>2, <1>3, PTL DEF Spec

-----------------------------------------------------------------------------
(* What a packet carries *)

\* The queue is in the order of the numbers, and no marker behind its front is missing.
QueueLegal(q, log) ==
  /\ \A i, j \in DOMAIN q : i < j => q[i].id < q[j].id
  /\ \A i \in DOMAIN q : \A m \in q[i].id .. Len(log) :
       log[m] = "marker" => \E k \in DOMAIN q : q[k].id = m

PacketLegal(calls, log) ==
  /\ IssuedIn(calls, log)
  /\ \A i, j \in DOMAIN calls : \A m \in calls[i].id .. calls[j].id : log[m] # "marker"
  /\ \A i \in DOMAIN calls :
       /\ calls[i].op \in Authenticating
       /\ \A m \in 1 .. calls[i].id : log[m] # "marker"
       => Len(calls) = 1

WireLegal == \A p \in wire : PacketLegal(p.calls, issued)

LEMMA WireLegalMeans ==
  WireLegal <=> PacketsWellMade /\ \A p \in wire : IssuedIn(p.calls, issued)
BY DEF WireLegal, PacketLegal, PacketsWellMade, MarkersSeparateBundles,
       AuthenticationTravelsAlone

\* A longer log changes nothing for the calls that are in it.
LEMMA PacketStays ==
  ASSUME NEW calls \in Seq(Call), NEW log \in Seq(Op), NEW op \in Op, PacketLegal(calls, log)
  PROVE  PacketLegal(calls, Append(log, op))
<1>. DEFINE new == Append(log, op)
<1>1. /\ Len(log) \in Nat /\ DOMAIN log = 1 .. Len(log)
      /\ DOMAIN new = 1 .. Len(log) + 1
      /\ \A i \in 1 .. Len(log) : new[i] = log[i]
  OBVIOUS
<1>. HIDE DEF new
<1>2. \A i \in DOMAIN calls : calls[i].id \in 1 .. Len(log)
  BY <1>1 DEF PacketLegal, IssuedIn
<1>3. IssuedIn(calls, new)
  BY <1>1, <1>2 DEF PacketLegal, IssuedIn
<1>4. ASSUME NEW i \in DOMAIN calls, NEW j \in DOMAIN calls,
             NEW m \in calls[i].id .. calls[j].id
      PROVE  new[m] # "marker"
  <2>1. m \in 1 .. Len(log)
    BY <1>1, <1>2
  <2>. QED BY <1>1, <2>1 DEF PacketLegal
<1>5. ASSUME NEW i \in DOMAIN calls, calls[i].op \in Authenticating,
             \A m \in 1 .. calls[i].id : new[m] # "marker"
      PROVE  Len(calls) = 1
  <2>1. \A m \in 1 .. calls[i].id : m \in 1 .. Len(log)
    BY <1>1, <1>2
  <2>2. \A m \in 1 .. calls[i].id : log[m] # "marker"
    BY <1>1, <1>5, <2>1
  <2>. QED BY <1>5, <2>2 DEF PacketLegal
<1>6. PacketLegal(calls, new)
  BY <1>3, <1>4, <1>5 DEF PacketLegal
<1>. QED BY <1>6 DEF new

LEMMA QueuePushed ==
  ASSUME NEW q \in Seq(Call), NEW log \in Seq(Op), NEW op \in Op,
         QueueLegal(q, log), IssuedIn(q, log)
  PROVE  QueueLegal(q \o <<[id |-> Len(log) + 1, op |-> op]>>, Append(log, op))
<1>. DEFINE c == [id |-> Len(log) + 1, op |-> op]
            new == Append(log, op)
            r == q \o <<c>>
<1>1. /\ Len(log) \in Nat /\ DOMAIN log = 1 .. Len(log)
      /\ Len(new) = Len(log) + 1
      /\ \A i \in 1 .. Len(log) : new[i] = log[i]
  OBVIOUS
<1>2. /\ Len(q) \in Nat /\ DOMAIN q = 1 .. Len(q)
      /\ DOMAIN r = 1 .. Len(q) + 1
      /\ \A i \in 1 .. Len(q) : r[i] = q[i]
      /\ r[Len(q) + 1] = c /\ c.id = Len(log) + 1
  OBVIOUS
<1>. HIDE DEF new, r, c
<1>3. \A i \in DOMAIN q : q[i].id \in 1 .. Len(log)
  BY <1>1 DEF IssuedIn
<1>4. ASSUME NEW i \in DOMAIN r, NEW j \in DOMAIN r, i < j PROVE r[i].id < r[j].id
  <2>1. CASE j \in DOMAIN q
    BY <1>2, <1>4, <2>1 DEF QueueLegal
  <2>2. CASE j \notin DOMAIN q
    <3>1. i \in DOMAIN q /\ r[i].id \in 1 .. Len(log) /\ r[j].id = Len(log) + 1
      BY <1>2, <1>3, <1>4, <2>2
    <3>. QED BY <1>1, <3>1
  <2>. QED BY <2>1, <2>2
<1>5. ASSUME NEW i \in DOMAIN r, NEW m \in r[i].id .. Len(new), new[m] = "marker"
      PROVE  \E k \in DOMAIN r : r[k].id = m
  <2>1. CASE m = Len(log) + 1
    BY <1>2, <2>1
  <2>2. CASE m # Len(log) + 1
    <3>1. i \in DOMAIN q /\ r[i] = q[i] /\ m \in q[i].id .. Len(log) /\ m \in 1 .. Len(log)
      BY <1>1, <1>2, <1>3, <1>5, <2>2
    <3>2. PICK k \in DOMAIN q : q[k].id = m
      BY <1>1, <1>5, <3>1 DEF QueueLegal
    <3>. QED BY <1>2, <3>2
  <2>. QED BY <2>1, <2>2
<1>6. QueueLegal(r, new)
  BY <1>4, <1>5 DEF QueueLegal
<1>. QED BY <1>6 DEF r, new, c

\* Cut is the first place where the loop may stop.
LEMMA CutStops ==
  ASSUME TypeOK
  PROVE  /\ Cut \in 0 .. Len(queue) /\ StopsAt(Cut)
         /\ \A n \in 0 .. Len(queue) : StopsAt(n) => Cut <= n
<1>. DEFINE stops == {n \in 0 .. Len(queue) : StopsAt(n)}
<1>1. Len(queue) \in Nat
  BY DEF TypeOK, DataOK
<1>2. Len(queue) \in stops
  BY <1>1 DEF StopsAt
<1>3. stops \subseteq Nat /\ stops # {}
  BY <1>1, <1>2
<1>4. \A n \in stops : n \in 0 .. Len(queue) /\ StopsAt(n)
  OBVIOUS
<1>5. \A n \in 0 .. Len(queue) : StopsAt(n) => n \in stops
  OBVIOUS
<1>. HIDE DEF stops
<1>6. Min(stops) \in stops /\ \A y \in stops : Min(stops) <= y
  BY <1>3, MinOfNats
<1>7. Cut = Min(stops)
  BY DEF Cut, stops
<1>. QED BY <1>4, <1>5, <1>6, <1>7

\* An authenticating call that was moved to the front is all the bundle.
LEMMA BundleOfAuth ==
  ASSUME TypeOK, AuthFound, inProgress = <<>>
  PROVE  Cut = 1 /\ TakenBy(Cut) = {1}
<1>1. /\ queue \in Seq(Call) /\ Len(queue) \in Nat /\ DOMAIN queue = 1 .. Len(queue)
      /\ Len(queue) > 1
  BY DEF TypeOK, DataOK, AuthFound
<1>2. Reordered[1].op \in Authenticating
  BY ReorderedElements
<1>3. Reordered[1].op \notin {"marker", "heartbeat"}
  BY <1>2 DEF Authenticating
<1>4. TakenBy(1) = {1}
  <2>1. {i \in 1 .. 1 : Reordered[i].op \notin {"marker", "heartbeat"}} = {1}
    BY <1>3
  <2>. QED BY <1>3, <2>1 DEF TakenBy
<1>5. TakenBy(0) = {}
  BY TakenByPositions, <1>1
<1>6. ~StopsAt(0)
  <2>1. Cardinality(TakenBy(0)) = 0 /\ Len(inProgress) = 0
    BY <1>5, FS_EmptySet
  <2>. QED BY <1>1, <1>5, <2>1, CommsAssumption
           DEF StopsAt, StopsAtAuthCall, StopsAtMarker
<1>7. StopsAt(1)
  BY <1>4 DEF StopsAt, StopsAtAuthCall
<1>8. Cut = 1
  <2>1. Cut \in 0 .. Len(queue) /\ Cut <= 1 /\ Cut # 0
    BY <1>1, <1>6, <1>7, CutStops
  <2>. QED BY <1>1, <2>1
<1>. QED BY <1>4, <1>8

\* A bundle that has more than one call has no heartbeat, and none of its positions is
\* a marker.
LEMMA TakenByOps ==
  ASSUME TypeOK, NEW n \in 0 .. Len(queue), NEW x \in TakenBy(n)
  PROVE  /\ x \in 1 .. n /\ Reordered[x].op # "marker"
         /\ \A y \in TakenBy(n) : x # y => Reordered[x].op # "heartbeat"
<1>. DEFINE calls == {i \in 1 .. n : Reordered[i].op \notin {"marker", "heartbeat"}}
<1>1. TakenBy(n) \in {{n}, calls} /\ (TakenBy(n) = calls \/ Reordered[n].op = "heartbeat")
  BY DEF TakenBy
<1>2. x \in 1 .. n
  BY TakenByPositions
<1>3. CASE TakenBy(n) = calls
  BY <1>2, <1>3
<1>4. CASE TakenBy(n) = {n} /\ Reordered[n].op = "heartbeat"
  BY <1>2, <1>4
<1>. QED BY <1>1, <1>3, <1>4

\* The calls of the bundle are at the positions taken.
LEMMA BundleElements ==
  ASSUME TypeOK
  PROVE  /\ Bundle \in Seq(Call) /\ Len(Bundle) = Cardinality(TakenBy(Cut))
         /\ Cut \in 0 .. Len(queue) /\ Len(Bundle) <= Cut
         /\ \A i \in DOMAIN Bundle : \E x \in TakenBy(Cut) : Bundle[i] = Reordered[x]
<1>1. /\ Reordered \in Seq(Call) /\ Len(Reordered) = Len(queue)
      /\ Len(queue) \in Nat /\ DOMAIN Reordered = 1 .. Len(queue)
  BY ReorderedType DEF TypeOK, DataOK
<1>2. Cut \in 0 .. Len(queue)
  BY CutType
<1>3. TakenBy(Cut) \in SUBSET (1 .. Cut)
  BY <1>2, TakenByPositions
<1>4. TakenBy(Cut) \in SUBSET (DOMAIN Reordered)
  BY <1>1, <1>2, <1>3
<1>5. /\ Bundle \in Seq(Call) /\ Len(Bundle) = Cardinality(TakenBy(Cut))
      /\ \A k \in 1 .. Cardinality(TakenBy(Cut)) :
           /\ InOrder(TakenBy(Cut))[k] \in TakenBy(Cut)
           /\ Bundle[k] = Reordered[InOrder(TakenBy(Cut))[k]]
  BY <1>1, <1>4, SelectType DEF Bundle
<1>6. Cardinality(TakenBy(Cut)) <= Cut
  <2>1. Cut \in Nat
    BY <1>1, <1>2
  <2>. QED BY <1>3, <2>1, PositionsFinite
<1>7. DOMAIN Bundle = 1 .. Cardinality(TakenBy(Cut))
  BY <1>5
<1>. QED BY <1>2, <1>5, <1>6, <1>7

\* What a bundle made between two packets carries.
LEMMA BundleLegal ==
  ASSUME TypeOK, inProgress = <<>>, IssuedIn(queue, issued), QueueLegal(queue, issued)
  PROVE  PacketLegal(Bundle, issued)
<1>0. /\ queue \in Seq(Call) /\ Len(queue) \in Nat /\ DOMAIN queue = 1 .. Len(queue)
      /\ issued \in Seq(Op) /\ DOMAIN issued = 1 .. Len(issued) /\ Len(issued) \in Nat
  BY DEF TypeOK, DataOK
<1>1. /\ Bundle \in Seq(Call) /\ Len(Bundle) = Cardinality(TakenBy(Cut))
      /\ Cut \in 0 .. Len(queue) /\ Len(Bundle) <= Cut
      /\ \A i \in DOMAIN Bundle : \E x \in TakenBy(Cut) : Bundle[i] = Reordered[x]
      /\ DOMAIN Bundle = 1 .. Len(Bundle) /\ Len(Bundle) \in Nat
  BY BundleElements
<1>2. IssuedIn(Bundle, issued)
  BY BundleOrdered, IssuedWithin
<1>3. CASE AuthFound
  <2>1. TakenBy(Cut) = {1}
    BY <1>3, BundleOfAuth
  <2>2. Len(Bundle) = 1
    BY <1>1, <2>1, FS_Singleton
  <2>3. Bundle[1] = Reordered[1] /\ Bundle[1].op \in Authenticating
    <3>1. PICK a \in DOMAIN queue : Reordered[1] = queue[a] /\ queue[a].op \in Authenticating
      BY <1>3, ReorderedElements
    <3>2. 1 \in DOMAIN Bundle
      BY <1>1, <2>2
    <3>. QED BY <1>1, <2>1, <3>1, <3>2
  <2>4. issued[Bundle[1].id] = Bundle[1].op /\ Bundle[1].id \in Nat
    BY <1>0, <1>1, <1>2, <2>2 DEF IssuedIn
  <2>5. Bundle[1].op # "marker"
    BY <2>3 DEF Authenticating
  <2>6. \A i \in DOMAIN Bundle : i = 1
    BY <1>1, <2>2
  <2>7. \A i, j \in DOMAIN Bundle : \A m \in Bundle[i].id .. Bundle[j].id :
          issued[m] # "marker"
    BY <2>4, <2>5, <2>6
  <2>. QED BY <1>2, <2>2, <2>7 DEF PacketLegal
<1>4. CASE ~AuthFound
  <2>1. Reordered = queue
    BY <1>4 DEF Reordered
  <2>2. ASSUME NEW i \in DOMAIN Bundle, NEW j \in DOMAIN Bundle,
               NEW m \in Bundle[i].id .. Bundle[j].id, issued[m] = "marker"
        PROVE  FALSE
    <3>1. PICK x \in TakenBy(Cut) : Bundle[i] = queue[x]
      BY <1>1, <2>1
    <3>2. PICK y \in TakenBy(Cut) : Bundle[j] = queue[y]
      BY <1>1, <2>1
    <3>3. x \in 1 .. Cut /\ y \in 1 .. Cut /\ queue[x].op # "marker" /\ queue[y].op # "marker"
      BY <1>1, <2>1, TakenByOps
    <3>4. x \in DOMAIN queue /\ y \in DOMAIN queue
      BY <1>0, <1>1, <3>3
    <3>5. /\ queue[x].id \in 1 .. Len(issued) /\ queue[y].id \in 1 .. Len(issued)
          /\ issued[queue[x].id] = queue[x].op /\ issued[queue[y].id] = queue[y].op
      BY <1>0, <3>4 DEF IssuedIn
    <3>6. /\ m \in queue[x].id .. Len(issued)
          /\ queue[x].id < m /\ m < queue[y].id
      BY <1>0, <2>2, <3>1, <3>2, <3>3, <3>5
    <3>7. PICK k \in DOMAIN queue : queue[k].id = m
      BY <2>2, <3>4, <3>6 DEF QueueLegal
    <3>8. x < k /\ k < y
      BY <1>0, <3>4, <3>5, <3>6, <3>7 DEF QueueLegal
    <3>9. queue[k].op = "marker"
      BY <2>2, <3>7 DEF IssuedIn
    <3>10. queue[x].op # "heartbeat"
      BY <1>1, <2>1, <3>8, TakenByOps
    <3>11. k \in 0 .. Len(queue) /\ k > 0 /\ k < Cut /\ x \in 1 .. k
      BY <1>0, <1>1, <3>3, <3>8
    <3>12. TakenBy(k) # {}
      BY <2>1, <3>3, <3>10, <3>11 DEF TakenBy
    <3>13. StopsAt(k)
      BY <2>1, <3>9, <3>11, <3>12 DEF StopsAt, StopsAtMarker
    <3>. QED BY <1>0, <1>1, <3>11, <3>13, CutStops
  <2>3. ASSUME NEW i \in DOMAIN Bundle, Bundle[i].op \in Authenticating,
               \A m \in 1 .. Bundle[i].id : issued[m] # "marker"
        PROVE  Len(Bundle) = 1
    <3>1. PICK x \in TakenBy(Cut) : Bundle[i] = queue[x]
      BY <1>1, <2>1
    <3>2. x \in DOMAIN queue
      BY <1>0, <1>1, <3>1, TakenByPositions
    <3>3. CASE Len(queue) <= 1
      BY <1>0, <1>1, <2>3, <3>3
    <3>4. CASE AuthPositions = {}
      <4>1. PICK j \in 1 .. x : queue[j].op = "marker"
        BY <2>3, <3>1, <3>2, <3>4 DEF AuthPositions
      <4>2. j \in DOMAIN queue
        BY <1>0, <3>2
      <4>3. queue[j].id \in 1 .. Len(issued) /\ issued[queue[j].id] = "marker"
        BY <1>0, <4>1, <4>2 DEF IssuedIn
      <4>4. queue[x].id \in 1 .. Len(issued)
        BY <1>0, <3>2 DEF IssuedIn
      <4>5. queue[j].id <= queue[x].id
        <5>1. CASE j = x
          BY <4>4, <5>1
        <5>2. CASE j < x
          BY <3>2, <4>2, <4>3, <4>4, <5>2 DEF QueueLegal
        <5>. QED BY <1>0, <3>2, <5>1, <5>2
      <4>6. queue[j].id \in 1 .. Bundle[i].id
        BY <3>1, <4>3, <4>4, <4>5
      <4>. QED BY <2>3, <4>3, <4>6
    <3>. QED BY <1>0, <1>4, <3>3, <3>4 DEF AuthFound
  <2>. QED BY <1>2, <2>2, <2>3 DEF PacketLegal
<1>. QED BY <1>3, <1>4

\* What is left of the queue.
LEMMA RestLegal ==
  ASSUME TypeOK, inProgress = <<>>, IssuedIn(queue, issued), QueueLegal(queue, issued)
  PROVE  QueueLegal(Rest, issued)
<1>0. /\ queue \in Seq(Call) /\ Len(queue) \in Nat /\ DOMAIN queue = 1 .. Len(queue)
      /\ issued \in Seq(Op) /\ DOMAIN issued = 1 .. Len(issued) /\ Len(issued) \in Nat
  BY DEF TypeOK, DataOK
<1>1. /\ Reordered \in Seq(Call) /\ Len(Reordered) = Len(queue)
      /\ Cut \in 0 .. Len(queue)
  BY ReorderedType, CutType
<1>2. /\ DOMAIN Rest = 1 .. Len(queue) - Cut
      /\ \A k \in DOMAIN Rest : Rest[k] = Reordered[Cut + k]
  BY <1>0, <1>1 DEF Rest
<1>3. \A i \in DOMAIN queue :
        queue[i].id \in 1 .. Len(issued) /\ issued[queue[i].id] = queue[i].op
  BY <1>0 DEF IssuedIn
\* Where the calls of the rest were on the queue.
<1>4. PICK at \in [DOMAIN Rest -> DOMAIN queue] :
        /\ \A k \in DOMAIN Rest : Rest[k] = queue[at[k]]
        /\ \A k, l \in DOMAIN Rest : k < l => at[k] < at[l]
        /\ \A k \in DOMAIN Rest, x \in DOMAIN queue :
             at[k] <= x => queue[x].op # "marker" \/ \E l \in DOMAIN Rest : at[l] = x
  <2>1. CASE ~AuthFound
    <3>. DEFINE at == [k \in DOMAIN Rest |-> Cut + k]
    <3>1. at \in [DOMAIN Rest -> DOMAIN queue]
      BY <1>0, <1>1, <1>2
    <3>2. Reordered = queue
      BY <2>1 DEF Reordered
    <3>3. \A k \in DOMAIN Rest : Rest[k] = queue[at[k]]
      BY <1>2, <3>2
    <3>4. \A k, l \in DOMAIN Rest : k < l => at[k] < at[l]
      BY <1>0, <1>1, <1>2
    <3>5. ASSUME NEW k \in DOMAIN Rest, NEW x \in DOMAIN queue, at[k] <= x
          PROVE  \E l \in DOMAIN Rest : at[l] = x
      <4>1. x - Cut \in DOMAIN Rest /\ at[x - Cut] = x
        BY <1>0, <1>1, <1>2, <3>5
      <4>. QED BY <4>1
    <3>. QED BY <3>1, <3>3, <3>4, <3>5
  <2>2. CASE AuthFound
    <3>1. Cut = 1
      BY <2>2, BundleOfAuth
    <3>2. PICK a \in DOMAIN queue :
             /\ queue[a].op \in Authenticating
             /\ \A k \in DOMAIN queue : 1 < k /\ k <= a => Reordered[k] = queue[k - 1]
             /\ \A k \in DOMAIN queue : a < k => Reordered[k] = queue[k]
      BY <2>2, ReorderedElements
    <3>. DEFINE at == [k \in DOMAIN Rest |-> IF k < a THEN k ELSE k + 1]
    <3>3. at \in [DOMAIN Rest -> DOMAIN queue]
      BY <1>0, <1>2, <3>1
    <3>4. ASSUME NEW k \in DOMAIN Rest PROVE Rest[k] = queue[at[k]]
      <4>1. Rest[k] = Reordered[1 + k] /\ 1 + k \in DOMAIN queue /\ k \in Nat /\ k >= 1
        BY <1>0, <1>2, <3>1
      <4>2. CASE k < a
        <5>1. Reordered[1 + k] = queue[1 + k - 1] /\ 1 + k - 1 = k
          BY <1>0, <3>2, <4>1, <4>2
        <5>. QED BY <4>1, <4>2, <5>1
      <4>3. CASE ~(k < a)
        <5>1. Reordered[1 + k] = queue[1 + k] /\ 1 + k = k + 1
          BY <1>0, <3>2, <4>1, <4>3
        <5>. QED BY <4>1, <4>3, <5>1
      <4>. QED BY <4>2, <4>3
    <3>5. \A k, l \in DOMAIN Rest : k < l => at[k] < at[l]
      BY <1>0, <1>2, <3>1
    <3>6. ASSUME NEW x \in DOMAIN queue, queue[x].op = "marker"
          PROVE  \E l \in DOMAIN Rest : at[l] = x
      <4>1. x # a
        BY <3>2, <3>6 DEF Authenticating
      <4>2. CASE x < a
        <5>1. x \in DOMAIN Rest /\ at[x] = x
          BY <1>0, <1>2, <3>1, <4>2
        <5>. QED BY <5>1
      <4>3. CASE x > a
        <5>1. x - 1 \in DOMAIN Rest /\ at[x - 1] = x
          BY <1>0, <1>2, <3>1, <4>3
        <5>. QED BY <5>1
      <4>. QED BY <1>0, <4>1, <4>2, <4>3
    <3>. QED BY <3>3, <3>4, <3>5, <3>6
  <2>. QED BY <2>1, <2>2
<1>5. ASSUME NEW i \in DOMAIN Rest, NEW j \in DOMAIN Rest, i < j
      PROVE  Rest[i].id < Rest[j].id
  BY <1>4, <1>5 DEF QueueLegal
<1>6. ASSUME NEW i \in DOMAIN Rest, NEW m \in Rest[i].id .. Len(issued),
             issued[m] = "marker"
      PROVE  \E k \in DOMAIN Rest : Rest[k].id = m
  <2>1. at[i] \in DOMAIN queue /\ m \in queue[at[i]].id .. Len(issued)
    BY <1>4
  <2>2. PICK x \in DOMAIN queue : queue[x].id = m
    BY <1>6, <2>1 DEF QueueLegal
  <2>3. at[i] <= x
    <3>1. CASE x < at[i]
      BY <1>0, <1>3, <2>1, <2>2, <3>1 DEF QueueLegal
    <3>. QED BY <1>0, <2>1, <2>2, <3>1
  <2>4. queue[x].op = "marker"
    BY <1>3, <1>6, <2>2
  <2>5. PICK l \in DOMAIN Rest : at[l] = x
    BY <1>4, <2>3, <2>4
  <2>. QED BY <1>4, <2>2, <2>5
<1>. QED BY <1>5, <1>6 DEF QueueLegal

-----------------------------------------------------------------------------
(* Packets stay well made *)

PacketsInStep == WireLegal /\ QueueLegal(queue, issued)

LEMMA PacketsFrame ==
  ASSUME PacketsInStep, UNCHANGED <<wire, issued>>, queue' \in {queue, <<>>}
  PROVE  PacketsInStep'
<1>1. WireLegal'
  BY DEF PacketsInStep, WireLegal
<1>2. DOMAIN <<>> = {}
  OBVIOUS
<1>3. QueueLegal(queue', issued)
  BY <1>2 DEF PacketsInStep, QueueLegal
<1>. QED BY <1>1, <1>3 DEF PacketsInStep

LEMMA PacketsPush ==
  ASSUME TypeOK, PipelineLegal, PacketsInStep, NEW op \in Op, Push(op), UNCHANGED wire
  PROVE  PacketsInStep'
<1>1. /\ queue' = queue \o <<[id |-> Len(issued) + 1, op |-> op]>>
      /\ issued' = Append(issued, op)
      /\ queue \in Seq(Call) /\ issued \in Seq(Op)
  BY PipelinePartsType DEF Push
<1>2. QueueLegal(queue', issued')
  BY <1>1, QueuePushed DEF PipelineLegal, PartsLegal, PacketsInStep
<1>3. ASSUME NEW p \in wire PROVE PacketLegal(p.calls, issued')
  <2>1. p.calls \in Seq(Call)
    <3>1. p \in Packet
      BY DEF TypeOK, DataOK
    <3>. QED BY <3>1 DEF Packet
  <2>. QED BY <1>1, <1>3, <2>1, PacketStays DEF PacketsInStep, WireLegal
<1>. QED BY <1>2, <1>3 DEF PacketsInStep, WireLegal

\* The packet in hand is on the wire already.
LEMMA PacketsResent ==
  ASSUME InStep, PacketsInStep, request # NoRequest, StartHttpRequest(request),
         UNCHANGED <<queue, issued>>
  PROVE  PacketsInStep'
<1>1. wire' = wire
  BY DEF InStep, WireNumbered, StartHttpRequest
<1>. QED BY <1>1, PacketsFrame

\* The queue loses the front that createAndSendBundle went over.
LEMMA PacketsRest ==
  ASSUME TypeOK, InStep, PipelineLegal, PacketsInStep, CreatesBundle,
         queue' = Rest, UNCHANGED issued
  PROVE  QueueLegal(queue', issued')
<1>1. inProgress = <<>>
  BY BundleFromIdle
<1>2. IssuedIn(queue, issued) /\ QueueLegal(queue, issued)
  BY DEF PipelineLegal, PartsLegal, PacketsInStep
<1>. QED BY <1>1, <1>2, RestLegal

LEMMA PacketsSendBundle ==
  ASSUME TypeOK, InStep, PipelineLegal, PacketsInStep, SendBundle
  PROVE  PacketsInStep'
<1>1. /\ CreatesBundle /\ queue' = Rest /\ UNCHANGED issued
      /\ wire' = wire \cup {request'} /\ request'.calls = Bundle
  BY DEF SendBundle, StartHttpRequest, Payload
<1>2. inProgress = <<>>
  BY <1>1, BundleFromIdle
<1>3. PacketLegal(Bundle, issued)
  BY <1>2, BundleLegal DEF PipelineLegal, PartsLegal, PacketsInStep
<1>4. WireLegal'
  BY <1>1, <1>3 DEF PacketsInStep, WireLegal
<1>. QED BY <1>1, <1>4, PacketsRest DEF PacketsInStep

LEMMA PacketsStep ==
  ASSUME "retryInCallback" \notin Controls, TypeOK, InStep, PipelineLegal, PacketsInStep,
         [Next]_vars
  PROVE  PacketsInStep'
<1>. USE DEF history
<1>1. CASE UNCHANGED vars
  BY <1>1, PacketsFrame DEF vars
<1>2. CASE App
  <2>1. CASE \E op \in AppOps : AddToQueue(op)
    <3>1. PICK op \in AppOps : AddToQueue(op)
      BY <2>1
    <3>2. op \in Op
      BY CommsAssumption
    <3>. QED BY <3>1, <3>2, PacketsPush DEF AddToQueue
  <2>2. CASE RetryCachedMessages
    BY <2>2, PacketsResent DEF RetryCachedMessages
  <2>3. CASE \/ Initialize \/ ResetCommunication \/ Shutdown
             \/ \E enabled \in BOOLEAN : EnableNetworkErrorMessageCaching(enabled)
             \/ \E notify \in BOOLEAN : FlushCachedMessages(notify)
    BY <2>3, PacketsFrame
       DEF Initialize, EnableNetworkErrorMessageCaching, FlushCachedMessages,
           ResetCommunication, Shutdown, Clear, ClearCalls
  <2>. QED BY <1>2, <2>1, <2>2, <2>3 DEF App
<1>3. CASE RunCallbacks
  <2>1. CASE \/ ScheduleRetry \/ GiveUp \/ BlockQueue \/ NetworkErrorReturns \/ TakeReply
             \/ NothingToDo \/ RunApiCallback \/ ReturnFromRunCallbacks
    BY <2>1, PacketsFrame DEF ScheduleRetry, GiveUp, BlockQueue, NetworkErrorReturns,
       TakeReply, NothingToDo, RunApiCallback, ReturnFromRunCallbacks
  <2>2. CASE Resend
    BY <2>2, PacketsResent DEF Resend, InRetry
  <2>3. CASE TossQueue \/ RefuseBundle
    <3>1. CreatesBundle /\ queue' = Rest /\ UNCHANGED <<wire, issued>>
      BY <2>3 DEF TossQueue, RefuseBundle
    <3>2. WireLegal'
      BY <3>1 DEF PacketsInStep, WireLegal
    <3>. QED BY <3>1, <3>2, PacketsRest DEF PacketsInStep
  <2>4. CASE SendHeartbeat
    BY <2>4, PacketsPush DEF SendHeartbeat, Op
  <2>. QED BY <1>3, <2>1, <2>2, <2>3, <2>4, PacketsSendBundle DEF RunCallbacks
<1>4. CASE Network
  BY <1>4, PacketsFrame
     DEF Network, ServerReplies, NetworkFails, ServerOutOfSync, LoaderReturns
<1>. QED BY <1>1, <1>2, <1>3, <1>4 DEF Next

-----------------------------------------------------------------------------
(* Replies reach their call *)

EventsFit(events) == \A i \in DOMAIN events : events[i].reply.to \in {ByClient, events[i].call.id}

RepliesInStep == ResponseFits /\ EventsFit(finished) /\ EventsFit(apiCallbackQueue)

LEMMA EventsFitConcat ==
  ASSUME NEW s \in Seq(Event), NEW t \in Seq(Event)
  PROVE  EventsFit(s \o t) <=> EventsFit(s) /\ EventsFit(t)
<1>1. ASSUME EventsFit(s), EventsFit(t) PROVE EventsFit(s \o t)
  BY <1>1, ConcatElements DEF EventsFit
<1>2. ASSUME EventsFit(s \o t) PROVE EventsFit(s)
  BY <1>2, ConcatElements DEF EventsFit
<1>3. ASSUME EventsFit(s \o t), NEW j \in DOMAIN t
      PROVE  t[j].reply.to \in {ByClient, t[j].call.id}
  <2>1. Len(s) + j \in DOMAIN (s \o t) /\ (s \o t)[Len(s) + j] = t[j]
    BY ConcatElements
  <2>. QED BY <1>3, <2>1 DEF EventsFit
<1>. QED BY <1>1, <1>2, <1>3 DEF EventsFit

\* Replies made up locally, and replies that name the call at their position, are
\* matched to that call only.
LEMMA MatchedFits ==
  ASSUME NEW calls \in Seq(Call), NEW replies \in Seq(Reply),
         \A i \in DOMAIN replies : i \in DOMAIN calls =>
            replies[i].to \in {ByClient, calls[i].id}
  PROVE  EventsFit(EventsFor(calls, Matched(calls, replies)))
<1>1. Matched(calls, replies) \in [1 .. Len(calls) -> Reply]
  BY MatchedType
<1>2. \A i \in DOMAIN calls : Matched(calls, replies)[i].to \in {ByClient, calls[i].id}
  BY DEF Matched
<1>. QED BY <1>1, <1>2, EventsPair DEF EventsFit

LEMMA LocalFits ==
  ASSUME NEW calls \in Seq(Call), NEW result \in Result
  PROVE  /\ LocalReplies(calls, result) \in Seq(Reply)
         /\ LocalReplies(calls, result) \in [1 .. Len(calls) -> Reply]
         /\ \A i \in DOMAIN LocalReplies(calls, result) :
              LocalReplies(calls, result)[i].to = ByClient
<1>1. LocalReplies(calls, result) \in [1 .. Len(calls) -> Reply]
  BY DEF LocalReplies, ByClient, Reply
<1>. QED BY <1>1 DEF LocalReplies

LEMMA AnswerCallsFits ==
  ASSUME TypeOK, EventsFit(apiCallbackQueue),
         NEW calls \in Seq(Call), NEW replies \in Seq(Reply), AnswerCalls(calls, replies),
         \A i \in DOMAIN replies : i \in DOMAIN calls =>
            replies[i].to \in {ByClient, calls[i].id}
  PROVE  EventsFit(apiCallbackQueue')
<1>. DEFINE events == EventsFor(calls, Matched(calls, replies))
<1>1. Matched(calls, replies) \in [1 .. Len(calls) -> Reply]
  BY MatchedType
<1>2. events \in Seq(Event) /\ EventsFit(events)
  BY <1>1, EventsForType, MatchedFits
<1>3. apiCallbackQueue' = apiCallbackQueue \o events
  BY DEF AnswerCalls
<1>. HIDE DEF events
<1>. QED BY <1>2, <1>3, PipelinePartsType, EventsFitConcat

LEMMA HandleResponseBundleFits ==
  ASSUME TypeOK, EventsFit(apiCallbackQueue), NEW resp \in Response,
         HandleResponseBundle(resp),
         \A i \in DOMAIN resp.replies : i \in DOMAIN inProgress =>
            resp.replies[i].to \in {ByClient, inProgress[i].id}
  PROVE  EventsFit(apiCallbackQueue')
<1>0. inProgress \in Seq(Call) /\ resp.replies \in Seq(Reply)
  BY DEF TypeOK, DataOK, Response
<1>1. CASE DropBundle
  <2>. DEFINE local == LocalReplies(inProgress, "dropped")
  <2>1. /\ local \in [1 .. Len(inProgress) -> Reply]
        /\ \A i \in DOMAIN local : local[i].to = ByClient
    BY <1>0, LocalFits DEF Result
  <2>2. DOMAIN local = DOMAIN inProgress
    BY <1>0, <2>1
  <2>3. apiCallbackQueue' = apiCallbackQueue \o EventsFor(inProgress, local)
    BY <1>1 DEF DropBundle
  <2>. HIDE DEF local
  <2>4. EventsFor(inProgress, local) \in Seq(Event)
    BY <1>0, <2>1, EventsForType
  <2>5. EventsFit(EventsFor(inProgress, local))
    BY <1>0, <2>1, <2>2, EventsPair DEF EventsFit
  <2>. QED BY <2>3, <2>4, <2>5, PipelinePartsType, EventsFitConcat
<1>2. CASE AnswerCalls(inProgress, resp.replies)
  BY <1>0, <1>2, AnswerCallsFits
<1>. QED BY <1>1, <1>2 DEF HandleResponseBundle

\* Steps that run no callback and answer no call.
LEMMA RepliesFrame ==
  ASSUME RepliesInStep, UNCHANGED <<finished, apiCallbackQueue>>, ResponseFits'
  PROVE  RepliesInStep'
BY DEF RepliesInStep

\* A response is looked at only while the loader has it.
LEMMA NoResponseFits ==
  ASSUME loader' \in {"none", "loading", "failed"} \/ pc' = "networkError"
  PROVE  ResponseFits'
BY DEF ResponseFits

LEMMA SameResponseFits ==
  ASSUME ResponseFits, UNCHANGED <<request, loader, response>>,
         pc # "networkError" \/ pc' = "networkError"
  PROVE  ResponseFits'
BY DEF ResponseFits

LEMMA RepliesTakeReply ==
  ASSUME TypeOK, InStep, RepliesInStep, TakeReply
  PROVE  RepliesInStep'
<1>1. /\ response \in Response /\ HandleResponseBundle(response)
      /\ loader = "replied" /\ pc # "networkError" /\ inProgress # <<>>
      /\ loader' = "none" /\ UNCHANGED finished
  BY DEF TakeReply, Ticking, TypeOK, DataOK, history
<1>2. request.calls = inProgress
  BY <1>1 DEF InStep, CallsServed
<1>3. \A i \in DOMAIN response.replies : i \in DOMAIN inProgress =>
         response.replies[i].to \in {ByClient, inProgress[i].id}
  BY <1>1, <1>2 DEF RepliesInStep, ResponseFits
<1>4. EventsFit(apiCallbackQueue')
  BY <1>1, <1>3, HandleResponseBundleFits DEF RepliesInStep
<1>. QED BY <1>1, <1>4, NoResponseFits DEF RepliesInStep

LEMMA RepliesGiveUp ==
  ASSUME TypeOK, RepliesInStep, GiveUp
  PROVE  RepliesInStep'
<1>. DEFINE local == LocalReplies(inProgress, "timeout")
            resp == [packetId |-> expectedPacketId, replies |-> local]
<1>1. local \in Seq(Reply) /\ \A i \in DOMAIN local : local[i].to = ByClient
  BY LocalFits, PipelinePartsType DEF Result
<1>2. HandleResponseBundle(resp) /\ loader' = "none" /\ UNCHANGED finished
  BY DEF GiveUp, history
<1>. HIDE DEF local
<1>3. resp \in Response
  BY <1>1 DEF Response, TypeOK, DataOK, NoPacket
<1>4. \A i \in DOMAIN resp.replies : resp.replies[i].to = ByClient
  BY <1>1
<1>. HIDE DEF resp
<1>5. EventsFit(apiCallbackQueue')
  BY <1>2, <1>3, <1>4, HandleResponseBundleFits DEF RepliesInStep
<1>. QED BY <1>2, <1>5, NoResponseFits DEF RepliesInStep

LEMMA RepliesRefuseBundle ==
  ASSUME TypeOK, RepliesInStep, RefuseBundle
  PROVE  RepliesInStep'
<1>. DEFINE calls == inProgress \o Bundle
            result == IF killSwitch.engaged THEN "disabled" ELSE errorCache
            local == LocalReplies(calls, result)
<1>1. /\ AnswerCalls(calls, local) /\ loader' = "none" /\ UNCHANGED finished
  BY DEF RefuseBundle, CreatesBundle, history, loaderVars
<1>2. calls \in Seq(Call)
  BY BundleType, PipelinePartsType
<1>3. result \in Result
  BY DEF TypeOK, DataOK, Result
<1>. HIDE DEF calls, result
<1>4. local \in Seq(Reply) /\ \A i \in DOMAIN local : local[i].to = ByClient
  BY <1>2, <1>3, LocalFits
<1>. HIDE DEF local
<1>5. EventsFit(apiCallbackQueue')
  BY <1>1, <1>2, <1>4, AnswerCallsFits DEF RepliesInStep
<1>. QED BY <1>1, <1>5, NoResponseFits DEF RepliesInStep

LEMMA RepliesFlush ==
  ASSUME TypeOK, InStep, RepliesInStep, NEW notify \in BOOLEAN, FlushCachedMessages(notify)
  PROVE  RepliesInStep'
<1>. DEFINE local == LocalReplies(inProgress, "timeout")
<1>1. blockingQueue /\ UNCHANGED <<pc, loader, finished>>
  BY DEF FlushCachedMessages, history
<1>2. ResponseFits'
  <2>1. loader = "none" \/ pc = "networkError"
    BY <1>1 DEF InStep, QueueBlocked
  <2>. QED BY <1>1, <2>1, NoResponseFits
<1>3. CASE notify
  <2>1. inProgress \in Seq(Call) /\ AnswerCalls(inProgress, local)
    BY <1>3, PipelinePartsType DEF FlushCachedMessages
  <2>2. local \in Seq(Reply) /\ \A i \in DOMAIN local : local[i].to = ByClient
    BY LocalFits, PipelinePartsType DEF Result
  <2>. HIDE DEF local
  <2>3. EventsFit(apiCallbackQueue')
    BY <2>1, <2>2, AnswerCallsFits DEF RepliesInStep
  <2>. QED BY <1>1, <1>2, <2>3 DEF RepliesInStep
<1>4. CASE ~notify
  BY <1>1, <1>2, <1>4, RepliesFrame DEF FlushCachedMessages
<1>. QED BY <1>3, <1>4

LEMMA RepliesRunApiCallback ==
  ASSUME TypeOK, RepliesInStep, RunApiCallback
  PROVE  RepliesInStep'
<1>. DEFINE h == Head(apiCallbackQueue)
            a == Tail(apiCallbackQueue)
<1>0. apiCallbackQueue # <<>> /\ apiCallbackQueue \in Seq(Event) /\ finished \in Seq(Event)
  BY PipelinePartsType DEF RunApiCallback
<1>1. /\ h \in Event /\ a \in Seq(Event) /\ <<h>> \in Seq(Event)
      /\ apiCallbackQueue = <<h>> \o a
  BY <1>0
<1>2. finished' = finished \o <<h>> /\ apiCallbackQueue' = a
  BY <1>0 DEF RunApiCallback
<1>. HIDE DEF h, a
<1>3. EventsFit(<<h>>) /\ EventsFit(a)
  BY <1>1, EventsFitConcat DEF RepliesInStep
<1>4. EventsFit(finished')
  BY <1>0, <1>1, <1>2, <1>3, EventsFitConcat DEF RepliesInStep
<1>5. ResponseFits'
  BY SameResponseFits DEF RunApiCallback, RepliesInStep, loaderVars
<1>. QED BY <1>2, <1>3, <1>4, <1>5 DEF RepliesInStep

\* The server answers the calls of the packet at their positions, or not at all.
LEMMA RepliesNetwork ==
  ASSUME TypeOK, RepliesInStep, Network
  PROVE  RepliesInStep'
<1>1. UNCHANGED <<finished, apiCallbackQueue, request>>
  BY DEF Network, ServerReplies, NetworkFails, ServerOutOfSync, LoaderReturns, history
<1>2. CASE ServerReplies
  <2>1. PICK results \in [DOMAIN request.calls -> ServerResults] :
          LoaderReturns("replied",
            [packetId |-> request.packetId,
             replies  |-> [i \in DOMAIN request.calls |->
                             [to |-> request.calls[i].id, result |-> results[i]]]])
    BY <1>2 DEF ServerReplies
  <2>2. response'.replies = [i \in DOMAIN request.calls |->
                               [to |-> request.calls[i].id, result |-> results[i]]]
    BY <2>1 DEF LoaderReturns
  <2>3. \A i \in DOMAIN response'.replies :
           i \in DOMAIN request.calls /\ response'.replies[i].to = request.calls[i].id
    BY <2>2
  <2>. QED BY <1>1, <2>3, RepliesFrame DEF ResponseFits
<1>3. CASE NetworkFails
  <2>1. loader' = "failed"
    BY <1>3 DEF NetworkFails, LoaderReturns
  <2>. QED BY <1>1, <2>1, NoResponseFits, RepliesFrame
<1>4. CASE ServerOutOfSync
  <2>1. response'.replies = <<>> /\ DOMAIN <<>> = {}
    BY <1>4 DEF ServerOutOfSync, LoaderReturns
  <2>2. ResponseFits'
    BY <2>1 DEF ResponseFits
  <2>. QED BY <1>1, <2>2, RepliesFrame
<1>. QED BY <1>2, <1>3, <1>4 DEF Network

LEMMA RepliesStep ==
  ASSUME TypeOK, InStep, RepliesInStep, [Next]_vars
  PROVE  RepliesInStep'
<1>. USE DEF history, loaderVars
<1>0. ResponseFits
  BY DEF RepliesInStep
<1>1. CASE UNCHANGED vars
  BY <1>0, <1>1, SameResponseFits, RepliesFrame DEF vars
<1>2. CASE App
  <2>1. CASE \/ \E op \in AppOps : AddToQueue(op)
             \/ Initialize
             \/ \E enabled \in BOOLEAN : EnableNetworkErrorMessageCaching(enabled)
    BY <1>0, <2>1, SameResponseFits, RepliesFrame
       DEF AddToQueue, Initialize, EnableNetworkErrorMessageCaching
  <2>2. CASE RetryCachedMessages
    BY <2>2, NoResponseFits, RepliesFrame DEF RetryCachedMessages, StartHttpRequest
  <2>3. CASE ResetCommunication \/ Shutdown
    BY <2>3, NoResponseFits, RepliesFrame DEF ResetCommunication, Shutdown, Clear
  <2>. QED BY <1>2, <2>1, <2>2, <2>3, RepliesFlush DEF App
<1>3. CASE RunCallbacks
  <2>1. CASE \/ ScheduleRetry \/ BlockQueue \/ NetworkErrorReturns
             \/ Resend \/ SendBundle
    BY <2>1, NoResponseFits, RepliesFrame DEF ScheduleRetry, BlockQueue,
       NetworkErrorReturns, Resend, SendBundle, StartHttpRequest
  <2>2. CASE TossQueue \/ SendHeartbeat \/ NothingToDo \/ ReturnFromRunCallbacks
    <3>1. /\ pc # "networkError"
          /\ UNCHANGED <<request, loader, response, finished, apiCallbackQueue>>
      BY <2>2 DEF TossQueue, CreatesBundle, SendHeartbeat, NothingToDo, Ticking,
         ReturnFromRunCallbacks
    <3>. QED BY <1>0, <3>1, SameResponseFits, RepliesFrame
  <2>. QED BY <1>3, <2>1, <2>2, RepliesTakeReply, RepliesGiveUp, RepliesRefuseBundle,
              RepliesRunApiCallback DEF RunCallbacks
<1>. QED BY <1>1, <1>2, <1>3, RepliesNetwork DEF Next

-----------------------------------------------------------------------------
(* The theorems *)

LEMMA CallsInit == Init => PacketsInStep /\ RepliesInStep
<1>. SUFFICES ASSUME Init PROVE PacketsInStep /\ RepliesInStep
  OBVIOUS
<1>1. DOMAIN <<>> = {}
  OBVIOUS
<1>. QED BY <1>1 DEF Init, PacketsInStep, WireLegal, QueueLegal, RepliesInStep,
            ResponseFits, EventsFit

\* What the three parts of the invariant come to.
LEMMA CallsInStepFrom ==
  ASSUME TypeOK, PipelineLegal, PacketsInStep, RepliesInStep
  PROVE  CallsInStep
<1>. DEFINE done    == CallsOf(finished)
            waiting == CallsOf(apiCallbackQueue)
<1>1. /\ done \in Seq(Call) /\ waiting \in Seq(Call)
      /\ inProgress \in Seq(Call) /\ queue \in Seq(Call)
      /\ finished \in Seq(Event) /\ apiCallbackQueue \in Seq(Event)
  BY PipelinePartsType
<1>2. PipelineInOrder
  BY <1>1, PartsOfPipeline, PipelineOrdered DEF PipelineLegal, PartsLegal, Pipeline
<1>3. IssuedIn(Pipeline, issued)
  <2>. HIDE DEF done, waiting
  <2>1. \A s, t \in Seq(Call) : s \o t \in Seq(Call)
    BY ConcatProperties
  <2>2. /\ done \o waiting \in Seq(Call)
        /\ done \o waiting \o inProgress \in Seq(Call)
    BY <1>1, <2>1
  <2>3. /\ IssuedIn(done, issued) /\ IssuedIn(waiting, issued)
        /\ IssuedIn(inProgress, issued) /\ IssuedIn(queue, issued)
    BY DEF PipelineLegal, PartsLegal, done, waiting
  <2>4. IssuedIn(done \o waiting \o inProgress \o queue, issued)
    BY <1>1, <2>2, <2>3, IssuedConcat
  <2>. QED BY <2>4 DEF Pipeline, done, waiting
<1>4. CallsAreIssued /\ PacketsWellMade
  BY <1>3, WireLegalMeans DEF PacketsInStep, CallsAreIssued, IssuedIn, IsIssued
<1>5. QueueFollows
  BY DEF PacketsInStep, QueueLegal, QueueFollows
<1>6. ResponseFits /\ RepliesReachTheirCall
  <2>1. EventsFit(finished \o apiCallbackQueue)
    BY <1>1, EventsFitConcat DEF RepliesInStep
  <2>. QED BY <2>1 DEF RepliesInStep, RepliesReachTheirCall, EventsFit
<1>. QED BY <1>2, <1>4, <1>5, <1>6 DEF CallsInStep

\* For an app that makes no retry from inside networkError(), the calls, the packets on
\* the wire and the replies agree at every step of runCallbacks.
THEOREM CallsAreInStep ==
  ASSUME "retryInCallback" \notin Controls
  PROVE  Spec => []CallsInStep
<1>. DEFINE Inv == TypeOK /\ InStep /\ PipelineLegal /\ PacketsInStep /\ RepliesInStep
<1>1. Init => Inv
  BY TypeInit, InStepInit, PipelineInit, CallsInit
<1>2. Inv /\ [Next]_vars => Inv'
  BY TypeStep, InStepStep, PipelineStep, PacketsStep, RepliesStep
<1>3. Inv => CallsInStep
  BY CallsInStepFrom
<1>. QED BY <1>1, <1>2, <1>3, PTL DEF Spec

\* No packet carries calls from both sides of an end-of-bundle marker, and one with an
\* authenticating call carries nothing else (createAndSendBundle).
THEOREM PacketsAreWellMade ==
  ASSUME "retryInCallback" \notin Controls
  PROVE  Spec => []PacketsWellMade
<1>1. Spec => []CallsInStep
  BY CallsAreInStep
<1>2. CallsInStep => PacketsWellMade
  BY DEF CallsInStep
<1>. QED BY <1>1, <1>2, PTL

\* handleResponseBundle matches replies to calls by position only, and yet no callback is
\* told another call's result, through retries, resets, flushes and lost answers.
THEOREM RepliesReachCalls ==
  ASSUME "retryInCallback" \notin Controls
  PROVE  Spec => []RepliesReachTheirCall
<1>1. Spec => []CallsInStep
  BY CallsAreInStep
<1>2. CallsInStep => RepliesReachTheirCall
  BY DEF CallsInStep
<1>. QED BY <1>1, <1>2, PTL

(***************************************************************************)
(* The engine implements CallLifecycle.  A bundle is a set of calls there: *)
(* what goes out, what is answered, what is tossed and what stays on the   *)
(* queue partition the calls, and the callbacks due list theirs once each. *)
(***************************************************************************)

IdsOf(calls) == {calls[i].id : i \in DOMAIN calls}

Queued  == IdsOf(queue)
Sent    == IdsOf(inProgress)
Waiting == IdsOf(CallsOf(apiCallbackQueue))
Told    == IdsOf(CallsOf(finished))
Mute    == {c \in DOMAIN issued : issued[c] \in Silent}

\* Every call is in one place, and the place is its status.
Placed ==
  /\ Len(issued) \in Nat /\ Len(issued) <= MaxCalls
  /\ Queued \cup Sent \cup Waiting \cup Told \subseteq 1 .. Len(issued)
  /\ Queued \cap (Sent \cup Waiting \cup Told) = {}
  /\ Sent \cap (Waiting \cup Told) = {} /\ Waiting \cap Told = {}
  /\ \A c \in 1 .. MaxCalls :
       /\ c > Len(issued) => Status(c) = "new"
       /\ c \in Queued  => Status(c) = "queued"
       /\ c \in Sent    => Status(c) = "sent"
       /\ c \in Waiting => Status(c) = "answered"
       /\ c \in Told    => Status(c) = "done"
       /\ c <= Len(issued) /\ c \notin Queued \cup Sent \cup Waiting \cup Told
            => Status(c) = "gone"

\* What the statuses rest on beside the order of the pipeline.
CallsLegal ==
  /\ Len(issued) <= MaxCalls
  /\ \A i \in DOMAIN inProgress : inProgress[i].op # "marker"

\* Sequences one of which precedes the other have no call in common.
LEMMA Apart ==
  ASSUME NEW s \in Seq(Call), NEW t \in Seq(Call), Precedes(s, t)
  PROVE  IdsOf(s) \cap IdsOf(t) = {}
BY DEF IdsOf, Precedes, MayPrecede

\* The ids of issued calls are those handed out so far.
LEMMA IdsIssued ==
  ASSUME NEW s \in Seq(Call), NEW log \in Seq(Op), IssuedIn(s, log)
  PROVE  IdsOf(s) \subseteq 1 .. Len(log)
BY DEF IdsOf, IssuedIn

\* The cases of Status exclude each other because every call is in one place of the
\* pipeline.
LEMMA PlacedHolds == TypeOK /\ PipelineLegal /\ CallsLegal => Placed
<1>. SUFFICES ASSUME TypeOK, PipelineLegal, CallsLegal PROVE Placed
  OBVIOUS
<1>. DEFINE f == CallsOf(finished)
            a == CallsOf(apiCallbackQueue)
<1>1. /\ f \in Seq(Call) /\ a \in Seq(Call) /\ inProgress \in Seq(Call)
      /\ queue \in Seq(Call) /\ issued \in Seq(Op)
  BY PipelinePartsType
<1>2. PartsLegal(f, a, inProgress, queue, issued)
  BY DEF PipelineLegal
<1>3. Len(issued) \in Nat /\ Len(issued) <= MaxCalls /\ MaxCalls \in Nat
  BY <1>1, CommsAssumption DEF CallsLegal
<1>. HIDE DEF f, a
<1>4. /\ IdsOf(f) \subseteq 1 .. Len(issued) /\ IdsOf(a) \subseteq 1 .. Len(issued)
      /\ Sent \subseteq 1 .. Len(issued) /\ Queued \subseteq 1 .. Len(issued)
  BY <1>1, <1>2, IdsIssued DEF PartsLegal, Sent, Queued
<1>5. /\ IdsOf(f) \cap IdsOf(a) = {} /\ IdsOf(f) \cap Sent = {} /\ IdsOf(f) \cap Queued = {}
      /\ IdsOf(a) \cap Sent = {} /\ IdsOf(a) \cap Queued = {} /\ Sent \cap Queued = {}
  BY <1>1, <1>2, Apart DEF PartsLegal, PartsInOrder, Sent, Queued
<1>6. Waiting = IdsOf(a) /\ Told = IdsOf(f)
  BY DEF Waiting, Told, a, f
<1>7. \A c : /\ IsIn(c, queue) <=> c \in Queued
             /\ IsIn(c, inProgress) <=> c \in Sent
             /\ IsIn(c, CallsOf(apiCallbackQueue)) <=> c \in Waiting
             /\ IsIn(c, CallsOf(finished)) <=> c \in Told
  BY DEF IsIn, IdsOf, Queued, Sent, Waiting, Told
<1>8. ASSUME NEW c \in 1 .. MaxCalls
      PROVE  /\ c > Len(issued) => Status(c) = "new"
             /\ c \in Queued  => Status(c) = "queued"
             /\ c \in Sent    => Status(c) = "sent"
             /\ c \in Waiting => Status(c) = "answered"
             /\ c \in Told    => Status(c) = "done"
             /\ c <= Len(issued) /\ c \notin Queued \cup Sent \cup Waiting \cup Told
                  => Status(c) = "gone"
  <2>. DEFINE n == c > Len(issued)
  <2>1. /\ n => c \notin Queued \cup Sent \cup Waiting \cup Told
        /\ (c <= Len(issued) <=> ~n) /\ (c > Len(issued) <=> n)
    BY <1>3, <1>4, <1>6
  <2>. HIDE DEF n
  <2>2. Status(c) = CASE n -> "new"
                      [] c \in Queued -> "queued"
                      [] c \in Sent -> "sent"
                      [] c \in Waiting -> "answered"
                      [] c \in Told -> "done"
                      [] OTHER -> "gone"
    BY <1>7 DEF Status, n
  <2>3. CASE n
    BY <2>1, <2>2, <2>3
  <2>4. CASE c \in Queued
    BY <1>5, <1>6, <2>1, <2>2, <2>4
  <2>5. CASE c \in Sent
    BY <1>5, <1>6, <2>1, <2>2, <2>5
  <2>6. CASE c \in Waiting
    BY <1>5, <1>6, <2>1, <2>2, <2>6
  <2>7. CASE c \in Told
    BY <1>5, <1>6, <2>1, <2>2, <2>7
  <2>8. CASE ~n /\ c \notin Queued \cup Sent \cup Waiting \cup Told
    BY <2>1, <2>2, <2>8
  <2>. QED BY <2>3, <2>4, <2>5, <2>6, <2>7, <2>8
<1>. QED BY <1>3, <1>4, <1>5, <1>6, <1>8 DEF Placed

LEMMA PlacedNext == TypeOK' /\ PipelineLegal' /\ CallsLegal' => Placed'
BY PlacedHolds, PTL

\* The calls sent and queued, as CallLifecycle sees them.
LEMMA AbstractIn ==
  ASSUME Placed
  PROVE  Lifecycle!In("sent") = Sent /\ Lifecycle!In("queued") = Queued
<1>1. Sent \subseteq 1 .. MaxCalls /\ Queued \subseteq 1 .. MaxCalls
  BY CommsAssumption DEF Placed
<1>2. \A c \in 1 .. MaxCalls : (Status(c) = "sent") <=> c \in Sent
  BY DEF Placed
<1>3. \A c \in 1 .. MaxCalls : (Status(c) = "queued") <=> c \in Queued
  BY DEF Placed
<1>. QED BY <1>1, <1>2, <1>3 DEF Lifecycle!In

\* A bundle is settled: the calls of S, taken off the queue, and those in progress.
LEMMA SettleStep ==
  ASSUME Placed, Placed', UNCHANGED issued,
         NEW S, NEW skipped, S \subseteq Queued, skipped \subseteq Queued \cap Mute,
         S # {} => Sent = {}, S \cap skipped = {},
         Queued' = Queued \ (S \cup skipped), Sent' = {}, Told' = Told,
         NEW due, due = (S \cup Sent) \ Mute, Waiting' = Waiting \cup due,
         NEW order \in Lifecycle!SetToSeqs(due),
         [i \in DOMAIN apiCallbackQueue |-> apiCallbackQueue[i].call.id]'
           = [i \in DOMAIN apiCallbackQueue |-> apiCallbackQueue[i].call.id] \o order,
         blockingQueue' = FALSE
  PROVE  Lifecycle!Settle(S, skipped)
<1>. DEFINE gone == skipped \cup ((S \cup Sent) \cap Mute)
<1>1. ASSUME NEW c \in 1 .. MaxCalls
      PROVE  Status(c)' = IF c \in due THEN "answered" ELSE IF c \in gone THEN "gone" ELSE Status(c)
  <2>1. CASE c \in due
    BY <2>1 DEF Placed
  <2>2. CASE c \notin due /\ c \in gone
    <3>1. c \notin Queued' /\ c \notin Sent' /\ c \notin Told' /\ c \notin Waiting' /\ c <= Len(issued)'
      BY <2>2 DEF Placed
    <3>. QED BY <2>2, <3>1 DEF Placed
  <2>3. CASE c \notin due /\ c \notin gone
    <3>1. c \in Queued' <=> c \in Queued
      BY <2>3
    <3>2. c \notin Sent' /\ c \notin Sent
      BY <2>3
    <3>3. (c \in Waiting' <=> c \in Waiting) /\ (c \in Told' <=> c \in Told)
      BY <2>3
    <3>4. Len(issued)' = Len(issued) /\ Len(issued) \in Nat
      BY DEF Placed
    <3>. QED BY <2>3, <3>1, <3>2, <3>3, <3>4 DEF Placed
  <2>. QED BY <2>1, <2>2, <2>3
<1>2. Mute' = Mute
  BY DEF Mute
<1>3. blockingQueue' = FALSE
  OBVIOUS
<1>4. Lifecycle!In("sent") = Sent
  BY AbstractIn
<1>. QED BY <1>1, <1>2, <1>3, <1>4 DEF Lifecycle!Settle, Lifecycle!Moved, Mute

\* A bundle goes out: the calls of S, and those skipped are gone.
LEMMA SubmitStep ==
  ASSUME Placed, Placed', UNCHANGED <<issued, blockingQueue, apiCallbackQueue, finished>>,
         NEW S, NEW skipped, S \subseteq Queued, skipped \subseteq Queued,
         S \cap skipped = {}, Sent = {},
         Queued' = Queued \ (S \cup skipped), Sent' = S
  PROVE  Lifecycle!Submit(S, skipped)
<1>0. Told' = Told /\ Waiting' = Waiting /\ Len(issued)' = Len(issued)
  BY DEF Told, Waiting, CallsOf
<1>1. ASSUME NEW c \in 1 .. MaxCalls
      PROVE  Status(c)' = IF c \in S THEN "sent" ELSE IF c \in skipped THEN "gone" ELSE Status(c)
  <2>1. CASE c \in S
    BY <2>1 DEF Placed
  <2>2. CASE c \notin S /\ c \in skipped
    <3>1. c \notin Queued' /\ c \notin Sent' /\ c \notin Told' /\ c \notin Waiting' /\ c <= Len(issued)'
      BY <1>0, <2>2 DEF Placed
    <3>. QED BY <2>2, <3>1 DEF Placed
  <2>3. CASE c \notin S /\ c \notin skipped
    <3>1. /\ c \in Queued' <=> c \in Queued
          /\ c \notin Sent' /\ c \notin Sent
      BY <2>3
    <3>. QED BY <1>0, <2>3, <3>1 DEF Placed
  <2>. QED BY <2>1, <2>2, <2>3
<1>2. Lifecycle!In("sent") = {}
  BY AbstractIn
<1>. QED BY <1>1, <1>2 DEF Lifecycle!Submit, Lifecycle!Moved

\* The calls in progress are given up, and maybe those queued.
LEMMA ForgetStep ==
  ASSUME Placed, Placed', UNCHANGED <<issued, apiCallbackQueue, finished>>,
         inProgress' = <<>>, blockingQueue' = FALSE
  PROVE  /\ queue' = <<>> => Lifecycle!Reset
         /\ queue' = queue /\ blockingQueue => Lifecycle!GiveUpBundle
<1>0. Told' = Told /\ Waiting' = Waiting /\ Len(issued)' = Len(issued)
  BY DEF Told, Waiting, CallsOf
<1>1. Sent' = {}
  BY DEF Sent, IdsOf
<1>2. Lifecycle!In("sent") = Sent /\ Lifecycle!In("queued") = Queued
  BY AbstractIn
<1>3. ASSUME queue' = <<>> PROVE Lifecycle!Reset
  <2>1. Queued' = {}
    BY <1>3 DEF Queued, IdsOf
  <2>2. ASSUME NEW c \in 1 .. MaxCalls
        PROVE  Status(c)' = IF c \in Sent \cup Queued THEN "gone" ELSE Status(c)
    BY <1>0, <1>1, <2>1 DEF Placed
  <2>. QED BY <1>2, <2>2 DEF Lifecycle!Reset, Lifecycle!Moved
<1>4. ASSUME queue' = queue, blockingQueue PROVE Lifecycle!GiveUpBundle
  <2>1. Queued' = Queued
    BY <1>4 DEF Queued, IdsOf
  <2>2. ASSUME NEW c \in 1 .. MaxCalls
        PROVE  Status(c)' = IF c \in Sent THEN "gone" ELSE Status(c)
    BY <1>0, <1>1, <2>1 DEF Placed
  <2>. QED BY <1>2, <1>4, <2>2 DEF Lifecycle!GiveUpBundle, Lifecycle!Moved
<1>. QED BY <1>3, <1>4

\* What is queued gets the next number.
LEMMA IssueStep ==
  ASSUME TypeOK, Placed, Placed', NEW op \in Op, Push(op),
         UNCHANGED <<inProgress, apiCallbackQueue, finished, blockingQueue>>
  PROVE  Lifecycle!Next
<1>. DEFINE n == Len(issued) + 1
<1>0. /\ queue \in Seq(Call) /\ issued \in Seq(Op) /\ Len(issued) \in Nat
      /\ MaxCalls \in Nat /\ Len(issued) < MaxCalls
      /\ queue' = Append(queue, [id |-> n, op |-> op]) /\ issued' = Append(issued, op)
  BY PipelinePartsType, CommsAssumption DEF Push
<1>1. /\ Told' = Told /\ Waiting' = Waiting /\ Sent' = Sent
      /\ Len(issued)' = n /\ n \in 1 .. MaxCalls
  BY <1>0 DEF Told, Waiting, Sent, CallsOf
<1>2. Queued' = Queued \cup {n}
  <2>1. /\ DOMAIN queue' = DOMAIN queue \cup {Len(queue) + 1}
        /\ \A i \in DOMAIN queue : queue'[i] = queue[i]
        /\ queue'[Len(queue) + 1].id = n
    BY <1>0
  <2>2. Queued' = {queue'[i].id : i \in DOMAIN queue'}
    BY DEF Queued, IdsOf
  <2>. HIDE DEF n
  <2>. QED BY <2>1, <2>2 DEF Queued, IdsOf
<1>3. ASSUME NEW c \in 1 .. MaxCalls
      PROVE  Status(c)' = IF c = n THEN "queued" ELSE Status(c)
  BY <1>0, <1>1, <1>2 DEF Placed
<1>4. Status(n) = "new" /\ \A d \in 1 .. MaxCalls : d < n => Status(d) # "new"
  <2>1. Status(n) = "new"
    BY <1>0, <1>1 DEF Placed
  <2>2. ASSUME NEW d \in 1 .. MaxCalls, d < n PROVE Status(d) # "new"
    <3>1. d <= Len(issued)
      BY <1>0, <2>2
    <3>. QED BY <1>0, <3>1 DEF Placed
  <2>. QED BY <2>1, <2>2
<1>5. Mute' \in {Mute, Mute \cup {n}}
  <2>1. /\ DOMAIN issued' = DOMAIN issued \cup {n} /\ issued'[n] = op
        /\ \A i \in DOMAIN issued : issued'[i] = issued[i] /\ i # n
    BY <1>0
  <2>2. Mute' = {c \in DOMAIN issued' : issued'[c] \in Silent}
    BY DEF Mute, Silent
  <2>. HIDE DEF n
  <2>3. CASE op \in Silent
    BY <2>1, <2>2, <2>3 DEF Mute
  <2>4. CASE op \notin Silent
    BY <2>1, <2>2, <2>4 DEF Mute
  <2>. QED BY <2>3, <2>4
<1>. HIDE DEF n
<1>6. ASSUME NEW c \in 1 .. MaxCalls, c = n PROVE Lifecycle!Issue(c)
  BY <1>6, <1>1, <1>3, <1>4, <1>5 DEF Lifecycle!Issue, Mute
<1>7. \E c \in 1 .. MaxCalls : Lifecycle!Issue(c)
  BY <1>1, <1>6
<1>. QED BY <1>7 DEF Lifecycle!Next

\* The first of the callbacks that are due is run.
LEMMA CallBackStep ==
  ASSUME TypeOK, Placed, Placed', RunApiCallback
  PROVE  Lifecycle!CallBack
<1>. DEFINE ids(events) == [i \in DOMAIN events |-> events[i].call.id]
            h == Head(apiCallbackQueue)
<1>0. /\ apiCallbackQueue \in Seq(Event) /\ apiCallbackQueue # <<>>
      /\ finished \in Seq(Event)
      /\ apiCallbackQueue' = Tail(apiCallbackQueue)
      /\ finished' = Append(finished, h)
      /\ UNCHANGED <<queue, inProgress, issued, blockingQueue>>
  BY PipelinePartsType DEF RunApiCallback
<1>1. /\ Queued' = Queued /\ Sent' = Sent /\ Mute' = Mute /\ Len(issued)' = Len(issued)
  BY <1>0 DEF Queued, Sent, Mute, IdsOf
<1>2. Told' = Told \cup {h.call.id}
  <2>1. /\ DOMAIN finished' = DOMAIN finished \cup {Len(finished) + 1}
        /\ \A i \in DOMAIN finished : finished'[i] = finished[i]
        /\ finished'[Len(finished) + 1] = h
    BY <1>0
  <2>2. \A events : IdsOf(CallsOf(events)) = {events[i].call.id : i \in DOMAIN events}
    BY DEF IdsOf, CallsOf
  <2>. HIDE DEF h
  <2>. QED BY <2>1, <2>2 DEF Told
<1>3. Waiting = Waiting' \cup {h.call.id}
  <2>1. /\ \A i \in DOMAIN apiCallbackQueue' :
              i + 1 \in DOMAIN apiCallbackQueue /\ apiCallbackQueue'[i] = apiCallbackQueue[i + 1]
        /\ \A i \in DOMAIN apiCallbackQueue :
              i = 1 \/ (i - 1 \in DOMAIN apiCallbackQueue' /\ apiCallbackQueue'[i - 1] = apiCallbackQueue[i])
        /\ 1 \in DOMAIN apiCallbackQueue /\ apiCallbackQueue[1] = h
    BY <1>0
  <2>2. \A events : IdsOf(CallsOf(events)) = {events[i].call.id : i \in DOMAIN events}
    BY DEF IdsOf, CallsOf
  <2>. HIDE DEF h
  <2>. QED BY <2>1, <2>2 DEF Waiting
<1>4. /\ ids(apiCallbackQueue) # <<>>
      /\ Head(ids(apiCallbackQueue)) = h.call.id
      /\ ids(apiCallbackQueue') = Tail(ids(apiCallbackQueue))
  BY <1>0
<1>5. ASSUME NEW c \in 1 .. MaxCalls
      PROVE  Status(c)' = IF c = h.call.id THEN "done" ELSE Status(c)
  <2>. HIDE DEF h
  <2>1. CASE c = h.call.id
    BY <1>2, <2>1 DEF Placed
  <2>2. CASE c # h.call.id
    <3>1. (c \in Told' <=> c \in Told) /\ (c \in Waiting' <=> c \in Waiting)
      BY <1>2, <1>3, <2>2
    <3>. QED BY <1>1, <2>2, <3>1 DEF Placed
  <2>. QED BY <2>1, <2>2
<1>6. h.call.id \in 1 .. MaxCalls
  BY <1>3, CommsAssumption DEF Placed
<1>. HIDE DEF h
<1>7. ids(apiCallbackQueue)' = Tail(ids(apiCallbackQueue))
  BY <1>4
<1>. QED BY <1>0, <1>1, <1>4, <1>5, <1>6, <1>7 DEF Lifecycle!CallBack, Mute

\* A sequence without repetition lists its elements.
LEMMA Lists ==
  ASSUME NEW T, NEW order \in Seq(T),
         \A i, j \in DOMAIN order : i < j => order[i] # order[j],
         NEW S, S = {order[i] : i \in DOMAIN order}
  PROVE  order \in Lifecycle!SetToSeqs(S)
<1>. DEFINE n == Len(order)
<1>1. n \in Nat /\ DOMAIN order = 1 .. n /\ order \in [1 .. n -> S]
  OBVIOUS
<1>2. \A i, j \in 1 .. n : i # j => order[i] # order[j]
  BY <1>1
<1>. HIDE DEF n
<1>3. order \in Bijection(1 .. n, S)
  BY <1>1, <1>2 DEF Bijection, Injection, Surjection, IsInjective
<1>4. Cardinality(S) = n
  BY <1>1, <1>3, FS_CountingElements DEF ExistsBijection
<1>5. Lifecycle!Cardinality(S) = Cardinality(S)
  BY DEF Lifecycle!Cardinality, Cardinality
<1>. QED BY <1>1, <1>2, <1>4, <1>5 DEF Lifecycle!SetToSeqs

\* The ids of a concatenation.
LEMMA IdsOfConcat ==
  ASSUME NEW s \in Seq(Call), NEW t \in Seq(Call)
  PROVE  IdsOf(s \o t) = IdsOf(s) \cup IdsOf(t)
<1>1. ASSUME NEW k \in DOMAIN (s \o t) PROVE (s \o t)[k].id \in IdsOf(s) \cup IdsOf(t)
  BY ConcatElements DEF IdsOf
<1>2. ASSUME NEW i \in DOMAIN s PROVE s[i].id \in IdsOf(s \o t)
  BY ConcatElements DEF IdsOf
<1>3. ASSUME NEW j \in DOMAIN t PROVE t[j].id \in IdsOf(s \o t)
  <2>1. Len(s) + j \in DOMAIN (s \o t) /\ (s \o t)[Len(s) + j] = t[j]
    BY ConcatElements
  <2>. QED BY <2>1 DEF IdsOf
<1>. QED BY <1>1, <1>2, <1>3 DEF IdsOf

\* The ids of a sequence of calls, in its order.
IdList(calls) == [i \in DOMAIN calls |-> calls[i].id]

LEMMA IdListType ==
  ASSUME NEW calls \in Seq(Call)
  PROVE  /\ IdList(calls) \in Seq(Nat) /\ Len(IdList(calls)) = Len(calls)
         /\ DOMAIN IdList(calls) = DOMAIN calls
         /\ \A i \in DOMAIN calls : IdList(calls)[i] = calls[i].id
<1>1. Len(calls) \in Nat /\ DOMAIN calls = 1 .. Len(calls)
  OBVIOUS
<1>2. \A i \in DOMAIN calls : calls[i].id \in Nat
  <2>1. \A c \in Call : c.id \in Nat
    BY DEF Call
  <2>2. \A i \in DOMAIN calls : calls[i] \in Call
    OBVIOUS
  <2>. QED BY <2>1, <2>2
<1>3. IdList(calls) \in [1 .. Len(calls) -> Nat]
  BY <1>1, <1>2 DEF IdList
<1>. QED BY <1>1, <1>3 DEF IdList

\* They follow each other in a concatenation.
LEMMA IdListConcat ==
  ASSUME NEW s \in Seq(Call), NEW t \in Seq(Call)
  PROVE  IdList(s \o t) = IdList(s) \o IdList(t)
<1>. DEFINE one == IdList(s \o t)
            two == IdList(s) \o IdList(t)
<1>1. /\ Len(s) \in Nat /\ DOMAIN s = 1 .. Len(s)
      /\ Len(t) \in Nat /\ DOMAIN t = 1 .. Len(t)
      /\ s \o t \in Seq(Call) /\ Len(s \o t) = Len(s) + Len(t)
      /\ DOMAIN (s \o t) = 1 .. Len(s) + Len(t)
  OBVIOUS
<1>2. one \in Seq(Nat) /\ Len(one) = Len(s) + Len(t) /\ DOMAIN one = 1 .. Len(s) + Len(t)
  BY <1>1, IdListType
<1>3. two \in Seq(Nat) /\ Len(two) = Len(s) + Len(t) /\ DOMAIN two = 1 .. Len(s) + Len(t)
  <2>1. \A a, b \in Seq(Nat) : a \o b \in Seq(Nat) /\ Len(a \o b) = Len(a) + Len(b)
    BY ConcatProperties
  <2>2. two \in Seq(Nat) /\ Len(two) = Len(IdList(s)) + Len(IdList(t))
    BY <2>1, IdListType
  <2>3. Len(two) = Len(s) + Len(t)
    BY <2>2, IdListType
  <2>4. \A a \in Seq(Nat) : DOMAIN a = 1 .. Len(a)
    OBVIOUS
  <2>5. DOMAIN two = 1 .. Len(two)
    BY <2>2, <2>4
  <2>. HIDE DEF two
  <2>. QED BY <2>2, <2>3, <2>5
<1>4. ASSUME NEW i \in 1 .. Len(s) + Len(t) PROVE one[i] = two[i]
  <2>1. one[i] = (s \o t)[i].id
    BY <1>1, IdListType
  <2>2. CASE i <= Len(s)
    <3>1. i \in DOMAIN s /\ (s \o t)[i] = s[i]
      BY <1>1, <2>2
    <3>2. two[i] = IdList(s)[i]
      BY <1>1, <2>2, IdListType
    <3>. QED BY <2>1, <3>1, <3>2, IdListType
  <2>3. CASE i > Len(s)
    <3>1. i - Len(s) \in DOMAIN t /\ (s \o t)[i] = t[i - Len(s)]
      BY <1>1, <2>3
    <3>2. two[i] = IdList(t)[i - Len(s)]
      BY <1>1, <2>3, IdListType
    <3>3. IdList(t)[i - Len(s)] = t[i - Len(s)].id
      BY <3>1, IdListType
    <3>. HIDE DEF one, two
    <3>. QED BY <2>1, <3>1, <3>2, <3>3
  <2>4. i <= Len(s) \/ i > Len(s)
    BY <1>1
  <2>. QED BY <2>2, <2>3, <2>4, Zenon
<1>. HIDE DEF one, two
<1>5. one = two
  BY <1>2, <1>3, <1>4
<1>. QED BY <1>5 DEF one, two

\* The callbacks that are due, as CallLifecycle sees them.
LEMMA DueList ==
  ASSUME NEW events \in Seq(Event)
  PROVE  [i \in DOMAIN events |-> events[i].call.id] = IdList(CallsOf(events))
BY DEF IdList, CallsOf

\* The callbacks of a bundle of calls are due once each, in the order of the events.
LEMMA AnsweredSettles ==
  ASSUME TypeOK, TypeOK', Placed, Placed', UNCHANGED <<issued, finished>>,
         blockingQueue' = FALSE,
         NEW calls \in Seq(Call), Ordered(calls), IssuedIn(calls, issued),
         \A i \in DOMAIN calls : calls[i].op # "marker",
         Answers(calls),
         NEW S, NEW skipped, S \subseteq Queued, skipped \subseteq Queued \cap Mute,
         S # {} => Sent = {}, S \cap skipped = {}, S \cup Sent = IdsOf(calls),
         Queued' = Queued \ (S \cup skipped), Sent' = {}
  PROVE  Lifecycle!Settle(S, skipped)
<1>1. PICK x \in Seq(Call) :
        /\ CallsOf(apiCallbackQueue') = CallsOf(apiCallbackQueue) \o x
        /\ Within(x, calls) /\ Ordered(x)
        /\ \A k \in DOMAIN x : HasCallback(x[k])
        /\ \A i \in DOMAIN calls : HasCallback(calls[i]) => \E k \in DOMAIN x : x[k] = calls[i]
  BY DEF Answers
<1>. DEFINE order == IdList(x)
<1>2. IdsOf(x) = (S \cup Sent) \ Mute
  <2>1. ASSUME NEW i \in DOMAIN calls PROVE (calls[i].id \in Mute) <=> ~HasCallback(calls[i])
    <3>1. calls[i].id \in DOMAIN issued /\ issued[calls[i].id] = calls[i].op /\ calls[i].op # "marker"
      BY DEF IssuedIn
    <3>. QED BY <3>1 DEF Mute, Silent, HasCallback
  <2>2. ASSUME NEW k \in DOMAIN x PROVE x[k].id \in IdsOf(calls) \ Mute
    <3>1. PICK i \in DOMAIN calls : x[k] = calls[i]
      BY <1>1 DEF Within
    <3>. QED BY <1>1, <2>1, <3>1 DEF IdsOf
  <2>3. ASSUME NEW i \in DOMAIN calls, calls[i].id \notin Mute PROVE calls[i].id \in IdsOf(x)
    <3>1. PICK k \in DOMAIN x : x[k] = calls[i]
      BY <1>1, <2>1, <2>3
    <3>. QED BY <3>1 DEF IdsOf
  <2>. QED BY <2>2, <2>3 DEF IdsOf
<1>3. order \in Lifecycle!SetToSeqs(IdsOf(x))
  <2>1. order \in Seq(Nat) /\ DOMAIN order = DOMAIN x /\ \A k \in DOMAIN x : order[k] = x[k].id
    BY IdListType
  <2>2. IdsOf(x) = {order[k] : k \in DOMAIN order}
    BY <2>1 DEF IdsOf
  <2>3. \A i, j \in DOMAIN x : i < j => x[i].id # x[j].id
    BY <1>1 DEF Ordered, MayPrecede
  <2>. HIDE DEF order
  <2>4. \A i, j \in DOMAIN order : i < j => order[i] # order[j]
    BY <2>1, <2>3
  <2>. QED BY <2>1, <2>2, <2>4, Lists
<1>4. /\ CallsOf(apiCallbackQueue) \in Seq(Call) /\ apiCallbackQueue \in Seq(Event)
      /\ apiCallbackQueue' \in Seq(Event)
  BY PipelinePartsType DEF TypeOK, DataOK
<1>5. Waiting' = Waiting \cup IdsOf(x)
  BY <1>1, <1>4, IdsOfConcat DEF Waiting
<1>6. [i \in DOMAIN apiCallbackQueue |-> apiCallbackQueue[i].call.id]'
        = [i \in DOMAIN apiCallbackQueue |-> apiCallbackQueue[i].call.id] \o order
  <2>1. IdList(CallsOf(apiCallbackQueue')) = IdList(CallsOf(apiCallbackQueue)) \o order
    BY <1>1, <1>4, IdListConcat
  <2>. QED BY <1>4, <2>1, DueList
<1>7. Told' = Told
  BY DEF Told, CallsOf
<1>. HIDE DEF order
<1>. QED BY <1>2, <1>3, <1>5, <1>6, <1>7, SettleStep

\* Moving a call to the front loses none.
LEMMA ReorderedComplete ==
  ASSUME TypeOK
  PROVE  Within(queue, Reordered)
<1>1. /\ queue \in Seq(Call) /\ Len(queue) \in Nat /\ DOMAIN queue = 1 .. Len(queue)
      /\ DOMAIN Reordered = 1 .. Len(queue)
  <2>1. Reordered \in Seq(Call) /\ Len(Reordered) = Len(queue)
    BY ReorderedType
  <2>. QED BY <2>1 DEF TypeOK, DataOK
<1>2. CASE ~AuthFound
  BY <1>2 DEF Reordered, Within
<1>3. CASE AuthFound
  <2>1. PICK a \in DOMAIN queue :
           /\ Reordered[1] = queue[a]
           /\ \A k \in DOMAIN queue : 1 < k /\ k <= a => Reordered[k] = queue[k - 1]
           /\ \A k \in DOMAIN queue : a < k => Reordered[k] = queue[k]
    BY <1>3, ReorderedElements
  <2>2. ASSUME NEW j \in DOMAIN queue PROVE \E k \in DOMAIN Reordered : queue[j] = Reordered[k]
    <3>1. CASE j < a
      <4>1. j + 1 \in DOMAIN queue /\ 1 < j + 1 /\ j + 1 <= a /\ (j + 1) - 1 = j
        BY <1>1, <3>1
      <4>. QED BY <1>1, <2>1, <4>1
    <3>2. CASE j = a
      <4>1. 1 \in DOMAIN Reordered
        BY <1>1
      <4>. QED BY <2>1, <3>2, <4>1
    <3>3. CASE j > a
      BY <1>1, <2>1, <3>3
    <3>. QED BY <1>1, <3>1, <3>2, <3>3
  <2>. QED BY <2>2 DEF Within
<1>. QED BY <1>2, <1>3

\* What createAndSendBundle takes off the queue goes into the bundle, but for entries
\* without callback.
LEMMA BundleIds ==
  ASSUME TypeOK, PipelineLegal
  PROVE  /\ IdsOf(Bundle) \subseteq Queued /\ IdsOf(Rest) \subseteq Queued
         /\ IdsOf(Bundle) \cap IdsOf(Rest) = {}
         /\ Queued \ (IdsOf(Bundle) \cup IdsOf(Rest)) \subseteq Mute
         /\ \A i \in DOMAIN Bundle : Bundle[i].op # "marker"
<1>1. /\ Bundle \in Seq(Call) /\ Rest \in Seq(Call) /\ Within(Bundle, queue) /\ Within(Rest, queue)
      /\ Precedes(Bundle, Rest)
  BY BundleOrdered DEF PipelineLegal, PartsLegal, PartsInOrder
<1>2. /\ Reordered \in Seq(Call) /\ Len(queue) \in Nat /\ DOMAIN Reordered = 1 .. Len(queue)
      /\ Cut \in 0 .. Len(queue)
  <2>1. Reordered \in Seq(Call) /\ Len(Reordered) = Len(queue)
    BY ReorderedType
  <2>. QED BY <2>1, CutType DEF TypeOK, DataOK
<1>3. TakenBy(Cut) \in SUBSET (DOMAIN Reordered)
  BY <1>2, TakenByPositions
<1>4. IdsOf(Bundle) \subseteq Queued /\ IdsOf(Rest) \subseteq Queued
  BY <1>1 DEF IdsOf, Queued, Within
<1>5. IdsOf(Bundle) \cap IdsOf(Rest) = {}
  BY <1>1, Apart
<1>6. ASSUME NEW c \in Queued, c \notin IdsOf(Bundle), c \notin IdsOf(Rest) PROVE c \in Mute
  <2>1. PICK j \in DOMAIN queue : queue[j].id = c
    BY DEF Queued, IdsOf
  <2>2. PICK k \in DOMAIN Reordered : queue[j] = Reordered[k]
    BY ReorderedComplete DEF Within
  <2>3. k <= Cut
    <3>1. SUFFICES ASSUME k > Cut PROVE FALSE
      BY <1>2
    <3>2. k - Cut \in DOMAIN Rest /\ Rest[k - Cut] = Reordered[k]
      BY <1>2, <3>1 DEF Rest
    <3>. QED BY <1>6, <2>1, <2>2, <3>2 DEF IdsOf
  <2>4. k \notin TakenBy(Cut)
    <3>1. SUFFICES ASSUME k \in TakenBy(Cut) PROVE FALSE
      OBVIOUS
    <3>2. PICK m \in DOMAIN Bundle : Bundle[m] = Reordered[k]
      BY <1>2, <1>3, <3>1, SelectComplete DEF Bundle
    <3>. QED BY <1>6, <2>1, <2>2, <3>2 DEF IdsOf
  <2>5. Reordered[k].op \in Silent
    BY <1>2, <2>3, <2>4 DEF TakenBy, Silent
  <2>6. c \in DOMAIN issued /\ issued[c] = queue[j].op
    BY <2>1 DEF PipelineLegal, PartsLegal, IssuedIn
  <2>. QED BY <2>2, <2>5, <2>6 DEF Mute
<1>7. ASSUME NEW i \in DOMAIN Bundle PROVE Bundle[i].op # "marker"
  <2>1. /\ DOMAIN Bundle = 1 .. Cardinality(TakenBy(Cut))
        /\ \A k \in 1 .. Cardinality(TakenBy(Cut)) :
             /\ InOrder(TakenBy(Cut))[k] \in TakenBy(Cut)
             /\ Bundle[k] = Reordered[InOrder(TakenBy(Cut))[k]]
    BY <1>1, <1>2, <1>3, SelectType DEF Bundle
  <2>. QED BY <1>2, <2>1, TakenByOps
<1>. QED BY <1>4, <1>5, <1>6, <1>7

\* No number beyond the bound is handed out, and no marker goes out with a bundle.
LEMMA CallsLegalStep ==
  ASSUME TypeOK, InStep, PipelineLegal, CallsLegal, [Next]_vars
  PROVE  CallsLegal'
<1>. USE DEF history, sessionVars
<1>0. DOMAIN <<>> = {}
  OBVIOUS
<1>1. ASSUME NEW op, Push(op), UNCHANGED inProgress PROVE CallsLegal'
  <2>1. /\ issued \in Seq(Op) /\ Len(issued) \in Nat /\ MaxCalls \in Nat
        /\ Len(issued) < MaxCalls /\ issued' = Append(issued, op)
    BY <1>1, PipelinePartsType, CommsAssumption DEF Push
  <2>2. Len(issued') = Len(issued) + 1
    BY <2>1
  <2>. QED BY <1>1, <2>1, <2>2 DEF CallsLegal
<1>2. ASSUME UNCHANGED issued, inProgress' \in {inProgress, <<>>} PROVE CallsLegal'
  BY <1>0, <1>2 DEF CallsLegal
<1>3. CASE UNCHANGED vars
  BY <1>2, <1>3 DEF vars
<1>4. CASE App
  <2>1. CASE \E op \in AppOps : AddToQueue(op)
    BY <1>1, <2>1 DEF AddToQueue
  <2>2. CASE \/ Initialize
             \/ \E enabled \in BOOLEAN : EnableNetworkErrorMessageCaching(enabled)
             \/ RetryCachedMessages
             \/ \E notify \in BOOLEAN : FlushCachedMessages(notify)
             \/ ResetCommunication \/ Shutdown
    BY <1>2, <2>2 DEF Initialize, EnableNetworkErrorMessageCaching, RetryCachedMessages,
       FlushCachedMessages, ResetCommunication, Shutdown, Clear, ClearCalls
  <2>. QED BY <1>4, <2>1, <2>2 DEF App
<1>5. CASE RunCallbacks
  <2>1. CASE SendHeartbeat
    BY <1>1, <2>1 DEF SendHeartbeat
  <2>2. CASE SendBundle
    <3>1. CreatesBundle /\ inProgress' = inProgress \o Bundle /\ UNCHANGED issued
      BY <2>2 DEF SendBundle
    <3>2. inProgress = <<>> /\ Bundle \in Seq(Call)
      BY <3>1, BundleFromIdle, BundleType
    <3>3. inProgress' = Bundle
      BY <3>1, <3>2
    <3>. QED BY <3>1, <3>3, BundleIds DEF CallsLegal
  <2>3. CASE \/ ScheduleRetry \/ GiveUp \/ BlockQueue \/ NetworkErrorReturns \/ TakeReply
             \/ Resend \/ TossQueue \/ RefuseBundle
             \/ NothingToDo \/ RunApiCallback \/ ReturnFromRunCallbacks
    BY <1>2, <2>3 DEF ScheduleRetry, GiveUp, BlockQueue, NetworkErrorReturns, TakeReply,
       Resend, TossQueue, RefuseBundle, NothingToDo, RunApiCallback, ReturnFromRunCallbacks
  <2>. QED BY <1>5, <2>1, <2>2, <2>3 DEF RunCallbacks
<1>6. CASE Network
  BY <1>2, <1>6 DEF Network, ServerReplies, NetworkFails, ServerOutOfSync, LoaderReturns
<1>. QED BY <1>3, <1>4, <1>5, <1>6 DEF Next

\* What a step of the engine is for CallLifecycle.
LifeStep == Lifecycle!Next \/ UNCHANGED Lifecycle!vars

\* A step that moves no call leaves all of CallLifecycle as it is, but for the hold.
LEMMA SameCalls ==
  ASSUME UNCHANGED <<queue, inProgress, apiCallbackQueue, finished, issued>>
  PROVE  /\ blockingQueue' = blockingQueue => LifeStep
         /\ UNCHANGED <<[c \in 1 .. MaxCalls |-> Status(c)],
                        {c \in DOMAIN issued : issued[c] \in Silent},
                        [i \in DOMAIN apiCallbackQueue |-> apiCallbackQueue[i].call.id]>>
BY DEF LifeStep, Lifecycle!vars, Status, IsIn, CallsOf

\* The calls in progress are answered.
LEMMA SettleInProgress ==
  ASSUME TypeOK, TypeOK', Placed, Placed', PipelineLegal, CallsLegal,
         UNCHANGED <<queue, issued, finished>>, blockingQueue' = FALSE,
         inProgress' = <<>>, Answers(inProgress)
  PROVE  LifeStep
<1>1. /\ inProgress \in Seq(Call) /\ Ordered(inProgress) /\ IssuedIn(inProgress, issued)
      /\ \A i \in DOMAIN inProgress : inProgress[i].op # "marker"
  BY PipelinePartsType DEF PipelineLegal, PartsLegal, PartsInOrder, CallsLegal
<1>2. Queued' = Queued /\ Sent' = {} /\ Sent = IdsOf(inProgress)
  BY DEF Queued, Sent, IdsOf
<1>3. ASSUME NEW none, none = {} PROVE Lifecycle!Settle(none, none)
  <2>1. /\ none \subseteq Queued /\ none \subseteq Queued \cap Mute /\ none \cap none = {}
        /\ none \cup Sent = IdsOf(inProgress) /\ Queued' = Queued \ (none \cup none)
    BY <1>2, <1>3
  <2>. QED BY <1>1, <1>2, <1>3, <2>1, AnsweredSettles
<1>4. {} \in SUBSET Lifecycle!In("queued")
      /\ {} \in SUBSET (Lifecycle!In("queued") \cap {c \in DOMAIN issued : issued[c] \in Silent})
  OBVIOUS
<1>. QED BY <1>3, <1>4 DEF LifeStep, Lifecycle!Next

\* What is taken off the queue goes out, or is answered at once.
LEMMA TakenOffQueue ==
  ASSUME TypeOK, TypeOK', InStep, Placed, Placed', PipelineLegal, CreatesBundle,
         queue' = Rest, UNCHANGED <<issued, finished, blockingQueue>>
  PROVE  /\ inProgress' = inProgress \o Bundle /\ UNCHANGED apiCallbackQueue => LifeStep
         /\ inProgress' = <<>> /\ Answers(inProgress \o Bundle) => LifeStep
<1>. DEFINE S == IdsOf(Bundle)
            skipped == Queued \ (IdsOf(Bundle) \cup IdsOf(Rest))
<1>1. /\ inProgress = <<>> /\ ~blockingQueue /\ Bundle \in Seq(Call)
      /\ inProgress \o Bundle = Bundle
  <2>1. inProgress = <<>> /\ ~blockingQueue /\ Bundle \in Seq(Call)
    BY BundleFromIdle, BundleType
  <2>. QED BY <2>1
<1>2. /\ S \subseteq Queued /\ skipped \subseteq Queued \cap Mute /\ S \cap skipped = {}
      /\ \A i \in DOMAIN Bundle : Bundle[i].op # "marker"
  BY BundleIds
<1>3. Queued' = Queued \ (S \cup skipped)
  <2>1. Queued' = IdsOf(Rest)
    BY DEF Queued, IdsOf
  <2>. QED BY <2>1, BundleIds
<1>4. Sent = {}
  BY <1>1 DEF Sent, IdsOf
<1>5. Lifecycle!In("queued") = Queued
  BY AbstractIn
<1>. HIDE DEF S, skipped
<1>6. ASSUME NEW A, A = S, NEW B, B = skipped, Lifecycle!Submit(A, B) \/ Lifecycle!Settle(A, B)
      PROVE  LifeStep
  <2>1. A \in SUBSET Lifecycle!In("queued") /\ B \in SUBSET (Lifecycle!In("queued") \cap Mute)
    BY <1>2, <1>5, <1>6
  <2>. QED BY <1>6, <2>1 DEF LifeStep, Lifecycle!Next, Mute
<1>7. ASSUME inProgress' = inProgress \o Bundle, UNCHANGED apiCallbackQueue,
             NEW A, A = S, NEW B, B = skipped
      PROVE  Lifecycle!Submit(A, B)
  <2>1. Sent' = A
    BY <1>1, <1>7 DEF Sent, S, IdsOf
  <2>. QED BY <1>2, <1>3, <1>4, <1>7, <2>1, SubmitStep
<1>8. ASSUME inProgress' = <<>>, Answers(inProgress \o Bundle),
             NEW A, A = S, NEW B, B = skipped
      PROVE  Lifecycle!Settle(A, B)
  <2>1. Sent' = {}
    BY <1>8 DEF Sent, IdsOf
  <2>2. Ordered(Bundle) /\ Within(Bundle, queue) /\ IssuedIn(Bundle, issued)
    BY BundleOrdered, IssuedWithin DEF PipelineLegal, PartsLegal, PartsInOrder
  <2>3. A \cup Sent = IdsOf(Bundle) /\ Answers(Bundle)
    BY <1>1, <1>4, <1>8 DEF S
  <2>4. blockingQueue' = FALSE
    BY <1>1
  <2>. QED BY <1>1, <1>2, <1>3, <1>4, <1>8, <2>1, <2>2, <2>3, <2>4, AnsweredSettles
<1>. QED BY <1>6, <1>7, <1>8

\* Every step of the engine is one of CallLifecycle or none of its business.
LEMMA LifecycleStep ==
  ASSUME TypeOK, TypeOK', InStep, Placed, Placed', PipelineLegal, CallsLegal, [Next]_vars
  PROVE  LifeStep
<1>. USE DEF history, loaderVars
<1>1. CASE UNCHANGED vars
  BY <1>1, SameCalls DEF vars
<1>2. CASE App
  <2>1. ASSUME NEW op \in AppOps, AddToQueue(op) PROVE LifeStep
    BY <2>1, IssueStep, CommsAssumption DEF AddToQueue, LifeStep
  <2>2. CASE Initialize \/ \E enabled \in BOOLEAN : EnableNetworkErrorMessageCaching(enabled)
    BY <2>2, SameCalls DEF Initialize, EnableNetworkErrorMessageCaching
  <2>3. CASE RetryCachedMessages
    <3>1. /\ blockingQueue /\ blockingQueue' = FALSE
          /\ UNCHANGED <<queue, inProgress, apiCallbackQueue, finished, issued>>
      BY <2>3 DEF RetryCachedMessages
    <3>2. Lifecycle!Resume
      BY <3>1, SameCalls DEF Lifecycle!Resume
    <3>. QED BY <3>2 DEF LifeStep, Lifecycle!Next
  <2>4. ASSUME NEW notify \in BOOLEAN, FlushCachedMessages(notify) PROVE LifeStep
    <3>1. /\ blockingQueue /\ blockingQueue' = FALSE /\ inProgress' = <<>>
          /\ UNCHANGED <<queue, issued, finished>>
      BY <2>4 DEF FlushCachedMessages
    <3>2. CASE notify
      <4>1. AnswerCalls(inProgress, LocalReplies(inProgress, "timeout"))
        BY <2>4, <3>2 DEF FlushCachedMessages
      <4>2. Answers(inProgress)
        BY <4>1, AnswerCallsAnswer, LocalRepliesType, PipelinePartsType DEF Result
      <4>. QED BY <3>1, <4>2, SettleInProgress
    <3>3. CASE ~notify
      <4>1. UNCHANGED apiCallbackQueue
        BY <2>4, <3>3 DEF FlushCachedMessages
      <4>2. Lifecycle!GiveUpBundle
        BY <3>1, <4>1, ForgetStep
      <4>. QED BY <4>2 DEF LifeStep, Lifecycle!Next
    <3>. QED BY <3>2, <3>3
  <2>5. CASE ResetCommunication \/ Shutdown
    <3>1. /\ UNCHANGED <<issued, apiCallbackQueue, finished>>
          /\ inProgress' = <<>> /\ blockingQueue' = FALSE /\ queue' = <<>>
      BY <2>5 DEF ResetCommunication, Shutdown, Clear, ClearCalls
    <3>2. Lifecycle!Reset
      BY <3>1, ForgetStep
    <3>. QED BY <3>2 DEF LifeStep, Lifecycle!Next
  <2>. QED BY <1>2, <2>1, <2>2, <2>3, <2>4, <2>5 DEF App
<1>3. CASE RunCallbacks
  <2>1. CASE ScheduleRetry \/ NetworkErrorReturns \/ Resend \/ NothingToDo \/ ReturnFromRunCallbacks
    BY <2>1, SameCalls DEF ScheduleRetry, NetworkErrorReturns, Resend, NothingToDo,
       ReturnFromRunCallbacks
  <2>2. CASE GiveUp \/ TakeReply
    <3>1. /\ blockingQueue' = FALSE /\ inProgress' = <<>>
          /\ UNCHANGED <<queue, issued, finished>>
      BY <2>2 DEF GiveUp, LoaderFailed, TakeReply, Ticking, TypeOK, FlagsOK
    <3>2. Answers(inProgress)
      <4>1. CASE GiveUp
        <5>1. LocalReplies(inProgress, "timeout") \in Seq(Reply)
          BY LocalRepliesType, PipelinePartsType DEF Result
        <5>2. [packetId |-> expectedPacketId,
               replies |-> LocalReplies(inProgress, "timeout")] \in Response
          BY <5>1 DEF Response, TypeOK, DataOK, NoPacket
        <5>. QED BY <4>1, <5>2, HandleResponseBundleAnswers DEF GiveUp
      <4>2. CASE TakeReply
        BY <4>2, HandleResponseBundleAnswers DEF TakeReply, TypeOK, DataOK
      <4>. QED BY <2>2, <4>1, <4>2
    <3>. QED BY <3>1, <3>2, SettleInProgress
  <2>3. CASE BlockQueue
    <3>1. /\ blockingQueue = FALSE /\ blockingQueue' = TRUE /\ inProgress # <<>>
          /\ UNCHANGED <<queue, inProgress, apiCallbackQueue, finished, issued>>
      BY <2>3 DEF BlockQueue, LoaderFailed, Ticking, TypeOK, FlagsOK
    <3>2. Lifecycle!In("sent") # {}
      <4>1. 1 \in DOMAIN inProgress
        BY <3>1, PipelinePartsType
      <4>2. Sent # {}
        BY <4>1 DEF Sent, IdsOf
      <4>. QED BY <4>2, AbstractIn
    <3>3. Lifecycle!Hold
      BY <3>1, <3>2, SameCalls DEF Lifecycle!Hold
    <3>. QED BY <3>3 DEF LifeStep, Lifecycle!Next
  <2>4. CASE TossQueue
    <3>1. /\ CreatesBundle /\ queue' = Rest /\ Bundle = <<>>
          /\ UNCHANGED <<inProgress, apiCallbackQueue, issued, finished, blockingQueue>>
      BY <2>4 DEF TossQueue
    <3>2. inProgress' = inProgress \o Bundle
      BY <3>1, PipelinePartsType
    <3>. QED BY <3>1, <3>2, TakenOffQueue
  <2>5. CASE SendBundle
    <3>1. /\ CreatesBundle /\ queue' = Rest /\ inProgress' = inProgress \o Bundle
          /\ UNCHANGED <<apiCallbackQueue, issued, finished, blockingQueue>>
      BY <2>5 DEF SendBundle
    <3>. QED BY <3>1, TakenOffQueue
  <2>6. CASE RefuseBundle
    <3>. DEFINE calls == inProgress \o Bundle
                result == IF killSwitch.engaged THEN "disabled" ELSE errorCache
    <3>1. /\ CreatesBundle /\ queue' = Rest /\ inProgress' = <<>>
          /\ AnswerCalls(calls, LocalReplies(calls, result))
          /\ UNCHANGED <<issued, finished, blockingQueue>>
      BY <2>6 DEF RefuseBundle
    <3>2. calls \in Seq(Call) /\ result \in Result
      BY BundleType, PipelinePartsType DEF Result, TypeOK, DataOK
    <3>. HIDE DEF calls, result
    <3>3. Answers(calls)
      BY <3>1, <3>2, AnswerCallsAnswer, LocalRepliesType
    <3>. QED BY <3>1, <3>3, TakenOffQueue DEF calls
  <2>7. CASE SendHeartbeat
    <3>1. /\ Push("heartbeat") /\ "heartbeat" \in Op
          /\ UNCHANGED <<inProgress, apiCallbackQueue, finished, blockingQueue>>
      BY <2>7 DEF SendHeartbeat, Op
    <3>2. Lifecycle!Next
      BY <3>1, IssueStep
    <3>. QED BY <3>2 DEF LifeStep
  <2>8. CASE RunApiCallback
    BY <2>8, CallBackStep DEF LifeStep, Lifecycle!Next
  <2>. QED BY <1>3, <2>1, <2>2, <2>3, <2>4, <2>5, <2>6, <2>7, <2>8 DEF RunCallbacks
<1>4. CASE Network
  BY <1>4, SameCalls DEF Network, ServerReplies, NetworkFails, ServerOutOfSync, LoaderReturns
<1>. QED BY <1>1, <1>2, <1>3, <1>4 DEF Next

LEMMA LifecycleInit == Init => CallsLegal /\ Lifecycle!Init
<1>. SUFFICES ASSUME Init PROVE CallsLegal /\ Lifecycle!Init
  OBVIOUS
<1>1. /\ issued = <<>> /\ inProgress = <<>> /\ apiCallbackQueue = <<>> /\ ~blockingQueue
      /\ Len(issued) = 0 /\ MaxCalls \in Nat /\ DOMAIN <<>> = {}
  BY CommsAssumption DEF Init
<1>2. CallsLegal
  BY <1>1 DEF CallsLegal
<1>3. Placed
  BY <1>2, TypeInit, PipelineInit, PlacedHolds
<1>4. \A c \in 1 .. MaxCalls : Status(c) = "new"
  BY <1>1, <1>3 DEF Placed
<1>5. blockingQueue = FALSE
  BY DEF Init
<1>6. Lifecycle!Init
  BY <1>1, <1>4, <1>5 DEF Lifecycle!Init
<1>. QED BY <1>2, <1>6

\* Through retries, reordered and refused bundles, lost and wrong answers, blocking,
\* flushes and resets, one bundle at a time is outstanding and it is settled as a whole,
\* and a call with a callback gets exactly one unless the app gives it up: the engine
\* implements CallLifecycle (handleResponseBundle, createAndSendBundle, runCallbacks).
THEOREM CallsAreSettledOnce ==
  ASSUME "retryInCallback" \notin Controls
  PROVE  Spec => ImplementsCallLifecycle
<1>. DEFINE Inv == TypeOK /\ InStep /\ PipelineLegal /\ CallsLegal
<1>1. Init => Inv /\ Lifecycle!Init
  BY TypeInit, InStepInit, PipelineInit, LifecycleInit
<1>2. Inv /\ [Next]_vars => Inv'
  BY TypeStep, InStepStep, PipelineStep, CallsLegalStep
<1>3. Inv /\ Inv' /\ [Next]_vars => [Lifecycle!Next]_Lifecycle!vars
  BY PlacedHolds, PlacedNext, LifecycleStep DEF LifeStep
<1>. QED BY <1>1, <1>2, <1>3, PTL DEF Spec, ImplementsCallLifecycle, Lifecycle!Spec

-----------------------------------------------------------------------------
(* The kill switch counts a run of failures *)

\* One more position counts once.
LEMMA OneMore ==
  ASSUME NEW n \in Nat, NEW A \in SUBSET (1 .. n)
  PROVE  /\ IsFiniteSet(A) /\ Cardinality(A) \in Nat
         /\ Cardinality(A \cup {n + 1}) = Cardinality(A) + 1
<1>1. IsFiniteSet(A) /\ Cardinality(A) \in Nat /\ n + 1 \notin A
  BY PositionsFinite
<1>. QED BY <1>1, FS_AddElement

\* How many of the first n calls have a callback, and how many are heartbeats.
Rank(calls, n)  == Cardinality({i \in 1 .. n : HasCallback(calls[i])})
Beats(calls, n) == Cardinality({i \in 1 .. n : ~HasCallback(calls[i])})

LEMMA RankStep ==
  ASSUME NEW calls, NEW n \in Nat
  PROVE  /\ Rank(calls, n) \in Nat /\ Beats(calls, n) \in Nat
         /\ HasCallback(calls[n + 1]) => /\ Rank(calls, n + 1) = Rank(calls, n) + 1
                                         /\ Beats(calls, n + 1) = Beats(calls, n)
         /\ ~HasCallback(calls[n + 1]) => /\ Rank(calls, n + 1) = Rank(calls, n)
                                          /\ Beats(calls, n + 1) = Beats(calls, n) + 1
<1>. DEFINE A(m) == {i \in 1 .. m : HasCallback(calls[i])}
            B(m) == {i \in 1 .. m : ~HasCallback(calls[i])}
<1>1. A(n) \in SUBSET (1 .. n) /\ B(n) \in SUBSET (1 .. n)
  OBVIOUS
<1>2. CASE HasCallback(calls[n + 1])
  <2>1. A(n + 1) = A(n) \cup {n + 1} /\ B(n + 1) = B(n)
    BY <1>2
  <2>. HIDE DEF A, B
  <2>2. /\ Cardinality(A(n)) \in Nat /\ Cardinality(B(n)) \in Nat
        /\ Cardinality(A(n + 1)) = Cardinality(A(n)) + 1
    BY <1>1, <2>1, OneMore
  <2>. QED BY <1>2, <2>1, <2>2 DEF Rank, Beats, A, B
<1>3. CASE ~HasCallback(calls[n + 1])
  <2>1. B(n + 1) = B(n) \cup {n + 1} /\ A(n + 1) = A(n)
    BY <1>3
  <2>. HIDE DEF A, B
  <2>2. /\ Cardinality(A(n)) \in Nat /\ Cardinality(B(n)) \in Nat
        /\ Cardinality(B(n + 1)) = Cardinality(B(n)) + 1
    BY <1>1, <2>1, OneMore
  <2>. QED BY <1>3, <2>1, <2>2 DEF Rank, Beats, A, B
<1>. QED BY <1>2, <1>3

LEMMA RankOfNone == ASSUME NEW calls PROVE Rank(calls, 0) = 0 /\ Beats(calls, 0) = 0
<1>1. \A S : S \subseteq 1 .. 0 => S = {}
  OBVIOUS
<1>2. /\ {i \in 1 .. 0 : HasCallback(calls[i])} = {}
      /\ {i \in 1 .. 0 : ~HasCallback(calls[i])} = {}
  BY <1>1
<1>. QED BY <1>2, FS_EmptySet DEF Rank, Beats

\* A call with a callback has its event at its place among those.
LEMMA EventAt ==
  ASSUME NEW calls \in Seq(Call), NEW replies \in [1 .. Len(calls) -> Reply],
         NEW n \in DOMAIN calls, HasCallback(calls[n])
  PROVE  /\ Rank(calls, n) \in DOMAIN EventsFor(calls, replies)
         /\ EventsFor(calls, replies)[Rank(calls, n)].call = calls[n]
         /\ EventsFor(calls, replies)[Rank(calls, n)].reply = replies[n]
<1>. DEFINE all == [i \in DOMAIN calls |-> [call |-> calls[i], reply |-> replies[i]]]
            S == {i \in DOMAIN calls : HasCallback(calls[i])}
            D == {x \in S : x <= n}
<1>1. all \in [1 .. Len(calls) -> Event]
  BY DEF Event
<1>2. all \in Seq(Event) /\ DOMAIN all = DOMAIN calls
  BY <1>1
<1>3. S \in SUBSET (DOMAIN all) /\ n \in S
  BY <1>2
<1>4. D = {i \in 1 .. n : HasCallback(calls[i])}
  OBVIOUS
<1>5. all[n].call = calls[n] /\ all[n].reply = replies[n]
  OBVIOUS
<1>. HIDE DEF all, S
<1>6. /\ Cardinality(D) \in DOMAIN Select(all, S)
      /\ Select(all, S)[Cardinality(D)] = all[n]
  BY <1>2, <1>3, SelectRank
<1>. QED BY <1>4, <1>5, <1>6 DEF EventsFor, Rank, all, S

LEMMA RankLast ==
  ASSUME NEW calls \in Seq(Call), NEW replies \in [1 .. Len(calls) -> Reply]
  PROVE  Len(EventsFor(calls, replies)) = Rank(calls, Len(calls))
<1>. DEFINE all == [i \in DOMAIN calls |-> [call |-> calls[i], reply |-> replies[i]]]
            S == {i \in DOMAIN calls : HasCallback(calls[i])}
<1>1. all \in [1 .. Len(calls) -> Event]
  BY DEF Event
<1>2. all \in Seq(Event) /\ DOMAIN all = DOMAIN calls
  BY <1>1
<1>3. S \in SUBSET (DOMAIN all) /\ S = {i \in 1 .. Len(calls) : HasCallback(calls[i])}
  BY <1>2
<1>. HIDE DEF all, S
<1>4. Len(Select(all, S)) = Cardinality(S)
  BY <1>2, <1>3, SelectType
<1>. QED BY <1>3, <1>4 DEF EventsFor, Rank, all, S

\* The replies of the streak that count, and whether the streak began in the bundle.
Failed(replies, n) == {i \in Streak(replies, n) : Counted(replies[i].result)}
Fresh(replies, n)  == Streak(replies, n) # 1 .. n

LEMMA StreakStep ==
  ASSUME NEW replies, NEW n \in Nat
  PROVE  /\ Failed(replies, n) \in SUBSET (1 .. n)
         /\ replies[n + 1].result = "ok" => Failed(replies, n + 1) = {} /\ Fresh(replies, n + 1)
         /\ replies[n + 1].result # "ok" =>
              /\ Fresh(replies, n + 1) = Fresh(replies, n)
              /\ Failed(replies, n + 1) = IF Counted(replies[n + 1].result)
                                          THEN Failed(replies, n) \cup {n + 1}
                                          ELSE Failed(replies, n)
<1>1. Streak(replies, n) \in SUBSET (1 .. n)
  BY DEF Streak
<1>2. CASE replies[n + 1].result = "ok"
  <2>1. Streak(replies, n + 1) = {}
    BY <1>2 DEF Streak
  <2>2. 1 .. n + 1 # {}
    <3>1. n + 1 \in 1 .. n + 1
      OBVIOUS
    <3>. QED BY <3>1
  <2>. QED BY <1>1, <1>2, <2>1, <2>2 DEF Failed, Fresh
<1>3. CASE replies[n + 1].result # "ok"
  <2>1. ASSUME NEW i \in 1 .. n + 1
        PROVE  i \in Streak(replies, n + 1) <=> i \in Streak(replies, n) \cup {n + 1}
    <3>1. \A j : j \in i .. n + 1 <=> j \in i .. n \/ j = n + 1
      OBVIOUS
    <3>2. i # n + 1 => i \in 1 .. n
      OBVIOUS
    <3>. QED BY <1>3, <3>1, <3>2 DEF Streak
  <2>2. Streak(replies, n + 1) \in SUBSET (1 .. n + 1)
    BY DEF Streak
  <2>3. \A i \in Streak(replies, n) \cup {n + 1} : i \in 1 .. n + 1
    BY <1>1
  <2>4. Streak(replies, n + 1) = Streak(replies, n) \cup {n + 1}
    BY <2>1, <2>2, <2>3
  <2>5. 1 .. n + 1 = (1 .. n) \cup {n + 1} /\ n + 1 \notin 1 .. n
    OBVIOUS
  <2>6. Streak(replies, n + 1) = 1 .. n + 1 <=> Streak(replies, n) = 1 .. n
    BY <1>1, <2>4, <2>5
  <2>. QED BY <1>1, <1>3, <2>4, <2>6 DEF Failed, Fresh
<1>. QED BY <1>2, <1>3

\* What one answered call makes of the operation that is counted and of its count.
Recounts(old, call, result, new) ==
  /\ result = "ok" => new.op = NoOp /\ new.count = 0
  /\ result # "ok" /\ ~Counted(result) => new.op = old.op /\ new.count = old.count
  /\ Counted(result) => new.op = IF old.op = NoOp THEN call.op ELSE old.op
  /\ Counted(result) => new.count = old.count + (IF call.op = new.op THEN 1 ELSE 0)

\* The switch after a bundle is the same as after its calls one by one.
LEMMA KillSwitchStep ==
  ASSUME TypeOK,
         NEW calls \in Seq(Call), NEW replies \in [1 .. Len(calls) -> Reply],
         NEW n \in Nat, n + 1 \in DOMAIN calls,
         NEW old, old = KillSwitchAt(calls, replies, n),
         NEW new, new = KillSwitchAt(calls, replies, n + 1)
  PROVE  Recounts(old, calls[n + 1], replies[n + 1].result, new)
<1>. DEFINE OpAt(m) == IF ~Fresh(replies, m) /\ killSwitch.op # NoOp THEN killSwitch.op
                       ELSE IF Failed(replies, m) = {} THEN NoOp
                       ELSE calls[Min(Failed(replies, m))].op
            CountAt(m) == (IF Fresh(replies, m) THEN 0 ELSE killSwitch.count)
                          + Cardinality({i \in Failed(replies, m) : calls[i].op = OpAt(m)})
<1>1. /\ old.op = OpAt(n) /\ old.count = CountAt(n)
      /\ new.op = OpAt(n + 1) /\ new.count = CountAt(n + 1)
  BY DEF KillSwitchAt, Failed, Fresh
<1>2. killSwitch.count \in Nat
  BY DEF TypeOK, DataOK, KillSwitchState
<1>3. \A i \in DOMAIN calls : calls[i].op # NoOp
  <2>1. NoOp \notin Op
    BY CommsAssumption DEF Op, NoOp, Authenticating, EndingSession
  <2>2. \A i \in DOMAIN calls : calls[i] \in Call
    OBVIOUS
  <2>. HIDE DEF NoOp
  <2>. QED BY <2>1, <2>2 DEF Call
<1>4. Failed(replies, n) \in SUBSET (1 .. n) /\ 1 .. n \subseteq DOMAIN calls
  <2>1. DOMAIN calls = 1 .. Len(calls) /\ Len(calls) \in Nat
    OBVIOUS
  <2>2. n + 1 <= Len(calls)
    BY <2>1
  <2>3. 1 .. n \subseteq 1 .. Len(calls)
    BY <2>1, <2>2
  <2>. QED BY <2>1, <2>3, StreakStep
<1>5. CASE replies[n + 1].result = "ok"
  <2>1. Failed(replies, n + 1) = {} /\ Fresh(replies, n + 1)
    BY <1>5, StreakStep
  <2>2. {i \in Failed(replies, n + 1) : calls[i].op = OpAt(n + 1)} = {}
    BY <2>1
  <2>3. OpAt(n + 1) = NoOp
    BY <2>1
  <2>4. CountAt(n + 1) = 0
    <3>. DEFINE B == {i \in Failed(replies, n + 1) : calls[i].op = OpAt(n + 1)}
    <3>1. CountAt(n + 1) = 0 + Cardinality(B)
      BY <2>1
    <3>. HIDE DEF B, CountAt
    <3>2. Cardinality(B) = 0
      BY <2>2, FS_EmptySet DEF B
    <3>. QED BY <3>1, <3>2
  <2>. QED BY <1>1, <1>5, <2>3, <2>4 DEF Recounts, Counted, SessionErrors
<1>6. CASE replies[n + 1].result # "ok" /\ ~Counted(replies[n + 1].result)
  <2>1. Failed(replies, n + 1) = Failed(replies, n) /\ Fresh(replies, n + 1) = Fresh(replies, n)
    BY <1>6, StreakStep
  <2>2. OpAt(n + 1) = OpAt(n)
    BY <2>1
  <2>3. CountAt(n + 1) = CountAt(n)
    <3>. HIDE DEF OpAt
    <3>. QED BY <2>1, <2>2
  <2>. QED BY <1>1, <1>6, <2>2, <2>3 DEF Recounts
<1>7. CASE Counted(replies[n + 1].result)
  <2>1. /\ Failed(replies, n + 1) = Failed(replies, n) \cup {n + 1}
        /\ Fresh(replies, n + 1) = Fresh(replies, n)
    BY <1>7, StreakStep DEF Counted, SessionErrors
  <2>2. Failed(replies, n) # {} => Min(Failed(replies, n + 1)) = Min(Failed(replies, n))
    <3>. DEFINE F == Failed(replies, n)
                G == Failed(replies, n + 1)
    <3>0. \A x \in 1 .. n : x \in Nat /\ x <= n
      OBVIOUS
    <3>1. G \subseteq Nat /\ G # {} /\ F \subseteq Nat /\ \A x \in F : x <= n
      <4>1. F \in SUBSET (1 .. n) /\ G = F \cup {n + 1} /\ n + 1 \in Nat
        BY <1>4, <2>1
      <4>. HIDE DEF F, G
      <4>. QED BY <3>0, <4>1
    <3>. HIDE DEF F, G
    <3>2. F # {} => Min(F) \in F /\ Min(F) \in Nat /\ \A y \in F : Min(F) <= y
      BY <3>1, MinOfNats
    <3>3. Min(G) \in G /\ Min(G) \in Nat /\ \A y \in G : Min(G) <= y
      BY <3>1, MinOfNats
    <3>4. G = F \cup {n + 1}
      BY <2>1 DEF F, G
    <3>5. F # {} => Min(G) <= Min(F) /\ Min(F) <= n
      BY <3>1, <3>2, <3>3, <3>4
    <3>6. F # {} => Min(G) # n + 1
      BY <3>2, <3>3, <3>5
    <3>7. F # {} => Min(F) <= Min(G)
      BY <3>2, <3>3, <3>4, <3>6
    <3>8. F # {} => Min(F) = Min(G)
      BY <3>2, <3>3, <3>5, <3>7
    <3>. QED BY <3>8 DEF F, G
  <2>3. Failed(replies, n) = {} => Min(Failed(replies, n + 1)) = n + 1
    <3>. DEFINE G == Failed(replies, n + 1)
    <3>. SUFFICES ASSUME Failed(replies, n) = {} PROVE Min(G) = n + 1
      OBVIOUS
    <3>1. G = {n + 1} /\ n + 1 \in Nat
      BY <2>1
    <3>. HIDE DEF G
    <3>2. Min(G) \in G
      BY <3>1, MinOfNats
    <3>. QED BY <3>1, <3>2
  <2>4. OpAt(n) = NoOp => Failed(replies, n) = {}
    <3>1. Failed(replies, n) # {} => Min(Failed(replies, n)) \in DOMAIN calls
      <4>1. Failed(replies, n) \subseteq Nat
        BY <1>4
      <4>. QED BY <1>4, <4>1, MinOfNats
    <3>. QED BY <1>3, <3>1
  <2>5. OpAt(n + 1) = IF OpAt(n) = NoOp THEN calls[n + 1].op ELSE OpAt(n)
    <3>1. CASE ~Fresh(replies, n) /\ killSwitch.op # NoOp
      BY <2>1, <3>1
    <3>2. CASE (Fresh(replies, n) \/ killSwitch.op = NoOp) /\ Failed(replies, n) = {}
      BY <2>1, <2>3, <3>2
    <3>3. CASE (Fresh(replies, n) \/ killSwitch.op = NoOp) /\ Failed(replies, n) # {}
      BY <2>1, <2>2, <2>4, <3>3
    <3>. QED BY <3>1, <3>2, <3>3
  <2>. DEFINE A == {i \in Failed(replies, n) : calls[i].op = OpAt(n)}
              B == {i \in Failed(replies, n + 1) : calls[i].op = OpAt(n + 1)}
  <2>6. B = IF calls[n + 1].op = OpAt(n + 1) THEN A \cup {n + 1} ELSE A
    <3>. HIDE DEF OpAt
    <3>1. CASE OpAt(n) = NoOp
      BY <2>1, <2>4, <3>1
    <3>2. CASE OpAt(n) # NoOp
      BY <2>1, <2>5, <3>2
    <3>. QED BY <3>1, <3>2
  <2>7. A \in SUBSET (1 .. n)
    BY <1>4
  <2>8. CountAt(n + 1) = CountAt(n) + (IF calls[n + 1].op = OpAt(n + 1) THEN 1 ELSE 0)
    <3>1. /\ CountAt(n) = (IF Fresh(replies, n) THEN 0 ELSE killSwitch.count) + Cardinality(A)
          /\ CountAt(n + 1) = (IF Fresh(replies, n) THEN 0 ELSE killSwitch.count) + Cardinality(B)
      BY <2>1
    <3>. HIDE DEF OpAt, CountAt, A, B
    <3>2. Cardinality(A) \in Nat /\ Cardinality(A \cup {n + 1}) = Cardinality(A) + 1
      BY <2>7, OneMore
    <3>3. (IF Fresh(replies, n) THEN 0 ELSE killSwitch.count) \in Nat
      BY <1>2
    <3>4. Cardinality(B) = Cardinality(A) + (IF calls[n + 1].op = OpAt(n + 1) THEN 1 ELSE 0)
      BY <2>6, <3>2
    <3>. DEFINE base == IF Fresh(replies, n) THEN 0 ELSE killSwitch.count
                one == IF calls[n + 1].op = OpAt(n + 1) THEN 1 ELSE 0
    <3>5. one \in Nat
      OBVIOUS
    <3>. HIDE DEF base, one
    <3>. QED BY <3>1, <3>2, <3>3, <3>4, <3>5 DEF base, one
  <2>9. replies[n + 1].result # "ok"
    BY <1>7 DEF Counted, SessionErrors
  <2>. HIDE DEF OpAt, CountAt
  <2>. QED BY <1>1, <1>7, <2>5, <2>8, <2>9 DEF Recounts
<1>. HIDE DEF OpAt, CountAt
<1>. QED BY <1>5, <1>6, <1>7

LEMMA KillSwitchAtStart ==
  ASSUME TypeOK, NEW calls, NEW replies
  PROVE  /\ KillSwitchAt(calls, replies, 0).op = killSwitch.op
         /\ KillSwitchAt(calls, replies, 0).count = killSwitch.count
<1>1. \A S : S \subseteq 1 .. 0 => S = {}
  OBVIOUS
<1>2. Streak(replies, 0) = {} /\ 1 .. 0 = {}
  BY <1>1 DEF Streak
<1>3. killSwitch.count \in Nat
  BY DEF TypeOK, DataOK, KillSwitchState
<1>. DEFINE failed == {i \in Streak(replies, 0) : Counted(replies[i].result)}
            op == killSwitch.op
            again == {i \in failed : calls[i].op = op}
<1>4. failed = {} /\ again = {}
  BY <1>2
<1>. HIDE DEF again
<1>5. Cardinality(again) = 0
  BY <1>4, FS_EmptySet
<1>6. KillSwitchAt(calls, replies, 0) = [op |-> op, count |-> killSwitch.count + Cardinality(again)]
  BY <1>2, <1>4 DEF KillSwitchAt, again
<1>. QED BY <1>3, <1>5, <1>6

\* A run of failures goes on with the next event unless that is a success.
LEMMA FailsOn ==
  ASSUME NEW events, NEW op, NEW a \in Nat, NEW b \in Nat, 0 < a, a <= b + 1,
         NEW n \in Nat, FailsFor(events, op, a, b, n), events[b + 1].reply.result # "ok"
  PROVE  /\ FailsFor(events, op, a, b + 1, n)
         /\ events[b + 1].call.op = op /\ Counted(events[b + 1].reply.result) =>
              FailsFor(events, op, a, b + 1, n + 1)
<1>. DEFINE A(e) == {i \in a .. e : /\ events[i].call.op = op
                                    /\ Counted(events[i].reply.result)}
<1>1. \A i : i \in a .. b + 1 <=> i \in a .. b \/ i = b + 1
  OBVIOUS
<1>2. \A i \in a .. b + 1 : events[i].reply.result # "ok"
  BY <1>1 DEF FailsFor
<1>3. A(b) \in SUBSET (1 .. b) /\ Cardinality(A(b)) >= n
  BY DEF FailsFor
<1>4. A(b + 1) = IF events[b + 1].call.op = op /\ Counted(events[b + 1].reply.result)
                 THEN A(b) \cup {b + 1} ELSE A(b)
  BY <1>1
<1>. HIDE DEF A
<1>5. Cardinality(A(b)) \in Nat /\ Cardinality(A(b) \cup {b + 1}) = Cardinality(A(b)) + 1
  BY <1>3, OneMore
<1>6. /\ Cardinality(A(b + 1)) >= n
      /\ events[b + 1].call.op = op /\ Counted(events[b + 1].reply.result) =>
           Cardinality(A(b + 1)) >= n + 1
  BY <1>3, <1>4, <1>5
<1>. QED BY <1>2, <1>6 DEF FailsFor, A

\* A run may begin with the next event.
LEMMA FailsNever ==
  ASSUME NEW events, NEW op, NEW b \in Nat
  PROVE  FailsFor(events, op, b + 1, b, 0)
<1>. DEFINE A == {i \in b + 1 .. b : /\ events[i].call.op = op
                                     /\ Counted(events[i].reply.result)}
<1>1. b + 1 .. b = {}
  OBVIOUS
<1>2. A = {} /\ \A i \in b + 1 .. b : events[i].reply.result # "ok"
  BY <1>1
<1>. HIDE DEF A
<1>3. Cardinality(A) >= 0
  BY <1>2, FS_EmptySet
<1>. QED BY <1>2, <1>3 DEF FailsFor, A

\* The count fits after one more call, answered with this result.
LEMMA CountFitsStep ==
  ASSUME NEW events, NEW b \in Nat, NEW h \in Nat, NEW old, old.count \in Nat,
         CountFits(old.count, old.op, events, b, h),
         NEW call \in Call, NEW result,
         HasCallback(call) => /\ events[b + 1].call = call
                              /\ events[b + 1].reply.result = result,
         NEW new, Recounts(old, call, result, new)
  PROVE  /\ HasCallback(call)  => CountFits(new.count, new.op, events, b + 1, h)
         /\ ~HasCallback(call) => CountFits(new.count, new.op, events, b, h + 1)
<1>. DEFINE op == old.op
            count == old.count
            newOp == new.op
            newCount == new.count
<1>0. /\ result = "ok" => newOp = NoOp /\ newCount = 0
      /\ result # "ok" /\ ~Counted(result) => newOp = op /\ newCount = count
      /\ Counted(result) => newOp = IF op = NoOp THEN call.op ELSE op
      /\ Counted(result) => newCount = count + (IF call.op = newOp THEN 1 ELSE 0)
      /\ count \in Nat /\ CountFits(count, op, events, b, h)
  BY DEF Recounts
<1>. SUFFICES /\ HasCallback(call)  => CountFits(newCount, newOp, events, b + 1, h)
              /\ ~HasCallback(call) => CountFits(newCount, newOp, events, b, h + 1)
  OBVIOUS
<1>. HIDE DEF op, count, newOp, newCount
<1>1. CASE result = "ok"
  BY <1>0, <1>1 DEF CountFits
<1>2. CASE op = "heartbeat" /\ result # "ok"
  <2>1. count <= h /\ newOp = "heartbeat"
    BY <1>0, <1>2 DEF CountFits, NoOp
  <2>2. HasCallback(call) => newCount = count
    BY <1>0, <1>2, <2>1 DEF HasCallback
  <2>3. newCount <= count + 1
    BY <1>0, <1>2
  <2>. QED BY <1>0, <1>2, <2>1, <2>2, <2>3 DEF CountFits, NoOp
<1>3. CASE op = NoOp /\ result # "ok"
  <2>1. count = 0
    BY <1>0, <1>3 DEF CountFits
  <2>2. CASE ~Counted(result)
    BY <1>0, <1>3, <2>1, <2>2 DEF CountFits
  <2>3. CASE Counted(result)
    <3>1. newOp = call.op /\ newCount = 1
      BY <1>0, <1>3, <2>1, <2>3
    <3>2. call.op # NoOp
      BY CommsAssumption DEF Call, Op, NoOp, Authenticating, EndingSession
    <3>3. CASE HasCallback(call)
      <4>0. /\ FailsFor(events, call.op, b + 1, b, 0) /\ 0 \in Nat
            /\ b + 1 \in Nat /\ 0 < b + 1 /\ b + 1 <= b + 1
        BY FailsNever
      <4>1. FailsFor(events, call.op, b + 1, b + 1, 0 + 1)
        BY <1>0, <1>3, <2>3, <3>3, <4>0, FailsOn
      <4>2. b + 1 \in 1 .. (b + 1) + 1
        OBVIOUS
      <4>. QED BY <3>1, <3>2, <3>3, <4>1, <4>2 DEF CountFits, HasCallback
    <3>4. CASE ~HasCallback(call)
      BY <3>1, <3>2, <3>4 DEF CountFits, HasCallback
    <3>. QED BY <3>3, <3>4
  <2>. QED BY <2>2, <2>3
<1>4. CASE op \notin {NoOp, "heartbeat"} /\ result # "ok"
  <2>1. PICK a \in 1 .. b + 1 : FailsFor(events, op, a, b, count)
    BY <1>0, <1>4 DEF CountFits
  <2>2. newOp = op
    BY <1>0, <1>4
  <2>3. CASE ~HasCallback(call)
    <3>1. newCount = count
      BY <1>0, <1>4, <2>2, <2>3 DEF HasCallback
    <3>. QED BY <1>0, <1>4, <2>1, <2>2, <2>3, <3>1 DEF CountFits
  <2>4. CASE HasCallback(call)
    <3>1. a \in Nat /\ 0 < a /\ a <= b + 1
      OBVIOUS
    <3>2. /\ FailsFor(events, op, a, b + 1, count)
          /\ call.op = op /\ Counted(result) => FailsFor(events, op, a, b + 1, count + 1)
      BY <1>0, <1>4, <2>1, <2>4, <3>1, FailsOn
    <3>3. newCount = IF call.op = op /\ Counted(result) THEN count + 1 ELSE count
      BY <1>0, <1>4, <2>2
    <3>4. FailsFor(events, op, a, b + 1, newCount)
      BY <3>2, <3>3
    <3>5. a \in 1 .. (b + 1) + 1
      OBVIOUS
    <3>. QED BY <1>0, <1>4, <2>2, <2>4, <3>4, <3>5 DEF CountFits
  <2>. QED BY <2>3, <2>4
<1>. QED BY <1>1, <1>2, <1>3, <1>4

\* The count fits after each call of a bundle.
LEMMA CountFitsThroughout ==
  ASSUME TypeOK,
         NEW calls \in Seq(Call), NEW replies \in [1 .. Len(calls) -> Reply],
         NEW events, NEW b \in Nat, NEW h \in Nat,
         CountFits(killSwitch.count, killSwitch.op, events, b, h),
         \A n \in DOMAIN calls : HasCallback(calls[n]) =>
           /\ events[b + Rank(calls, n)].call = calls[n]
           /\ events[b + Rank(calls, n)].reply = replies[n]
  PROVE  \A n \in 0 .. Len(calls) :
           CountFits(KillSwitchAt(calls, replies, n).count, KillSwitchAt(calls, replies, n).op,
                     events, b + Rank(calls, n), h + Beats(calls, n))
<1>. DEFINE Fits(n) == CountFits(KillSwitchAt(calls, replies, n).count,
                                 KillSwitchAt(calls, replies, n).op,
                                 events, b + Rank(calls, n), h + Beats(calls, n))
            Bad == {n \in 0 .. Len(calls) : ~Fits(n)}
<1>1. Fits(0)
  <2>1. b + 0 = b /\ h + 0 = h
    OBVIOUS
  <2>. QED BY <2>1, KillSwitchAtStart, RankOfNone
<1>2. ASSUME NEW n \in Nat, n + 1 \in DOMAIN calls, Fits(n)
      PROVE  Fits(n + 1)
  <2>. DEFINE old == KillSwitchAt(calls, replies, n)
              new == KillSwitchAt(calls, replies, n + 1)
              call == calls[n + 1]
              result == replies[n + 1].result
              rank == Rank(calls, n)
              beats == Beats(calls, n)
              e == b + rank
              g == h + beats
  <2>1. n \in 0 .. Len(calls) /\ call \in Call
    BY <1>2
  <2>2. old.count \in Nat
    BY <2>1, KillSwitchAtType
  <2>3. Recounts(old, call, result, new)
    BY <1>2, KillSwitchStep
  <2>4. /\ rank \in Nat /\ beats \in Nat
        /\ HasCallback(calls[n + 1]) => /\ Rank(calls, n + 1) = rank + 1
                                        /\ Beats(calls, n + 1) = beats
        /\ ~HasCallback(calls[n + 1]) => /\ Rank(calls, n + 1) = rank
                                         /\ Beats(calls, n + 1) = beats + 1
    BY RankStep
  <2>5. CountFits(old.count, old.op, events, e, g)
    BY <1>2
  <2>6. HasCallback(call) => events[b + (rank + 1)].call = call /\ events[b + (rank + 1)].reply = replies[n + 1]
    BY <1>2, <2>4
  <2>. HIDE DEF old, new, call, result, rank, beats
  <2>7. /\ e \in Nat /\ g \in Nat
        /\ e + 1 = b + (rank + 1) /\ g + 1 = h + (beats + 1)
    BY <2>4
  <2>. HIDE DEF e, g
  <2>8. HasCallback(call) => events[e + 1].call = call /\ events[e + 1].reply.result = result
    BY <2>6, <2>7 DEF result
  <2>9. /\ HasCallback(call)  => CountFits(new.count, new.op, events, e + 1, g)
        /\ ~HasCallback(call) => CountFits(new.count, new.op, events, e, g + 1)
    BY <2>1, <2>2, <2>3, <2>5, <2>7, <2>8, CountFitsStep
  <2>10. CountFits(new.count, new.op, events, b + Rank(calls, n + 1), h + Beats(calls, n + 1))
    BY <2>4, <2>7, <2>9 DEF call, e, g
  <2>. QED BY <2>10 DEF new
<1>. HIDE DEF Fits
<1>3. Bad = {}
  <2>. SUFFICES ASSUME Bad # {} PROVE FALSE
    OBVIOUS
  <2>1. Bad \subseteq Nat
    OBVIOUS
  <2>2. PICK m \in Bad : \A n \in Bad : m <= n
    BY <2>1, LeastElement
  <2>3. m \in 0 .. Len(calls) /\ ~Fits(m) /\ m # 0
    BY <1>1, <2>2
  <2>4. m - 1 \in Nat /\ m - 1 \in 0 .. Len(calls) /\ ~ (m <= m - 1) /\ (m - 1) + 1 = m
    BY <2>3
  <2>5. m \in DOMAIN calls
    BY <2>3
  <2>6. Fits(m - 1)
    BY <2>2, <2>4
  <2>. QED BY <1>2, <2>3, <2>4, <2>5, <2>6
<1>. QED BY <1>3 DEF Fits

\* Events that are the same in both sequences fail in both.
LEMMA FailsForSame ==
  ASSUME NEW events, NEW more, NEW op, NEW a, NEW b, NEW n,
         \A i \in a .. b : more[i] = events[i], FailsFor(events, op, a, b, n)
  PROVE  FailsFor(more, op, a, b, n)
<1>1. {i \in a .. b : /\ events[i].call.op = op
                      /\ Counted(events[i].reply.result)}
       = {i \in a .. b : /\ more[i].call.op = op
                         /\ Counted(more[i].reply.result)}
  OBVIOUS
<1>2. \A i \in a .. b : more[i].reply.result # "ok"
  BY DEF FailsFor
<1>. QED BY <1>1, <1>2 DEF FailsFor

LEMMA CountFitsSame ==
  ASSUME NEW events, NEW more, NEW b \in Nat, \A i \in 1 .. b : more[i] = events[i],
         NEW h \in Nat, NEW k \in Nat, h <= k,
         NEW op, NEW count \in Nat, CountFits(count, op, events, b, h)
  PROVE  CountFits(count, op, more, b, k)
<1>1. CASE op = NoOp
  BY <1>1 DEF CountFits
<1>2. CASE op = "heartbeat"
  BY <1>2 DEF CountFits, NoOp
<1>3. CASE op \notin {NoOp, "heartbeat"}
  <2>1. PICK a \in 1 .. b + 1 : FailsFor(events, op, a, b, count)
    BY <1>3 DEF CountFits
  <2>2. \A i \in a .. b : more[i] = events[i]
    OBVIOUS
  <2>3. FailsFor(more, op, a, b, count)
    BY <2>1, <2>2, FailsForSame
  <2>. QED BY <1>3, <2>3 DEF CountFits
<1>. QED BY <1>1, <1>2, <1>3

\* Events that are no successes do not end the run.
LEMMA CountFitsOn ==
  ASSUME NEW events \in Seq(Event), NEW x \in Seq(Event),
         \A i \in DOMAIN x : x[i].reply.result # "ok",
         NEW h \in Nat, NEW k \in Nat, h <= k,
         NEW op, NEW count \in Nat, CountFits(count, op, events, Len(events), h)
  PROVE  CountFits(count, op, events \o x, Len(events \o x), k)
<1>. DEFINE more == events \o x
            b == Len(events)
            c == Len(more)
<1>1. /\ b \in Nat /\ c \in Nat /\ b <= c
      /\ \A i \in 1 .. b : more[i] = events[i]
      /\ \A i \in b + 1 .. c : i - b \in DOMAIN x /\ more[i] = x[i - b]
  OBVIOUS
<1>. SUFFICES CountFits(count, op, more, c, k)
  OBVIOUS
<1>. HIDE DEF more, b, c
<1>2. CASE op = NoOp
  BY <1>2 DEF CountFits
<1>3. CASE op = "heartbeat"
  BY <1>3 DEF CountFits, NoOp
<1>4. CASE op \notin {NoOp, "heartbeat"}
  <2>1. PICK a \in 1 .. b + 1 : FailsFor(events, op, a, b, count)
    BY <1>4 DEF CountFits, b
  <2>2. ASSUME NEW i \in a .. c PROVE more[i].reply.result # "ok"
    <3>1. CASE i <= b
      <4>1. i \in a .. b /\ i \in 1 .. b
        BY <1>1, <3>1
      <4>. QED BY <1>1, <2>1, <4>1 DEF FailsFor
    <3>2. CASE b < i
      <4>1. i \in b + 1 .. c
        BY <1>1, <3>2
      <4>. QED BY <1>1, <4>1
    <3>. QED BY <1>1, <3>1, <3>2
  <2>. DEFINE A == {i \in a .. b : /\ events[i].call.op = op
                                   /\ Counted(events[i].reply.result)}
              B == {i \in a .. c : /\ more[i].call.op = op
                                   /\ Counted(more[i].reply.result)}
  <2>3. A \subseteq B
    <3>1. \A i \in a .. b : i \in a .. c /\ more[i] = events[i]
      BY <1>1
    <3>. QED BY <3>1
  <2>4. Cardinality(A) >= count
    BY <2>1 DEF FailsFor
  <2>5. B \in SUBSET (1 .. c)
    BY <1>1
  <2>. HIDE DEF A, B
  <2>6. IsFiniteSet(B) /\ Cardinality(B) \in Nat
    BY <1>1, <2>5, PositionsFinite
  <2>7. Cardinality(A) \in Nat /\ Cardinality(A) <= Cardinality(B)
    BY <2>3, <2>6, FS_Subset, FS_CardinalityType
  <2>8. FailsFor(more, op, a, c, count)
    BY <2>2, <2>4, <2>6, <2>7 DEF FailsFor, B
  <2>9. a \in 1 .. c + 1
    BY <1>1
  <2>. QED BY <1>4, <2>8, <2>9 DEF CountFits
<1>. QED BY <1>2, <1>3, <1>4

\* What deserves the kill switch.
Deserves(events, heartbeats) ==
  \/ heartbeats >= KillSwitchThreshold
  \/ \E op \in Op, a, b \in DOMAIN events : FailsFor(events, op, a, b, KillSwitchThreshold)

LEMMA DeservesStill ==
  ASSUME NEW events \in Seq(Event), NEW x \in Seq(Event),
         NEW h \in Nat, NEW k \in Nat, h <= k, Deserves(events, h)
  PROVE  Deserves(events \o x, k)
<1>0. KillSwitchThreshold \in Nat
  BY CommsAssumption
<1>1. CASE h >= KillSwitchThreshold
  BY <1>0, <1>1 DEF Deserves
<1>2. CASE \E op \in Op, a, b \in DOMAIN events : FailsFor(events, op, a, b, KillSwitchThreshold)
  <2>1. PICK op \in Op, a \in DOMAIN events, b \in DOMAIN events :
               FailsFor(events, op, a, b, KillSwitchThreshold)
    BY <1>2
  <2>2. /\ a \in DOMAIN (events \o x) /\ b \in DOMAIN (events \o x)
        /\ \A i \in a .. b : (events \o x)[i] = events[i]
    OBVIOUS
  <2>3. FailsFor(events \o x, op, a, b, KillSwitchThreshold)
    BY <2>1, <2>2, FailsForSame
  <2>. QED BY <2>2, <2>3 DEF Deserves
<1>. QED BY <1>1, <1>2 DEF Deserves

LEMMA CountDeserves ==
  ASSUME NEW events \in Seq(Event), NEW b \in 0 .. Len(events), NEW h \in Nat,
         NEW op \in Op \cup {NoOp}, NEW count \in Nat, CountFits(count, op, events, b, h),
         count >= KillSwitchThreshold
  PROVE  Deserves(events, h)
<1>0. KillSwitchThreshold \in Nat /\ KillSwitchThreshold > 0
  BY CommsAssumption
<1>1. op # NoOp
  BY <1>0 DEF CountFits
<1>2. CASE op = "heartbeat"
  BY <1>0, <1>1, <1>2 DEF CountFits, Deserves
<1>3. CASE op # "heartbeat"
  <2>1. PICK a \in 1 .. b + 1 : FailsFor(events, op, a, b, count)
    BY <1>1, <1>3 DEF CountFits
  <2>. DEFINE A == {i \in a .. b : /\ events[i].call.op = op
                                   /\ Counted(events[i].reply.result)}
  <2>2. Cardinality(A) >= count /\ A \in SUBSET (1 .. b) /\ A \subseteq a .. b
    BY <2>1 DEF FailsFor
  <2>. HIDE DEF A
  <2>3. Cardinality(A) \in Nat /\ IsFiniteSet(A)
    BY <2>2, PositionsFinite
  <2>4. Cardinality(A) >= KillSwitchThreshold /\ Cardinality(A) # 0
    BY <1>0, <2>2, <2>3
  <2>5. A # {}
    BY <2>4, FS_EmptySet
  <2>6. a <= b
    <3>1. PICK x \in a .. b : TRUE
      BY <2>2, <2>5
    <3>. QED BY <3>1
  <2>7. a \in DOMAIN events /\ b \in DOMAIN events
    BY <2>6
  <2>8. FailsFor(events, op, a, b, KillSwitchThreshold)
    BY <2>1, <2>4 DEF FailsFor, A
  <2>. QED BY <1>1, <2>7, <2>8 DEF Deserves
<1>. QED BY <1>2, <1>3

\* The heartbeats answered are those no longer on the queue or in progress.
BeatsCounted ==
  /\ HeartbeatsAnswered = Heartbeats \ (Queued \cup Sent)
  /\ IsFiniteSet(Heartbeats) /\ Cardinality(Heartbeats) \in Nat
  /\ IsFiniteSet(HeartbeatsAnswered) /\ Cardinality(HeartbeatsAnswered) \in Nat
  /\ Cardinality(HeartbeatsAnswered) <= Cardinality(Heartbeats)

LEMMA HeartbeatSets == TypeOK => BeatsCounted
<1>. SUFFICES ASSUME TypeOK PROVE BeatsCounted
  OBVIOUS
<1>1. Len(issued) \in Nat /\ DOMAIN issued = 1 .. Len(issued)
  BY DEF TypeOK, DataOK
<1>2. IsFiniteSet(Heartbeats) /\ Cardinality(Heartbeats) \in Nat
  <2>1. Heartbeats \in SUBSET (1 .. Len(issued))
    BY <1>1 DEF Heartbeats
  <2>. QED BY <1>1, <2>1, PositionsFinite
<1>3. HeartbeatsAnswered = Heartbeats \ (Queued \cup Sent)
  BY DEF HeartbeatsAnswered, Queued, Sent, IdsOf
<1>4. HeartbeatsAnswered \in SUBSET Heartbeats
  BY <1>3
<1>5. /\ IsFiniteSet(HeartbeatsAnswered) /\ Cardinality(HeartbeatsAnswered) \in Nat
      /\ Cardinality(HeartbeatsAnswered) <= Cardinality(Heartbeats)
  BY <1>2, <1>4, FS_Subset, FS_CardinalityType
<1>. QED BY <1>2, <1>3, <1>5 DEF BeatsCounted

LEMMA HeartbeatSetsNext == TypeOK' => BeatsCounted'
BY HeartbeatSets, PTL

\* The heartbeats of a sequence of calls, each a call of its own.
BeatIds(calls) == {calls[i].id : i \in {j \in 1 .. Len(calls) : ~HasCallback(calls[j])}}

LEMMA BeatIdsCount ==
  ASSUME NEW calls \in Seq(Call), Ordered(calls)
  PROVE  /\ IsFiniteSet(BeatIds(calls))
         /\ Cardinality(BeatIds(calls)) = Beats(calls, Len(calls))
<1>. DEFINE S == {j \in 1 .. Len(calls) : ~HasCallback(calls[j])}
            f == [i \in S |-> calls[i].id]
<1>1. Len(calls) \in Nat /\ S \in SUBSET (1 .. Len(calls)) /\ S \subseteq DOMAIN calls
  OBVIOUS
<1>2. \A i, j \in S : i # j => calls[i].id # calls[j].id
  <2>1. \A i, j \in DOMAIN calls : i < j => calls[i].id # calls[j].id
    BY DEF Ordered, MayPrecede
  <2>2. \A i, j \in S : i = j \/ i < j \/ j < i
    BY <1>1
  <2>. HIDE DEF S
  <2>. QED BY <1>1, <2>1, <2>2
<1>3. BeatIds(calls) = {calls[i].id : i \in S} /\ Beats(calls, Len(calls)) = Cardinality(S)
  BY DEF BeatIds, Beats
<1>. HIDE DEF S
<1>4. f \in Bijection(S, BeatIds(calls))
  BY <1>2, <1>3 DEF Bijection, Injection, Surjection, IsInjective
<1>. HIDE DEF f
<1>5. IsFiniteSet(S)
  BY <1>1, PositionsFinite
<1>. QED BY <1>3, <1>4, <1>5, FS_Bijection DEF ExistsBijection

\* The first calls hold no more heartbeats, and no more calls with callback, than all.
LEMMA CountsWithin ==
  ASSUME NEW calls \in Seq(Call), NEW n \in 0 .. Len(calls)
  PROVE  /\ Beats(calls, n) \in Nat /\ Beats(calls, n) <= Beats(calls, Len(calls))
         /\ Rank(calls, n) \in Nat /\ Rank(calls, n) <= Rank(calls, Len(calls))
         /\ Beats(calls, Len(calls)) \in Nat /\ Rank(calls, Len(calls)) \in Nat
<1>. DEFINE A(m) == {i \in 1 .. m : ~HasCallback(calls[i])}
            B(m) == {i \in 1 .. m : HasCallback(calls[i])}
<1>1. /\ Len(calls) \in Nat
      /\ A(Len(calls)) \in SUBSET (1 .. Len(calls)) /\ A(n) \subseteq A(Len(calls))
      /\ B(Len(calls)) \in SUBSET (1 .. Len(calls)) /\ B(n) \subseteq B(Len(calls))
  OBVIOUS
<1>2. /\ Beats(calls, n) = Cardinality(A(n)) /\ Beats(calls, Len(calls)) = Cardinality(A(Len(calls)))
      /\ Rank(calls, n) = Cardinality(B(n)) /\ Rank(calls, Len(calls)) = Cardinality(B(Len(calls)))
  BY DEF Beats, Rank
<1>. HIDE DEF A, B
<1>3. Cardinality(A(n)) \in Nat /\ Cardinality(A(n)) <= Cardinality(A(Len(calls)))
  BY <1>1, PositionsFinite, FS_Subset, FS_CardinalityType
<1>4. Cardinality(B(n)) \in Nat /\ Cardinality(B(n)) <= Cardinality(B(Len(calls)))
  BY <1>1, PositionsFinite, FS_Subset, FS_CardinalityType
<1>5. Cardinality(A(Len(calls))) \in Nat /\ Cardinality(B(Len(calls))) \in Nat
  BY <1>1, PositionsFinite
<1>. QED BY <1>2, <1>3, <1>4, <1>5

\* The heartbeats of the calls that are answered are added to those answered.
LEMMA BeatsAnswered ==
  ASSUME TypeOK, TypeOK', NEW calls \in Seq(Call), Ordered(calls), IssuedIn(calls, issued),
         IdsOf(calls) \subseteq Queued \cup Sent, inProgress' = <<>>,
         IdsOf(queue)' \subseteq Queued, IdsOf(calls) \cap IdsOf(queue)' = {},
         UNCHANGED issued
  PROVE  Cardinality(HeartbeatsAnswered) + Beats(calls, Len(calls))
           <= Cardinality(HeartbeatsAnswered)'
<1>1. BeatIds(calls) \subseteq Heartbeats
  BY DEF BeatIds, Heartbeats, HasCallback, IssuedIn
<1>2. BeatIds(calls) \subseteq IdsOf(calls)
  BY DEF BeatIds, IdsOf
<1>3. HeartbeatsAnswered \cap BeatIds(calls) = {}
  BY <1>2, HeartbeatSets DEF BeatsCounted
<1>4. Heartbeats' = Heartbeats
  BY DEF Heartbeats
<1>5. Sent' = {} /\ Queued' = IdsOf(queue)'
  BY DEF Sent, Queued, IdsOf
<1>6. HeartbeatsAnswered \cup BeatIds(calls) \subseteq HeartbeatsAnswered'
  BY <1>1, <1>2, <1>4, <1>5, HeartbeatSets, HeartbeatSetsNext DEF BeatsCounted
<1>. DEFINE A == HeartbeatsAnswered
            B == BeatIds(calls)
<1>7. /\ IsFiniteSet(A) /\ IsFiniteSet(B) /\ IsFiniteSet(HeartbeatsAnswered')
      /\ Cardinality(A) \in Nat /\ Cardinality(B) \in Nat
  BY HeartbeatSets, HeartbeatSetsNext, BeatIdsCount, FS_CardinalityType DEF BeatsCounted
<1>8. A \cap B = {} /\ A \cup B \in SUBSET (HeartbeatsAnswered')
  BY <1>3, <1>6
<1>. HIDE DEF A, B
<1>9. Cardinality(A \cup B) = Cardinality(A) + Cardinality(B)
  <2>1. Cardinality(A \cup B) = Cardinality(A) + Cardinality(B) - Cardinality(A \cap B)
    BY <1>7, FS_Union
  <2>2. Cardinality(A \cap B) = 0
    BY <1>8, FS_EmptySet
  <2>. QED BY <1>7, <2>1, <2>2
<1>10. Cardinality(A \cup B) <= Cardinality(HeartbeatsAnswered')
  BY <1>7, <1>8, FS_Subset
<1>. QED BY <1>9, <1>10, BeatIdsCount DEF A, B

\* The count goes on through a bundle of replies, and what engages the switch deserves it.
LEMMA KillSwitchAnswer ==
  ASSUME TypeOK, TypeOK', KillSwitchInStep,
         NEW calls \in Seq(Call), NEW replies \in Seq(Reply), AnswerCalls(calls, replies),
         UNCHANGED <<finished, issued>>,
         Cardinality(HeartbeatsAnswered) + Beats(calls, Len(calls))
           <= Cardinality(HeartbeatsAnswered)'
  PROVE  KillSwitchInStep'
<1>. DEFINE matched == Matched(calls, replies)
            x == EventsFor(calls, matched)
            e == AllEvents
            b == Len(e)
            more == e \o x
            h == Cardinality(HeartbeatsAnswered)
            k == Cardinality(HeartbeatsAnswered')
            all == Cardinality(Heartbeats)
            at(n) == KillSwitchAt(calls, matched, n)
<1>1. matched \in [1 .. Len(calls) -> Reply]
  BY MatchedType
<1>2. x \in Seq(Event) /\ finished \in Seq(Event) /\ apiCallbackQueue \in Seq(Event)
  BY <1>1, EventsForType, PipelinePartsType
<1>3. apiCallbackQueue' = apiCallbackQueue \o x /\ killSwitch' = KillSwitchAfter(calls, matched)
  BY DEF AnswerCalls
<1>. HIDE DEF matched
<1>4. e \in Seq(Event) /\ b \in Nat /\ more \in Seq(Event) /\ Len(more) = b + Len(x)
  <2>. HIDE DEF x
  <2>. QED BY <1>2 DEF AllEvents
<1>5. AllEvents' = more
  <2>. HIDE DEF x
  <2>. QED BY <1>2, <1>3 DEF AllEvents
<1>6. /\ h \in Nat /\ k \in Nat /\ all \in Nat /\ h + Beats(calls, Len(calls)) <= k /\ k <= all
      /\ Cardinality(Heartbeats)' = all
  <2>1. Heartbeats' = Heartbeats
    BY DEF Heartbeats
  <2>. QED BY <2>1, HeartbeatSets, HeartbeatSetsNext DEF BeatsCounted
<1>7. Len(calls) \in Nat /\ DOMAIN calls = 1 .. Len(calls) /\ Len(x) = Rank(calls, Len(calls))
  BY <1>1, RankLast
<1>8. ASSUME NEW n \in DOMAIN calls, HasCallback(calls[n])
      PROVE  more[b + Rank(calls, n)].call = calls[n] /\ more[b + Rank(calls, n)].reply = matched[n]
  <2>1. /\ Rank(calls, n) \in DOMAIN x /\ x[Rank(calls, n)].call = calls[n]
        /\ x[Rank(calls, n)].reply = matched[n]
    BY <1>1, <1>8, EventAt
  <2>. DEFINE r == Rank(calls, n)
  <2>. HIDE DEF x, e, r
  <2>2. r \in DOMAIN x => (e \o x)[Len(e) + r] = x[r]
    BY <1>2, <1>4
  <2>. QED BY <2>1, <2>2 DEF r
<1>9. CountFits(killSwitch.count, killSwitch.op, more, b, h)
  <2>1. CountFits(killSwitch.count, killSwitch.op, e, b, h)
    BY DEF KillSwitchInStep
  <2>2. killSwitch.count \in Nat
    BY DEF TypeOK, DataOK, KillSwitchState
  <2>3. \A i \in 1 .. b : more[i] = e[i]
    <3>. HIDE DEF x, e
    <3>. QED BY <1>2, <1>4
  <2>4. h \in Nat /\ h <= h /\ b \in Nat
    BY <1>4, <1>6
  <2>. HIDE DEF x, e, b, more, h
  <2>. QED BY <2>1, <2>2, <2>3, <2>4, CountFitsSame
<1>. HIDE DEF x, e, b, more, h, k, all
<1>10. \A n \in 0 .. Len(calls) :
         CountFits(at(n).count, at(n).op, more, b + Rank(calls, n), h + Beats(calls, n))
  BY <1>1, <1>4, <1>6, <1>8, <1>9, CountFitsThroughout
<1>11. ASSUME NEW n \in 0 .. Len(calls)
       PROVE  at(n).op \in Op \cup {NoOp} /\ at(n).count \in Nat
  BY <1>1, KillSwitchAtType
<1>12. /\ killSwitch'.op = at(Len(calls)).op /\ killSwitch'.count = at(Len(calls)).count
       /\ killSwitch'.engaged => \/ killSwitch.engaged
                                 \/ \E n \in DOMAIN calls : at(n).count >= KillSwitchThreshold
  BY <1>3 DEF KillSwitchAfter
<1>. HIDE DEF at
<1>13. CountFits(at(Len(calls)).count, at(Len(calls)).op, more, Len(more), k)
  <2>. DEFINE g == h + Beats(calls, Len(calls))
              count == at(Len(calls)).count
              op == at(Len(calls)).op
              c == Len(more)
  <2>1. Len(calls) \in 0 .. Len(calls)
    BY <1>7
  <2>2. c = b + Rank(calls, Len(calls)) /\ c \in Nat
    BY <1>4, <1>7, <2>1, CountsWithin
  <2>3. g \in Nat /\ g <= k /\ k \in Nat
    BY <1>6, <1>7, CountsWithin
  <2>4. count \in Nat
    BY <1>11, <2>1
  <2>. HIDE DEF c
  <2>5. CountFits(count, op, more, c, g)
    BY <1>10, <2>1, <2>2
  <2>. HIDE DEF g, count, op
  <2>6. CountFits(count, op, more, c, k)
    BY <2>2, <2>3, <2>4, <2>5, CountFitsSame
  <2>. QED BY <2>6 DEF count, op, c
<1>14. ASSUME killSwitch.engaged PROVE Deserves(more, all)
  <2>1. Deserves(e, all)
    BY <1>14 DEF KillSwitchInStep, KillSwitchDeserved, Deserves, e, all
  <2>2. all \in Nat /\ all <= all
    BY <1>6
  <2>. QED BY <1>2, <1>4, <2>1, <2>2, DeservesStill DEF more
<1>15. ASSUME NEW n \in DOMAIN calls, at(n).count >= KillSwitchThreshold
       PROVE  Deserves(more, all)
  <2>. DEFINE c == b + Rank(calls, n)
              g == h + Beats(calls, n)
  <2>1. n \in 0 .. Len(calls)
    BY <1>7
  <2>2. c \in 0 .. Len(more) /\ c \in Nat
    BY <1>4, <1>7, <2>1, CountsWithin
  <2>3. g \in Nat /\ g <= all /\ all \in Nat
    BY <1>6, <2>1, CountsWithin
  <2>4. CountFits(at(n).count, at(n).op, more, c, g)
    BY <1>10, <2>1
  <2>. HIDE DEF c, g
  <2>5. CountFits(at(n).count, at(n).op, more, c, all)
    BY <1>11, <2>1, <2>2, <2>3, <2>4, CountFitsSame
  <2>. QED BY <1>4, <1>11, <1>15, <2>1, <2>2, <2>3, <2>5, CountDeserves
<1>16. killSwitch'.engaged => Deserves(more, all)
  BY <1>12, <1>14, <1>15
<1>17. KillSwitchDeserved'
  BY <1>5, <1>6, <1>16 DEF KillSwitchDeserved, Deserves
<1>. QED BY <1>5, <1>12, <1>13, <1>17 DEF KillSwitchInStep, k


\* The events may grow, and heartbeats be answered, as long as there is no success.
LEMMA KillSwitchOn ==
  ASSUME TypeOK, TypeOK', KillSwitchInStep, UNCHANGED killSwitch,
         NEW x \in Seq(Event), \A i \in DOMAIN x : x[i].reply.result # "ok",
         AllEvents' = AllEvents \o x,
         Heartbeats \subseteq Heartbeats', HeartbeatsAnswered \subseteq HeartbeatsAnswered'
  PROVE  KillSwitchInStep'
<1>. DEFINE e == AllEvents
            h == Cardinality(HeartbeatsAnswered)
            k == Cardinality(HeartbeatsAnswered')
            some == Cardinality(Heartbeats)
            all == Cardinality(Heartbeats')
<1>1. e \in Seq(Event)
  BY PipelinePartsType DEF AllEvents
<1>2. /\ h \in Nat /\ k \in Nat /\ some \in Nat /\ all \in Nat
      /\ IsFiniteSet(HeartbeatsAnswered') /\ IsFiniteSet(Heartbeats')
  BY HeartbeatSets, HeartbeatSetsNext DEF BeatsCounted
<1>3. h <= k /\ some <= all
  BY <1>2, FS_Subset
<1>4. CountFits(killSwitch.count, killSwitch.op, e, Len(e), h) /\ killSwitch.count \in Nat
  BY DEF KillSwitchInStep, TypeOK, DataOK, KillSwitchState
<1>5. killSwitch.engaged => Deserves(e, some)
  BY DEF KillSwitchInStep, KillSwitchDeserved, Deserves
<1>. HIDE DEF e, h, k, some, all
<1>6. CountFits(killSwitch.count, killSwitch.op, e \o x, Len(e \o x), k)
  BY <1>1, <1>2, <1>3, <1>4, CountFitsOn
<1>7. killSwitch.engaged => Deserves(e \o x, all)
  BY <1>1, <1>2, <1>3, <1>5, DeservesStill
<1>8. AllEvents' = e \o x
  BY DEF e
<1>9. KillSwitchDeserved'
  BY <1>7, <1>8 DEF KillSwitchDeserved, Deserves, all
<1>. QED BY <1>6, <1>8, <1>9 DEF KillSwitchInStep, k

\* Steps that move no event: nothing is put back on the queue.
LEMMA KillSwitchFrame ==
  ASSUME TypeOK, TypeOK', KillSwitchInStep, UNCHANGED <<killSwitch, issued>>,
         AllEvents' = AllEvents, Queued' \cup Sent' \subseteq Queued \cup Sent
  PROVE  KillSwitchInStep'
<1>1. <<>> \in Seq(Event) /\ DOMAIN <<>> = {}
  OBVIOUS
<1>2. AllEvents \in Seq(Event)
  BY PipelinePartsType DEF AllEvents
<1>3. AllEvents' = AllEvents \o <<>>
  BY <1>2
<1>4. Heartbeats' = Heartbeats
  BY DEF Heartbeats
<1>5. HeartbeatsAnswered \subseteq HeartbeatsAnswered'
  BY <1>4, HeartbeatSets, HeartbeatSetsNext DEF BeatsCounted
<1>. QED BY <1>1, <1>3, <1>4, <1>5, KillSwitchOn

\* A new heartbeat is on the queue first.
LEMMA KillSwitchPush ==
  ASSUME TypeOK, TypeOK', KillSwitchInStep, NEW op \in Op, Push(op),
         UNCHANGED <<killSwitch, inProgress, finished, apiCallbackQueue>>
  PROVE  KillSwitchInStep'
<1>1. <<>> \in Seq(Event) /\ DOMAIN <<>> = {}
  OBVIOUS
<1>2. AllEvents \in Seq(Event)
  BY PipelinePartsType DEF AllEvents
<1>3. AllEvents' = AllEvents \o <<>>
  BY <1>2 DEF AllEvents
<1>. DEFINE n == Len(issued) + 1
<1>4. /\ queue \in Seq(Call) /\ issued \in Seq(Op) /\ Len(issued) \in Nat
      /\ queue' = Append(queue, [id |-> n, op |-> op]) /\ issued' = Append(issued, op)
  BY PipelinePartsType DEF Push
<1>5. /\ DOMAIN issued \subseteq DOMAIN issued' /\ n \notin DOMAIN issued
      /\ \A c \in DOMAIN issued : issued'[c] = issued[c]
  BY <1>4
<1>6. Heartbeats \subseteq Heartbeats' /\ \A c \in Heartbeats : c # n
  BY <1>5 DEF Heartbeats
<1>7. Queued' = Queued \cup {n} /\ Sent' = Sent
  <2>1. /\ DOMAIN queue' = DOMAIN queue \cup {Len(queue) + 1}
        /\ \A i \in DOMAIN queue : queue'[i] = queue[i]
        /\ queue'[Len(queue) + 1].id = n
    BY <1>4
  <2>2. Queued' = {queue'[i].id : i \in DOMAIN queue'} /\ Sent' = Sent
    BY DEF Queued, Sent, IdsOf
  <2>. HIDE DEF n
  <2>. QED BY <2>1, <2>2 DEF Queued, IdsOf
<1>. HIDE DEF n
<1>8. HeartbeatsAnswered \subseteq HeartbeatsAnswered'
  BY <1>6, <1>7, HeartbeatSets, HeartbeatSetsNext DEF BeatsCounted
<1>. QED BY <1>1, <1>3, <1>6, <1>8, KillSwitchOn

\* The calls in progress are answered.
LEMMA KillSwitchAnsweredNow ==
  ASSUME TypeOK, TypeOK', PipelineLegal, KillSwitchInStep,
         NEW replies \in Seq(Reply), AnswerCalls(inProgress, replies),
         inProgress' = <<>>, UNCHANGED <<queue, issued, finished>>
  PROVE  KillSwitchInStep'
<1>1. /\ inProgress \in Seq(Call) /\ Ordered(inProgress) /\ IssuedIn(inProgress, issued)
      /\ queue \in Seq(Call) /\ Precedes(inProgress, queue)
  BY PipelinePartsType DEF PipelineLegal, PartsLegal, PartsInOrder
<1>2. IdsOf(inProgress) = Sent /\ IdsOf(queue)' = Queued
  BY DEF Queued, Sent, IdsOf
<1>3. IdsOf(inProgress) \cap IdsOf(queue)' = {}
  BY <1>1, <1>2, Apart DEF Queued
<1>4. Cardinality(HeartbeatsAnswered) + Beats(inProgress, Len(inProgress))
        <= Cardinality(HeartbeatsAnswered)'
  BY <1>1, <1>2, <1>3, BeatsAnswered
<1>. QED BY <1>1, <1>4, KillSwitchAnswer

\* Or they are dropped.
LEMMA KillSwitchAnswered ==
  ASSUME TypeOK, TypeOK', PipelineLegal, KillSwitchInStep,
         NEW resp \in Response, HandleResponseBundle(resp),
         inProgress' = <<>>, UNCHANGED <<queue, issued, finished>>
  PROVE  KillSwitchInStep'
<1>1. inProgress \in Seq(Call) /\ resp.replies \in Seq(Reply)
  BY PipelinePartsType DEF Response
<1>2. Queued' = Queued /\ Sent' = {}
  BY DEF Queued, Sent, IdsOf
<1>3. CASE AnswerCalls(inProgress, resp.replies)
  BY <1>1, <1>3, KillSwitchAnsweredNow
<1>4. CASE DropBundle
  <2>. DEFINE local == LocalReplies(inProgress, "dropped")
              x == EventsFor(inProgress, local)
  <2>1. /\ local \in [1 .. Len(inProgress) -> Reply]
        /\ \A i \in DOMAIN inProgress : local[i].result = "dropped"
    BY <1>1 DEF LocalReplies, ByClient, Reply, Result
  <2>2. apiCallbackQueue' = apiCallbackQueue \o x /\ UNCHANGED killSwitch
    BY <1>4 DEF DropBundle, sessionVars
  <2>. HIDE DEF local
  <2>3. x \in Seq(Event)
    BY <1>1, <2>1, EventsForType
  <2>4. \A i \in DOMAIN x : x[i].reply.result # "ok"
    BY <1>1, <2>1, EventsPair
  <2>. HIDE DEF x
  <2>5. AllEvents' = AllEvents \o x
    <3>1. finished \in Seq(Event) /\ apiCallbackQueue \in Seq(Event) /\ finished' = finished
      BY PipelinePartsType
    <3>. QED BY <2>2, <2>3, <3>1 DEF AllEvents
  <2>6. Heartbeats' = Heartbeats
    BY DEF Heartbeats
  <2>7. HeartbeatsAnswered \subseteq HeartbeatsAnswered'
    BY <1>2, <2>6, HeartbeatSets, HeartbeatSetsNext DEF BeatsCounted
  <2>. QED BY <2>2, <2>3, <2>4, <2>5, <2>6, <2>7, KillSwitchOn
<1>. QED BY <1>3, <1>4 DEF HandleResponseBundle

\* A bundle is answered at once.
LEMMA KillSwitchRefused ==
  ASSUME TypeOK, TypeOK', PipelineLegal, KillSwitchInStep, RefuseBundle
  PROVE  KillSwitchInStep'
<1>. DEFINE calls == inProgress \o Bundle
            result == IF killSwitch.engaged THEN "disabled" ELSE errorCache
            replies == LocalReplies(calls, result)
<1>1. /\ queue' = Rest /\ inProgress' = <<>> /\ AnswerCalls(calls, replies)
      /\ UNCHANGED <<issued, finished>>
  BY DEF RefuseBundle, history
<1>2. calls \in Seq(Call) /\ result \in Result /\ Bundle \in Seq(Call) /\ Rest \in Seq(Call)
  <2>1. Bundle \in Seq(Call) /\ Rest \in Seq(Call)
    BY BundleOrdered
  <2>. QED BY <2>1, PipelinePartsType DEF Result, TypeOK, DataOK
<1>. HIDE DEF result
<1>3. replies \in Seq(Reply)
  BY <1>2, LocalRepliesType
<1>4. Ordered(calls) /\ IssuedIn(calls, issued) /\ Precedes(calls, Rest)
  BY BundleInParts DEF PartsLegal, PartsInOrder
<1>5. IdsOf(calls) \subseteq Queued \cup Sent
  <2>1. IdsOf(calls) = IdsOf(inProgress) \cup IdsOf(Bundle)
    BY <1>2, IdsOfConcat, PipelinePartsType
  <2>. HIDE DEF calls
  <2>. QED BY <2>1, BundleIds DEF Sent
<1>6. IdsOf(queue)' = IdsOf(Rest)
  BY <1>1 DEF IdsOf
<1>. HIDE DEF calls, replies
<1>7. IdsOf(queue)' \subseteq Queued /\ IdsOf(calls) \cap IdsOf(queue)' = {}
  BY <1>2, <1>4, <1>6, Apart, BundleIds
<1>8. Cardinality(HeartbeatsAnswered) + Beats(calls, Len(calls))
        <= Cardinality(HeartbeatsAnswered)'
  BY <1>1, <1>2, <1>4, <1>5, <1>7, BeatsAnswered
<1>. QED BY <1>1, <1>2, <1>3, <1>8, KillSwitchAnswer

\* What is taken off the queue goes out, or is tossed.
LEMMA KillSwitchSent ==
  ASSUME TypeOK, TypeOK', PipelineLegal, KillSwitchInStep, SendBundle \/ TossQueue
  PROVE  KillSwitchInStep'
<1>1. /\ queue' = Rest /\ inProgress' \in {inProgress, inProgress \o Bundle}
      /\ UNCHANGED <<killSwitch, issued, finished, apiCallbackQueue>>
  BY DEF SendBundle, TossQueue, history, sessionVars
<1>2. Queued' = IdsOf(Rest)
  BY <1>1 DEF Queued, IdsOf
<1>3. Sent' \subseteq Sent \cup IdsOf(Bundle)
  <2>1. Sent' \in {Sent, IdsOf(inProgress \o Bundle)}
    BY <1>1 DEF Sent, IdsOf
  <2>2. Bundle \in Seq(Call)
    BY BundleOrdered
  <2>3. IdsOf(inProgress \o Bundle) = Sent \cup IdsOf(Bundle)
    BY <2>2, IdsOfConcat, PipelinePartsType DEF Sent
  <2>. QED BY <2>1, <2>3
<1>4. Queued' \cup Sent' \subseteq Queued \cup Sent
  BY <1>2, <1>3, BundleIds
<1>5. AllEvents' = AllEvents
  BY <1>1 DEF AllEvents
<1>. QED BY <1>1, <1>4, <1>5, KillSwitchFrame

\* A callback is run: its event is the next of those that are done.
LEMMA KillSwitchCallback ==
  ASSUME TypeOK, TypeOK', KillSwitchInStep, RunApiCallback
  PROVE  KillSwitchInStep'
<1>1. /\ UNCHANGED <<killSwitch, issued, queue, inProgress>>
      /\ finished' = Append(finished, Head(apiCallbackQueue))
      /\ apiCallbackQueue' = Tail(apiCallbackQueue) /\ apiCallbackQueue # <<>>
      /\ finished \in Seq(Event) /\ apiCallbackQueue \in Seq(Event)
  BY PipelinePartsType DEF RunApiCallback, sessionVars
<1>2. \A s, t \in Seq(Event) : t # <<>> => Append(s, Head(t)) \o Tail(t) = s \o t
  OBVIOUS
<1>3. AllEvents' = AllEvents
  BY <1>1, <1>2 DEF AllEvents
<1>4. Queued' = Queued /\ Sent' = Sent
  BY <1>1 DEF Queued, Sent, IdsOf
<1>. QED BY <1>1, <1>3, <1>4, KillSwitchFrame

\* The calls in progress are given up, and perhaps those queued.
LEMMA KillSwitchForgets ==
  ASSUME TypeOK, TypeOK', KillSwitchInStep,
         inProgress' \in {inProgress, <<>>}, queue' \in {queue, <<>>},
         UNCHANGED <<killSwitch, issued, finished, apiCallbackQueue>>
  PROVE  KillSwitchInStep'
<1>1. DOMAIN <<>> = {}
  OBVIOUS
<1>2. Queued' \cup Sent' \subseteq Queued \cup Sent
  BY <1>1 DEF Queued, Sent, IdsOf
<1>3. AllEvents' = AllEvents
  BY DEF AllEvents
<1>. QED BY <1>2, <1>3, KillSwitchFrame

LEMMA KillSwitchInit == Init => KillSwitchInStep
<1>. SUFFICES ASSUME Init PROVE KillSwitchInStep
  OBVIOUS
<1>1. killSwitch.op = NoOp /\ killSwitch.count = 0 /\ killSwitch.engaged = FALSE
  BY DEF Init
<1>. QED BY <1>1 DEF KillSwitchInStep, KillSwitchDeserved, CountFits

LEMMA KillSwitchNext ==
  ASSUME TypeOK, TypeOK', PipelineLegal, KillSwitchInStep, [Next]_vars
  PROVE  KillSwitchInStep'
<1>. USE DEF history, sessionVars
<1>1. CASE UNCHANGED vars
  BY <1>1, KillSwitchForgets DEF vars
<1>2. CASE App
  <2>1. CASE \E op \in AppOps : AddToQueue(op)
    BY <2>1, KillSwitchPush, CommsAssumption DEF AddToQueue
  <2>2. CASE \/ Initialize \/ RetryCachedMessages
             \/ \E enabled \in BOOLEAN : EnableNetworkErrorMessageCaching(enabled)
             \/ ResetCommunication \/ Shutdown
    BY <2>2, KillSwitchForgets DEF Initialize, RetryCachedMessages,
       EnableNetworkErrorMessageCaching, ResetCommunication, Shutdown, Clear, ClearCalls
  <2>3. ASSUME NEW notify \in BOOLEAN, FlushCachedMessages(notify) PROVE KillSwitchInStep'
    <3>1. CASE notify
      <4>. DEFINE replies == LocalReplies(inProgress, "timeout")
      <4>1. /\ AnswerCalls(inProgress, replies) /\ inProgress' = <<>>
            /\ UNCHANGED <<queue, issued, finished>>
        BY <2>3, <3>1 DEF FlushCachedMessages
      <4>2. replies \in Seq(Reply)
        BY LocalRepliesType, PipelinePartsType DEF Result
      <4>. HIDE DEF replies
      <4>. QED BY <4>1, <4>2, KillSwitchAnsweredNow
    <3>2. CASE ~notify
      BY <2>3, <3>2, KillSwitchForgets DEF FlushCachedMessages
    <3>. QED BY <3>1, <3>2
  <2>. QED BY <1>2, <2>1, <2>2, <2>3 DEF App
<1>3. CASE RunCallbacks
  <2>1. CASE \/ ScheduleRetry \/ BlockQueue \/ NetworkErrorReturns \/ Resend
             \/ NothingToDo \/ ReturnFromRunCallbacks
    BY <2>1, KillSwitchForgets DEF ScheduleRetry, BlockQueue, NetworkErrorReturns, Resend,
       NothingToDo, ReturnFromRunCallbacks
  <2>2. CASE GiveUp
    <3>. DEFINE resp == [packetId |-> expectedPacketId,
                         replies |-> LocalReplies(inProgress, "timeout")]
    <3>1. LocalReplies(inProgress, "timeout") \in Seq(Reply)
      BY LocalRepliesType, PipelinePartsType DEF Result
    <3>2. resp \in Response
      BY <3>1 DEF Response, TypeOK, DataOK, NoPacket
    <3>3. /\ HandleResponseBundle(resp) /\ inProgress' = <<>>
          /\ UNCHANGED <<queue, issued, finished>>
      BY <2>2 DEF GiveUp
    <3>. HIDE DEF resp
    <3>. QED BY <3>2, <3>3, KillSwitchAnswered
  <2>3. CASE TakeReply
    BY <2>3, KillSwitchAnswered DEF TakeReply, TypeOK, DataOK
  <2>4. CASE SendHeartbeat
    BY <2>4, KillSwitchPush DEF SendHeartbeat, Op
  <2>. QED BY <1>3, <2>1, <2>2, <2>3, <2>4, KillSwitchSent, KillSwitchRefused,
              KillSwitchCallback DEF RunCallbacks
<1>4. CASE Network
  BY <1>4, KillSwitchForgets
     DEF Network, ServerReplies, NetworkFails, ServerOutOfSync, LoaderReturns
<1>. QED BY <1>1, <1>2, <1>3, <1>4 DEF Next

\* The failures counted are those of the run that is not over yet, whatever bundles they
\* came in and whatever was dropped, refused, flushed or reset in between, and the kill
\* switch is engaged for nothing less than a whole run (updateKillSwitch,
\* resetKillSwitch, handleResponseBundle).
THEOREM KillSwitchStaysInStep == Spec => []KillSwitchInStep
<1>1. Init => TypeOK /\ PipelineLegal /\ KillSwitchInStep
  BY TypeInit, PipelineInit, KillSwitchInit
<1>2. TypeOK /\ PipelineLegal /\ KillSwitchInStep /\ [Next]_vars
        => TypeOK' /\ PipelineLegal' /\ KillSwitchInStep'
  BY TypeStep, PipelineStep, KillSwitchNext
<1>. QED BY <1>1, <1>2, PTL DEF Spec

\* So the client is never silenced but for as many failures in a row as the threshold
\* says, of one operation and with no success in between.
THEOREM KillSwitchIsDeserved == Spec => []KillSwitchDeserved
<1>1. KillSwitchInStep => KillSwitchDeserved
  BY DEF KillSwitchInStep
<1>. QED BY <1>1, KillSwitchStaysInStep, PTL

=============================================================================
