-------------------------------- MODULE Comms --------------------------------
(***************************************************************************)
(* The packet engine of the client: DefaultBrainCloudComms and the part of *)
(* IBrainCloudComms it inherits.                                           *)
(*                                                                         *)
(* The app puts calls on a queue; runCallbacks, called once per frame,     *)
(* turns the front of the queue into a bundle, sends it as one numbered    *)
(* packet, waits for the loader, retries on a network failure, matches the *)
(* replies to the calls by position and runs the app's callbacks.          *)
(*                                                                         *)
(* One execution of runCallbacks is a step on the loader (the part that    *)
(* holds _loaderMutex) followed by one step per callback; pc says where it *)
(* is.  The app's operations interleave with those steps, as they do when  *)
(* they are called from callbacks or from other threads.                   *)
(***************************************************************************)
EXTENDS Integers, Sequences, FiniteSets, FiniteSetsExt, Subsequence

CONSTANTS
  ApiOps,              \* service operations with no effect on the client itself
  AppOps,              \* what the app queues: operations and the bundle marker
  MaxCalls,            \* bound: how many entries are ever queued
  MaxBundleSize,       \* _maxBundleSize
  MaxSendAttempts,     \* _packetTimeouts.size()
  KillSwitchThreshold, \* _killSwitchThreshold
  ServerResults,       \* what the server answers to one call
  Faults,              \* subset of {"networkFailure", "outOfSync"}
  Controls             \* the control operations the app uses

\* Operations the client itself tells apart.
Authenticating == {"authenticate", "resetEmailPassword"}
EndingSession  == {"logout", "fullReset"}
NoOp  == "none"
Op    == ApiOps \cup Authenticating \cup EndingSession \cup {"heartbeat", "marker"}

\* What one call is answered with.  "ok" and "error" come from the server;
\* "session" is a server error that ends the session, "nosession" the same
\* error made up locally; the others are local.
SessionErrors == {"session", "nosession"}
Result == {"ok", "error", "timeout", "disabled", "missing", "dropped"} \cup SessionErrors

AllControls == {"caching", "reset", "shutdown", "retryInCallback"}

ASSUME CommsAssumption ==
  /\ ApiOps \cap (Authenticating \cup EndingSession \cup {"heartbeat", "marker", NoOp}) = {}
  /\ AppOps \subseteq Op
  /\ MaxCalls \in Nat
  /\ MaxBundleSize \in Nat \ {0}
  /\ MaxSendAttempts \in Nat \ {0}
  /\ KillSwitchThreshold \in Nat \ {0}
  /\ ServerResults \subseteq {"ok", "error", "session"}
  /\ Faults \subseteq {"networkFailure", "outOfSync"}
  /\ Controls \subseteq AllControls

NoPacket == -1     \* NO_PACKET_EXPECTED
ByClient == 0      \* the "to" of a reply no server call stands behind

Call     == [id : Nat \ {0}, op : Op]
Reply    == [to : Nat, result : Result]
Event    == [call : Call, reply : Reply]
Packet   == [packetId : Nat, calls : Seq(Call)]
Response == [packetId : Int, replies : Seq(Reply)]
KillSwitchState == [op : Op \cup {NoOp}, count : Nat, engaged : BOOLEAN]

NoRequest  == [packetId |-> NoPacket, calls |-> <<>>]
NoResponse == [packetId |-> NoPacket, replies |-> <<>>]

VARIABLES
  pc,                \* where runCallbacks is: "idle", "networkError", "callbacks"
  isInitialized,     \* _isInitialized
  queue,             \* _queue
  inProgress,        \* _inProgress
  request,           \* _request, or NoRequest
  loader,            \* _loader: "none", "loading", "failed", "replied"
  response,          \* what the loader will return when "replied"
  packetId,          \* _packetId: the number of the next packet
  expectedPacketId,  \* _expectedPacketId
  retryCount,        \* _retryCount
  retrying,          \* _retryTimeMillis # RETRY_TIME_NOT_RETRYING
  cacheMessages,     \* _cacheMessagesOnNetworkError
  blockingQueue,     \* _blockingQueue
  isAuthenticated,   \* _isAuthenticated, and that _sessionId is not empty
  errorCache,        \* _statusCodeCache, _reasonCodeCache, _statusMessageCache
  killSwitch,        \* _killSwitchOperation, _killSwitchErrorCount, _killSwitchEngaged
  apiCallbackQueue,  \* _apiCallbackQueue
  issued,            \* history: the operations queued so far, by call id
  finished,          \* history: the callbacks run so far
  wire,              \* history: the packets sent so far
  sends              \* history: how often the current packet was sent

sessionVars == <<isAuthenticated, errorCache, killSwitch>>
retryVars   == <<retryCount, retrying>>
packetVars  == <<packetId, expectedPacketId>>
loaderVars  == <<request, loader, response>>
history     == <<issued, finished, wire, sends>>
vars == <<pc, isInitialized, queue, inProgress, loaderVars, packetVars, retryVars,
          cacheMessages, blockingQueue, sessionVars, apiCallbackQueue, history>>

FlagsOK ==
  /\ isInitialized \in BOOLEAN
  /\ retrying \in BOOLEAN
  /\ cacheMessages \in BOOLEAN
  /\ blockingQueue \in BOOLEAN
  /\ isAuthenticated \in BOOLEAN

DataOK ==
  /\ pc \in {"idle", "networkError", "callbacks"}
  /\ queue \in Seq(Call)
  /\ inProgress \in Seq(Call)
  /\ request \in Packet \cup {NoRequest}
  /\ loader \in {"none", "loading", "failed", "replied"}
  /\ response \in Response
  /\ packetId \in Nat
  /\ expectedPacketId \in Nat \cup {NoPacket}
  /\ retryCount \in 0 .. MaxSendAttempts - 1
  /\ errorCache \in SessionErrors
  /\ killSwitch \in KillSwitchState
  /\ apiCallbackQueue \in Seq(Event)
  /\ issued \in Seq(Op)
  /\ finished \in Seq(Event)
  /\ wire \in SUBSET Packet
  /\ sends \in Nat

TypeOK == FlagsOK /\ DataOK

Init ==
  /\ pc = "idle"
  /\ isInitialized = FALSE
  /\ queue = <<>>
  /\ inProgress = <<>>
  /\ request = NoRequest
  /\ loader = "none"
  /\ response = NoResponse
  /\ packetId = 0
  /\ expectedPacketId = NoPacket
  /\ retryCount = 0
  /\ retrying = FALSE
  /\ cacheMessages = FALSE
  /\ blockingQueue = FALSE
  /\ isAuthenticated = FALSE
  /\ errorCache = "nosession"
  /\ killSwitch = [op |-> NoOp, count |-> 0, engaged |-> FALSE]
  /\ apiCallbackQueue = <<>>
  /\ issued = <<>>
  /\ finished = <<>>
  /\ wire = {}
  /\ sends = 0

-----------------------------------------------------------------------------
(* Replies: handleResponseBundle *)

HasCallback(call) == call.op # "heartbeat"
IsRetried(calls)  == \A i \in DOMAIN calls : calls[i].op # "authenticate"
SendAttempts(calls) == IF IsRetried(calls) THEN MaxSendAttempts ELSE 1

LocalReplies(calls, result) ==
  [i \in DOMAIN calls |-> [to |-> ByClient, result |-> result]]

\* The reply at the position of each call: the payload names no call.
Matched(calls, replies) ==
  [i \in DOMAIN calls |->
     IF i \in DOMAIN replies THEN replies[i] ELSE [to |-> ByClient, result |-> "missing"]]

\* The callback events of the calls that have a callback, in bundle order.
EventsFor(calls, replies) ==
  Select([i \in DOMAIN calls |-> [call |-> calls[i], reply |-> replies[i]]],
         {i \in DOMAIN calls : HasCallback(calls[i])})

\* filterIncomingMessages and the session part of the error branch.
OpensSession(call, result) == result = "ok" /\ call.op = "authenticate"
ClosesSession(call, result) ==
  \/ result = "ok" /\ call.op \in EndingSession
  \/ result \in SessionErrors
  \/ result = "timeout" /\ call.op = "logout"

\* The messages of a bundle are handled in order: the last one that touches the
\* session decides.
SessionAfter(calls, replies) ==
  LET touch == {i \in DOMAIN calls : \/ OpensSession(calls[i], replies[i].result)
                                     \/ ClosesSession(calls[i], replies[i].result)}
  IN  IF touch = {} THEN isAuthenticated
                    ELSE OpensSession(calls[Max(touch)], replies[Max(touch)].result)

ErrorCacheAfter(calls, replies) ==
  LET touch == {i \in DOMAIN calls : \/ OpensSession(calls[i], replies[i].result)
                                     \/ replies[i].result \in SessionErrors}
  IN  IF touch = {} THEN errorCache
      ELSE IF replies[Max(touch)].result \in SessionErrors
           THEN replies[Max(touch)].result ELSE "nosession"

\* updateKillSwitch and resetKillSwitch over a bundle.  Statuses of 900 are not
\* counted; a success starts over; the first operation that fails after that is
\* the one counted; once engaged the switch stays engaged.
Counted(result) == result \in {"error", "missing"} \cup SessionErrors

\* The replies up to the n-th since the last success.
StreakOfAll(replies, n) == 1 .. n                \* mutant: a success starts nothing over
Streak(replies, n) == {i \in 1 .. n : \A j \in i .. n : replies[j].result # "ok"}

KillSwitchAt(calls, replies, n) ==
  LET fresh   == Streak(replies, n) # 1 .. n
      failed  == {i \in Streak(replies, n) : Counted(replies[i].result)}
      op      == IF ~fresh /\ killSwitch.op # NoOp THEN killSwitch.op
                 ELSE IF failed = {} THEN NoOp ELSE calls[Min(failed)].op
  IN  [op |-> op,
       count |-> (IF fresh THEN 0 ELSE killSwitch.count)
                 + Cardinality({i \in failed : calls[i].op = op})]

KillSwitchAfter(calls, replies) ==
  LET last == KillSwitchAt(calls, replies, Len(calls))
  IN  [op |-> last.op, count |-> last.count,
       engaged |-> \/ killSwitch.engaged
                   \/ \E n \in DOMAIN calls :
                        /\ Counted(replies[n].result)
                        /\ KillSwitchAt(calls, replies, n).count >= KillSwitchThreshold]

\* A bundle of replies to the calls, numbered as expected.
AnswerCalls(calls, replies) ==
  \E matched \in {Matched(calls, replies)} :
    /\ apiCallbackQueue' = apiCallbackQueue \o EventsFor(calls, matched)
    /\ isAuthenticated' = SessionAfter(calls, matched)
    /\ errorCache' = ErrorCacheAfter(calls, matched)
    /\ killSwitch' = KillSwitchAfter(calls, matched)

\* A bundle with another number is dropped, and the calls in progress with it:
\* each gets an error callback, and nothing else changes.
DropsSilently == UNCHANGED <<apiCallbackQueue, sessionVars>>    \* mutant: no callbacks
DropBundle ==
  /\ apiCallbackQueue' = apiCallbackQueue
        \o EventsFor(inProgress, LocalReplies(inProgress, "dropped"))
  /\ UNCHANGED sessionVars

HandleResponseBundle(resp) ==
  IF expectedPacketId = NoPacket \/ resp.packetId # expectedPacketId
  THEN DropBundle
  ELSE AnswerCalls(inProgress, resp.replies)

-----------------------------------------------------------------------------
(* Bundles: createAndSendBundle *)

\* The calls of the queue before its first marker that must travel alone.
AuthPositions ==
  {i \in DOMAIN queue : /\ queue[i].op \in Authenticating
                        /\ \A j \in 1 .. i : queue[j].op # "marker"}
AuthFound == Len(queue) > 1 /\ AuthPositions # {}

\* The queue with the first such call moved to the front.
Reordered ==
  IF AuthFound
  THEN LET a == Min(AuthPositions)
       IN  <<queue[a]>> \o SubSeq(queue, 1, a - 1) \o SubSeq(queue, a + 1, Len(queue))
  ELSE queue

\* The positions the loop has put in the bundle once it took n entries off the
\* queue: markers are tossed, a heartbeat goes only if nothing else does.
TakenBy(n) ==
  LET calls == {i \in 1 .. n : Reordered[i].op \notin {"marker", "heartbeat"}}
      alone == /\ n > 0 /\ n = Len(queue)
               /\ Reordered[n].op = "heartbeat"
               /\ calls = {} /\ inProgress = <<>>
  IN  IF alone THEN {n} ELSE calls

\* An authenticating call was moved to the front: the loop stops once it has it.
StopsAfterTwo(n)     == AuthFound /\ Cardinality(TakenBy(n)) > 1    \* mutant
StopsAtAuthCall(n)   == AuthFound /\ TakenBy(n) # {}

\* A marker ends the bundle unless the bundle is still empty.
SkipsMarker(n)       == FALSE                                \* mutant: tossed, no cut
StopsAtMarker(n)     == /\ n > 0 /\ Reordered[n].op = "marker"
                        /\ inProgress # <<>> \/ TakenBy(n) # {}

\* Where the loop may stop.
StopsAt(n) ==
  \/ n = Len(queue)
  \/ Len(inProgress) + Cardinality(TakenBy(n)) >= MaxBundleSize
  \/ StopsAtAuthCall(n)
  \/ StopsAtMarker(n)

Cut    == Min({n \in 0 .. Len(queue) : StopsAt(n)})
Bundle == Select(Reordered, TakenBy(Cut))

\* The calls whose payload is appended to the packet: those of the bundle.
WithHeartbeats == Select(Reordered, {i \in 1 .. Cut : Reordered[i].op # "marker"}) \* mutant
Payload        == Bundle

RestWithLast  == SubSeq(Reordered, Cut, Len(queue))                     \* mutant
Rest          == SubSeq(Reordered, Cut + 1, Len(queue))

IsAuthenticating(calls) == \E i \in DOMAIN calls : calls[i].op \in Authenticating

\* The number of the packet that is resent or given up: the last one taken.
NextPacketId   == packetId           \* mutant
ResendPacketId == packetId - 1

\* startHttpRequest, for the packet req.
StartHttpRequest(req) ==
  /\ loader' = "loading"
  /\ response' = NoResponse
  /\ retrying' = FALSE
  /\ wire' = wire \cup {req}

-----------------------------------------------------------------------------
(* The app's operations *)

\* While networkError() runs, runCallbacks holds the loader lock: only calls
\* made from that callback get through.
AppMayAct(control) == pc # "networkError" \/ control \in Controls

\* addToQueue, for a service call, a heartbeat or a marker.
Push(op) ==
  /\ Len(issued) < MaxCalls
  /\ queue' = Append(queue, [id |-> Len(issued) + 1, op |-> op])
  /\ issued' = Append(issued, op)

AddToQueue(op) ==
  /\ Push(op)
  /\ UNCHANGED <<pc, isInitialized, inProgress, loaderVars, packetVars, retryVars,
                 cacheMessages, blockingQueue, sessionVars, apiCallbackQueue,
                 finished, wire, sends>>

Initialize ==
  /\ ~isInitialized
  /\ isInitialized' = TRUE
  /\ UNCHANGED <<pc, queue, inProgress, loaderVars, packetVars, retryVars,
                 cacheMessages, blockingQueue, sessionVars, apiCallbackQueue, history>>

EnableNetworkErrorMessageCaching(enabled) ==
  /\ "caching" \in Controls
  /\ cacheMessages' = enabled
  /\ UNCHANGED <<pc, isInitialized, queue, inProgress, loaderVars, packetVars,
                 retryVars, blockingQueue, sessionVars, apiCallbackQueue, history>>

RetryCachedMessages ==
  /\ AppMayAct("retryInCallback")
  /\ blockingQueue /\ request # NoRequest
  /\ retryCount' = 0
  /\ expectedPacketId' = ResendPacketId
  /\ StartHttpRequest(request)
  /\ sends' = 1
  /\ blockingQueue' = FALSE
  /\ UNCHANGED <<pc, isInitialized, queue, inProgress, request, packetId,
                 cacheMessages, sessionVars, apiCallbackQueue, issued, finished>>

\* The events go through handleResponseBundle with the number of the packet.
FlushCachedMessages(sendApiErrorCallbacks) ==
  /\ blockingQueue
  /\ IF sendApiErrorCallbacks
     THEN /\ AnswerCalls(inProgress, LocalReplies(inProgress, "timeout"))
          /\ expectedPacketId' = NoPacket
     ELSE UNCHANGED <<apiCallbackQueue, sessionVars, expectedPacketId>>
  /\ inProgress' = <<>>
  /\ request' = NoRequest
  /\ blockingQueue' = FALSE
  /\ UNCHANGED <<pc, isInitialized, queue, loader, response, packetId, retryVars,
                 cacheMessages, history>>

ForgetPacketOnly == retryCount' = 0 /\ UNCHANGED <<retrying, request>>   \* mutant
ForgetPacket == retryCount' = 0 /\ retrying' = FALSE /\ request' = NoRequest

ClearQueueOnly == queue' = <<>> /\ inProgress' = inProgress             \* mutant
ClearCalls     == queue' = <<>> /\ inProgress' = <<>>

\* The loader is closed and given up.  Neither the callback events nor the
\* packet numbers are touched.
Clear ==
  /\ isAuthenticated' = FALSE
  /\ errorCache' = "nosession"
  /\ loader' = "none"
  /\ response' = NoResponse
  /\ ForgetPacket
  /\ blockingQueue' = FALSE
  /\ ClearCalls
  /\ UNCHANGED <<pc, packetVars, cacheMessages, killSwitch, apiCallbackQueue, history>>

ResetCommunication ==
  /\ "reset" \in Controls
  /\ Clear
  /\ UNCHANGED isInitialized

Shutdown ==
  /\ "shutdown" \in Controls
  /\ Clear
  /\ isInitialized' = FALSE

App ==
  \/ \E op \in AppOps : AddToQueue(op)
  \/ Initialize
  \/ \E enabled \in BOOLEAN : EnableNetworkErrorMessageCaching(enabled)
  \/ RetryCachedMessages
  \/ \E notify \in BOOLEAN : FlushCachedMessages(notify)
  \/ ResetCommunication
  \/ Shutdown

-----------------------------------------------------------------------------
(* runCallbacks, the loader part *)

TickingEvenBlocked == pc = "idle" /\ isInitialized     \* mutant: _blockingQueue not read
Ticking == pc = "idle" /\ isInitialized /\ ~blockingQueue

\* handleResult after handleError: the loader failed and attempts are left.
\* (When nothing is in progress handleResult ignores the loader; that is the
\* dead branch LoaderServesInProgress rules out.)
LoaderFailed == Ticking /\ loader = "failed" /\ inProgress # <<>>
OneMoreAttempt == retryCount >= SendAttempts(inProgress)            \* mutant
LastAttempt  == retryCount + 1 >= SendAttempts(inProgress)

ScheduleRetry ==
  /\ LoaderFailed /\ ~LastAttempt
  /\ retryCount' = retryCount + 1
  /\ retrying' = TRUE
  /\ expectedPacketId' = NoPacket
  /\ loader' = "none"
  /\ pc' = "callbacks"
  /\ UNCHANGED <<isInitialized, queue, inProgress, request, response, packetId,
                 cacheMessages, blockingQueue, sessionVars, apiCallbackQueue, history>>

\* Out of attempts, without caching: triggerCommsError.
GiveUp ==
  /\ LoaderFailed /\ LastAttempt /\ ~cacheMessages
  /\ HandleResponseBundle([packetId |-> expectedPacketId,
                           replies |-> LocalReplies(inProgress, "timeout")])
  /\ retryCount' = 0
  /\ retrying' = FALSE
  /\ inProgress' = <<>>
  /\ expectedPacketId' = NoPacket
  /\ loader' = "none"
  /\ pc' = "callbacks"
  /\ UNCHANGED <<isInitialized, queue, request, response, packetId, cacheMessages,
                 blockingQueue, history>>

\* Out of attempts, with caching: the engine blocks and networkError() runs, with
\* the loader still in place.
BlockQueue ==
  /\ LoaderFailed /\ LastAttempt /\ cacheMessages
  /\ retryCount' = 0
  /\ retrying' = FALSE
  /\ blockingQueue' = TRUE
  /\ pc' = "networkError"
  /\ UNCHANGED <<isInitialized, queue, inProgress, loaderVars, packetVars,
                 cacheMessages, sessionVars, apiCallbackQueue, history>>

\* networkError() returned: handleResult ends and runCallbacks deletes _loader,
\* whichever loader that is by now.
NetworkErrorReturns ==
  /\ pc = "networkError"
  /\ expectedPacketId' = NoPacket
  /\ loader' = "none"
  /\ response' = NoResponse
  /\ pc' = "callbacks"
  /\ UNCHANGED <<isInitialized, queue, inProgress, request, packetId, retryVars,
                 cacheMessages, blockingQueue, sessionVars, apiCallbackQueue, history>>

\* A parsed response.  _retryCount and _request keep their values.
TakeReply ==
  /\ Ticking /\ loader = "replied" /\ inProgress # <<>>
  /\ HandleResponseBundle(response)
  /\ inProgress' = <<>>
  /\ expectedPacketId' = NoPacket
  /\ loader' = "none"
  /\ response' = NoResponse
  /\ pc' = "callbacks"
  /\ UNCHANGED <<isInitialized, queue, request, packetId, retryVars, cacheMessages,
                 blockingQueue, history>>

\* Mutant: a packet is tried again only while a reply to it is expected.
RetriesIfExpected == retrying /\ request # NoRequest /\ expectedPacketId # NoPacket

\* The retry time has come (it need not have: then this tick does nothing here).
InRetry == retrying /\ request # NoRequest

Resend ==
  /\ Ticking /\ loader = "none" /\ InRetry
  /\ expectedPacketId' = ResendPacketId
  /\ StartHttpRequest(request)
  /\ sends' = sends + 1
  /\ pc' = "callbacks"
  /\ UNCHANGED <<isInitialized, queue, inProgress, request, packetId, retryCount,
                 cacheMessages, blockingQueue, sessionVars, apiCallbackQueue,
                 issued, finished>>

CreatesBundle == Ticking /\ loader = "none" /\ ~InRetry /\ queue # <<>>

\* Only markers and heartbeats on the queue.
TossQueue ==
  /\ CreatesBundle /\ Bundle = <<>>
  /\ queue' = Rest
  /\ pc' = "callbacks"
  /\ UNCHANGED <<isInitialized, inProgress, loaderVars, packetVars, retryVars,
                 cacheMessages, blockingQueue, sessionVars, apiCallbackQueue, history>>

\* A bundle with the kill switch engaged or without a session is answered on the
\* spot (fakeErrorResponse); it uses up a packet number all the same.
Refused == killSwitch.engaged \/ (~isAuthenticated /\ ~IsAuthenticating(Bundle))

RefuseBundle ==
  /\ CreatesBundle /\ Bundle # <<>> /\ Refused
  /\ \E calls \in {inProgress \o Bundle} :
         AnswerCalls(calls, LocalReplies(calls,
           IF killSwitch.engaged THEN "disabled" ELSE errorCache))
  /\ queue' = Rest
  /\ inProgress' = <<>>
  /\ packetId' = packetId + 1
  /\ expectedPacketId' = NoPacket
  /\ pc' = "callbacks"
  /\ UNCHANGED <<isInitialized, loaderVars, retryVars, cacheMessages, blockingQueue,
                 history>>

SendBundle ==
  /\ CreatesBundle /\ Bundle # <<>> /\ ~Refused
  /\ queue' = Rest
  /\ inProgress' = inProgress \o Bundle
  /\ request' = [packetId |-> packetId, calls |-> Payload]
  /\ expectedPacketId' = packetId
  /\ packetId' = packetId + 1
  /\ StartHttpRequest(request')
  /\ sends' = 1
  /\ pc' = "callbacks"
  /\ UNCHANGED <<isInitialized, retryCount, cacheMessages, blockingQueue, sessionVars,
                 apiCallbackQueue, issued, finished>>

\* Nothing in transit and nothing to send for the heartbeat interval.
SendHeartbeat ==
  /\ Ticking /\ loader = "none" /\ ~InRetry /\ queue = <<>>
  /\ isAuthenticated
  /\ Push("heartbeat")
  /\ pc' = "callbacks"
  /\ UNCHANGED <<isInitialized, inProgress, loaderVars, packetVars, retryVars,
                 cacheMessages, blockingQueue, sessionVars, apiCallbackQueue,
                 finished, wire, sends>>

\* The loader is busy, or no timer has run out: only callbacks to run.
NothingToDo ==
  /\ Ticking /\ apiCallbackQueue # <<>>
  /\ loader = "loading" \/ (loader = "none" /\ (InRetry \/ queue = <<>>))
  /\ pc' = "callbacks"
  /\ UNCHANGED <<isInitialized, queue, inProgress, loaderVars, packetVars, retryVars,
                 cacheMessages, blockingQueue, sessionVars, apiCallbackQueue, history>>

-----------------------------------------------------------------------------
(* runCallbacks, the callbacks *)

RunApiCallback ==
  /\ pc = "callbacks" /\ apiCallbackQueue # <<>>
  /\ finished' = Append(finished, Head(apiCallbackQueue))
  /\ apiCallbackQueue' = Tail(apiCallbackQueue)
  /\ UNCHANGED <<pc, isInitialized, queue, inProgress, loaderVars, packetVars,
                 retryVars, cacheMessages, blockingQueue, sessionVars,
                 issued, wire, sends>>

ReturnFromRunCallbacks ==
  /\ pc = "callbacks" /\ apiCallbackQueue = <<>>
  /\ pc' = "idle"
  /\ UNCHANGED <<isInitialized, queue, inProgress, loaderVars, packetVars, retryVars,
                 cacheMessages, blockingQueue, sessionVars, apiCallbackQueue, history>>

RunCallbacks ==
  \/ ScheduleRetry \/ GiveUp \/ BlockQueue \/ NetworkErrorReturns \/ TakeReply
  \/ Resend \/ TossQueue \/ RefuseBundle \/ SendBundle \/ SendHeartbeat
  \/ NothingToDo \/ RunApiCallback \/ ReturnFromRunCallbacks

-----------------------------------------------------------------------------
(* The loader and the server behind it (external) *)

LoaderReturns(state, resp) ==
  /\ loader = "loading"
  /\ loader' = state
  /\ response' = resp
  /\ UNCHANGED <<pc, isInitialized, queue, inProgress, request, packetVars, retryVars,
                 cacheMessages, blockingQueue, sessionVars, apiCallbackQueue, history>>

\* The server answers every call of the packet, in order.
ServerReplies ==
  \E results \in [DOMAIN request.calls -> ServerResults] :
    LoaderReturns("replied",
      [packetId |-> request.packetId,
       replies  |-> [i \in DOMAIN request.calls |->
                       [to |-> request.calls[i].id, result |-> results[i]]]])

\* A timeout, an HTTP error or a body that does not parse.
NetworkFails == "networkFailure" \in Faults /\ LoaderReturns("failed", NoResponse)

\* A reply with another packet's number.
ServerOutOfSync ==
  /\ "outOfSync" \in Faults
  /\ LoaderReturns("replied", [packetId |-> request.packetId - 1, replies |-> <<>>])

Network == ServerReplies \/ NetworkFails \/ ServerOutOfSync

-----------------------------------------------------------------------------
Next == App \/ RunCallbacks \/ Network

Spec == Init /\ [][Next]_vars

-----------------------------------------------------------------------------
(* Safety *)

CallsOf(events) == [i \in DOMAIN events |-> events[i].call]

\* Every call the client still knows, from the oldest callback to the back of
\* the queue.
Pipeline == CallsOf(finished) \o CallsOf(apiCallbackQueue) \o inProgress \o queue

\* Calls are bundled, answered and called back once each and in the order they were
\* queued, but for an authenticating call, which may overtake: through retries, refused
\* and flushed bundles and resets (createAndSendBundle's reordering, the callback
\* queue).
PipelineInOrder ==
  \A i, j \in DOMAIN Pipeline : i < j =>
    /\ Pipeline[i].id # Pipeline[j].id
    /\ Pipeline[i].op \notin Authenticating => Pipeline[i].id < Pipeline[j].id

\* What a callback is told comes from the server's answer to that very call or is
\* a local error; handleResponseBundle matches by position only.
RepliesReachTheirCall ==
  \A i \in DOMAIN (finished \o apiCallbackQueue) :
    LET e == (finished \o apiCallbackQueue)[i]
    IN  e.reply.to \in {ByClient, e.call.id}

\* A packet number stands for one bundle for ever, so the server can recognise a
\* resent packet by its number (retry and retryCachedMessages reuse _request
\* while _packetId counts refused bundles too).
PacketNumberNamesBundle ==
  \A p, q \in wire : p.packetId = q.packetId => p = q

\* While calls are in progress their packet is with the loader, waits for its
\* retry time, or the queue is blocked for the app to decide: nothing is left
\* behind that no later frame picks up.
NoStrandedCalls ==
  inProgress # <<>> =>
    loader # "none" \/ (retrying /\ request # NoRequest) \/ blockingQueue

\* The loader always works for the calls in progress, under the number that is
\* expected back: an answer is never dropped or matched to other calls by the
\* client's own doing.
LoaderServesInProgress ==
  loader # "none" /\ pc # "networkError" =>
    /\ inProgress # <<>> /\ inProgress = request.calls
    /\ blockingQueue \/ expectedPacketId = request.packetId

\* A packet without an authenticating call is on the wire only while the client
\* holds a session, through retries as well.
SessionGuardsTraffic ==
  loader = "loading" => isAuthenticated \/ IsAuthenticating(request.calls)

\* A packet is sent at most as often as there are packet timeouts, a packet with
\* an authenticate call once; retryCachedMessages starts over.
AttemptsBounded ==
  loader # "none" =>
    sends <= IF \E i \in DOMAIN request.calls : request.calls[i].op = "authenticate"
             THEN 1 ELSE MaxSendAttempts

\* Once engaged, the kill switch keeps everything off the wire: no packet is in
\* transit or waits for a retry.
KillSwitchSilences ==
  killSwitch.engaged => loader # "loading" /\ ~retrying

\* The callbacks so far and those due, in their order.
AllEvents == finished \o apiCallbackQueue

\* From the a-th event to the b-th none is a success, and n calls of op have failed.
FailsFor(events, op, a, b, n) ==
  /\ \A i \in a .. b : events[i].reply.result # "ok"
  /\ Cardinality({i \in a .. b : /\ events[i].call.op = op
                                /\ Counted(events[i].reply.result)}) >= n

\* Heartbeats have no callback that tells of a failure: only their number is known.
Heartbeats == {c \in DOMAIN issued : issued[c] = "heartbeat"}

\* The kill switch engages only on a run of failures of one operation as long as
\* the threshold with no success in between (updateKillSwitch, resetKillSwitch).
KillSwitchDeserved ==
  killSwitch.engaged =>
    \/ Cardinality(Heartbeats) >= KillSwitchThreshold
    \/ \E op \in Op, a, b \in DOMAIN AllEvents :
         FailsFor(AllEvents, op, a, b, KillSwitchThreshold)

HeartbeatsAnswered ==
  {c \in Heartbeats : /\ \A i \in DOMAIN inProgress : inProgress[i].id # c
                      /\ \A i \in DOMAIN queue : queue[i].id # c}

\* The count is of a run of failures up to the b-th event.
CountFits(count, op, events, b, heartbeats) ==
  IF op = NoOp THEN count = 0
  ELSE IF op = "heartbeat" THEN count <= heartbeats
  ELSE \E a \in 1 .. b + 1 : FailsFor(events, op, a, b, count)

\* What makes it inductive: the failures counted are those of a run which is not over
\* yet, the last ones to be called back; of heartbeats, of those no longer under way.
KillSwitchInStep ==
  /\ KillSwitchDeserved
  /\ CountFits(killSwitch.count, killSwitch.op, AllEvents, Len(AllEvents),
               Cardinality(HeartbeatsAnswered))

\* No packet carries calls from both sides of an end-of-bundle marker.
MarkersSeparateBundles ==
  \A p \in wire : \A i, j \in DOMAIN p.calls :
    \A m \in p.calls[i].id .. p.calls[j].id : issued[m] # "marker"

\* "There is only ONE message with authenticate": a packet with an authenticating
\* call carries nothing else, wherever in the queue that call was.  (A marker queued
\* before it can hide it from the reordering: AuthenticationIsFirst.)
AuthenticationTravelsAlone ==
  \A p \in wire : \A i \in DOMAIN p.calls :
    /\ p.calls[i].op \in Authenticating
    /\ \A m \in 1 .. p.calls[i].id : issued[m] # "marker"
    => Len(p.calls) = 1

PacketsWellMade == MarkersSeparateBundles /\ AuthenticationTravelsAlone

\* While the queue is blocked nothing is numbered or sent.
BlockedMeansFrozen ==
  [][blockingQueue /\ blockingQueue' => UNCHANGED <<packetId, wire, sends>>]_vars

-----------------------------------------------------------------------------
(* The inductive invariant behind the safety properties, for an app that makes no
   retry from inside networkError() *)

\* Calls in progress are those of the current packet, the last one numbered; they
\* went out with a session and before any kill switch, and something is due to
\* happen to them.
CallsServed ==
  inProgress # <<>> =>
    /\ request # NoRequest /\ request.calls = inProgress
    /\ request.packetId = packetId - 1
    /\ loader # "none" \/ retrying \/ blockingQueue
    /\ isAuthenticated \/ IsAuthenticating(inProgress)
    /\ ~killSwitch.engaged
    /\ sends <= SendAttempts(inProgress)

\* A loader has calls to serve, but for a failed one kept while networkError() runs.
LoaderBusy ==
  /\ loader # "none" => inProgress # <<>> \/ pc = "networkError"
  /\ loader # "none" /\ pc # "networkError" =>
       /\ expectedPacketId = request.packetId
       /\ ~blockingQueue
       /\ sends <= retryCount + 1
  /\ pc = "networkError" => loader # "loading"

\* A pending retry is for the calls in progress and within the attempts.
RetryPending ==
  retrying => /\ inProgress # <<>> /\ loader = "none" /\ ~blockingQueue
              /\ sends <= retryCount /\ retryCount < SendAttempts(inProgress)

\* A blocked queue has a packet to decide about; networkError() can only dismiss it.
QueueBlocked ==
  /\ blockingQueue => inProgress # <<>> /\ (loader = "none" \/ pc = "networkError")
  /\ pc = "networkError" => IF inProgress = <<>> THEN request = NoRequest
                                                 ELSE blockingQueue

\* Numbers are never handed out twice.
WireNumbered ==
  /\ \A p \in wire : p.packetId < packetId
  /\ request # NoRequest => request \in wire
  /\ PacketNumberNamesBundle
  /\ sends <= MaxSendAttempts

InStep == CallsServed /\ LoaderBusy /\ RetryPending /\ QueueBlocked /\ WireNumbered

CommsInStep == TypeOK /\ InStep

-----------------------------------------------------------------------------
(* The inductive invariant behind the order of the calls and of their replies *)

\* A call is what was queued under its number.
IsIssued(c) == c.id \in DOMAIN issued /\ issued[c.id] = c.op

CallsAreIssued ==
  /\ \A i \in DOMAIN Pipeline : IsIssued(Pipeline[i])
  /\ \A p \in wire : \A i \in DOMAIN p.calls : IsIssued(p.calls[i])

\* No marker behind the front of the queue has been tossed yet: between two bundles
\* nothing has overtaken on the queue.
QueueFollows ==
  /\ \A i, j \in DOMAIN queue : i < j => queue[i].id < queue[j].id
  /\ \A i \in DOMAIN queue : \A m \in queue[i].id .. Len(issued) :
       issued[m] = "marker" => \E k \in DOMAIN queue : queue[k].id = m

\* The response in hand is the server's to the request in hand, call by call.
ResponseFits ==
  loader = "replied" /\ pc # "networkError" =>
    \A i \in DOMAIN response.replies :
      i \in DOMAIN request.calls /\ response.replies[i].to = request.calls[i].id

CallsInStep ==
  /\ PipelineInOrder /\ CallsAreIssued
  /\ QueueFollows /\ PacketsWellMade
  /\ ResponseFits /\ RepliesReachTheirCall

=============================================================================
