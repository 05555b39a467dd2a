-------------------------------- MODULE CppRest --------------------------------
(***************************************************************************)
(* The packet engine of the Windows builds: CppRestBrainCloudComms.        *)
(*                                                                         *)
(* A thread of its own, the queue thread, takes the calls from             *)
(* _messageQueue, sends them in bundles, waits for the answer and calls    *)
(* the app back.  The app thread adds calls and resets the engine, which   *)
(* ends the queue thread and waits for it.                                 *)
(***************************************************************************)
EXTENDS Subsequence

CONSTANTS
  Ops,             \* what the app sends: subset of AppOps
  MaxCalls,        \* bound: calls of the app
  MaxSessions,     \* bound: calls of initialize
  MaxPackets,      \* bound: _packetId
  MaxBundleSize,   \* _maxBundleSize
  MaxSendAttempts, \* the number of _packetTimeouts
  Answers          \* what comes back: subset of Answer

AppOps == {"read", "authenticate", "resetPassword", "marker"}
Answer == {"ok", "error", "session", "stale", "garbled", "busy", "refused", "exception"}

ASSUME CppRestAssumption ==
  /\ Ops \subseteq AppOps
  /\ {MaxCalls, MaxSessions, MaxPackets} \subseteq Nat
  /\ {MaxBundleSize, MaxSendAttempts} \subseteq Nat \ {0}
  /\ Answers \subseteq Answer

VARIABLES
  queueThread,     \* where the queue thread is
  app,             \* where the app thread is: "idle", or in resetCommunication
  messageQueue,    \* _messageQueue
  inProgress,      \* _inProgressQueue
  packetId,        \* _packetId: the number of the next packet
  retryCount,      \* _retryCount
  isInitialized,   \* _isInitialized
  isAuthenticated, \* _isAuthenticated
  heartbeat,       \* _heartbeatInterval > 0
  tearDown,        \* _tearDownThread
  sessions,        \* history: calls of initialize
  issued,          \* history: calls of the app
  answered,        \* history: ids of the calls called back for good, in order
  again,           \* history: ids of the calls called back before an exception, after
                   \*   which the whole bundle is called back
  made,            \* history: ids of the calls of the app that have a callback, in order
  attempts,        \* history: how often the bundle in progress has been sent
  allowance        \* history: how often it could have been before an ignored answer or a
                   \*   tear-down put it off, which gives it a new round of attempts

thread == <<queueThread, app>>
calls  == <<messageQueue, inProgress>>
flags  == <<isInitialized, isAuthenticated, heartbeat, tearDown>>
told   == <<answered, again>>
tries  == <<attempts, allowance>>
counts == <<packetId, retryCount, sessions, issued, told, made, tries>>
vars   == <<thread, calls, flags, counts>>

Waiting == {"wait", "timedWait"}

\* Heartbeats have no callback, and no number of their own.
Call == [id : 1 .. MaxCalls, op : AppOps]
          \cup [id : {0}, op : {"heartbeat"}]

TypeOK ==
  /\ queueThread \in {"off", "top", "check", "toWait", "fill", "inner", "http", "sleep"} \cup Waiting
  /\ app \in {"idle", "notify", "join"}
  /\ messageQueue \in Seq(Call) /\ inProgress \in Seq(Call)
  /\ packetId \in 0 .. MaxPackets
  /\ retryCount \in Nat
  /\ isInitialized \in BOOLEAN /\ isAuthenticated \in BOOLEAN
  /\ heartbeat \in BOOLEAN /\ tearDown \in BOOLEAN
  /\ sessions \in 0 .. MaxSessions /\ issued \in 0 .. MaxCalls
  /\ answered \in Seq(1 .. MaxCalls) /\ made \in Seq(1 .. MaxCalls)
  /\ again \in Seq(1 .. MaxCalls)
  /\ attempts \in Nat /\ allowance \in Nat

Init ==
  /\ queueThread = "off" /\ app = "idle"
  /\ messageQueue = <<>> /\ inProgress = <<>>
  /\ isInitialized = FALSE /\ isAuthenticated = FALSE /\ heartbeat = FALSE /\ tearDown = FALSE
  /\ packetId = 0 /\ retryCount = 0 /\ sessions = 0 /\ issued = 0
  /\ answered = <<>> /\ again = <<>> /\ made = <<>> /\ attempts = 0 /\ allowance = 0

-----------------------------------------------------------------------------
(* The app thread *)

\* initialize; of an engine in use it resets the engine first.
Initialize ==
  /\ app = "idle" /\ ~isInitialized
  /\ sessions < MaxSessions
  /\ sessions' = sessions + 1
  /\ isInitialized' = TRUE
  /\ isAuthenticated' = FALSE
  /\ queueThread' = "top"
  /\ UNCHANGED <<app, calls, heartbeat, tearDown, packetId, retryCount, issued, told, made, tries>>

\* The steps of the queue thread that hold _queueMutex.
HoldsQueueMutex == queueThread \in {"toWait", "fill"}

\* Mutant: the queue thread is not told.
SleepsOn == queueThread

\* notify_one and notify_all: there is one waiter.
WakeQueueThread == IF queueThread \in Waiting THEN "check" ELSE queueThread

AddToQueue ==
  /\ app = "idle"
  /\ issued < MaxCalls
  /\ ~HoldsQueueMutex
  /\ issued' = issued + 1
  /\ \E op \in Ops :
       /\ messageQueue' = Append(messageQueue, [id |-> issued', op |-> op])
       /\ made' = IF op = "marker" THEN made ELSE Append(made, issued')
  /\ queueThread' = WakeQueueThread
  /\ UNCHANGED <<app, inProgress, flags, packetId, retryCount, sessions, told, tries>>

\* resetCommunication: neither flag is set under the mutex of the wait.
ResetCommunication ==
  /\ app = "idle"
  /\ isInitialized
  /\ app' = "notify"
  /\ tearDown' = TRUE
  /\ heartbeat' = FALSE
  /\ UNCHANGED <<queueThread, calls, isInitialized, isAuthenticated, counts>>

ResetNotifies ==
  /\ app = "notify"
  /\ app' = "join"
  /\ queueThread' = WakeQueueThread
  /\ UNCHANGED <<calls, flags, counts>>

\* Mutant: the queue thread is not waited for.
ResetDetaches ==
  /\ app = "join"
  /\ app' = "idle"
  /\ isInitialized' = FALSE /\ isAuthenticated' = FALSE
  /\ UNCHANGED <<queueThread, calls, heartbeat, tearDown, counts>>

\* The join and the rest: the calls and the retry count stay.
ResetJoins ==
  /\ app = "join"
  /\ queueThread = "off"
  /\ app' = "idle"
  /\ tearDown' = FALSE
  /\ isInitialized' = FALSE /\ isAuthenticated' = FALSE
  /\ UNCHANGED <<queueThread, calls, heartbeat, counts>>

AppRuns == Initialize \/ AddToQueue \/ ResetCommunication \/ ResetNotifies \/ ResetJoins

-----------------------------------------------------------------------------
(* The queue thread: processQueue and fillInProgress *)

Top ==
  /\ queueThread = "top"
  /\ queueThread' = IF tearDown THEN "off" ELSE "check"
  /\ UNCHANGED <<app, calls, flags, counts>>

Wait == IF heartbeat THEN "timedWait" ELSE "wait"

\* The condition of the first loop of fillInProgress, with _queueMutex held; only
\* from GoWait on does a notification reach the thread.
Check ==
  /\ queueThread = "check"
  /\ queueThread' = IF messageQueue # <<>> \/ tearDown THEN "fill"
                    ELSE "toWait"
  /\ UNCHANGED <<app, calls, flags, counts>>

GoWait ==
  /\ queueThread = "toWait"
  /\ queueThread' = Wait
  /\ UNCHANGED <<app, calls, flags, counts>>

\* The heartbeat interval is over.
WaitTimesOut ==
  /\ queueThread = "timedWait"
  /\ packetId < MaxPackets
  /\ queueThread' = "check"
  /\ messageQueue' = Append(messageQueue, [id |-> 0, op |-> "heartbeat"])
  /\ UNCHANGED <<app, inProgress, flags, counts>>

Bundled(call) == call.op # "marker"

\* One turn of the second loop: a marker ends the bundle, and so does a queue that
\* is empty, or as long as a whole bundle.
Fill ==
  /\ queueThread = "fill"
  /\ IF messageQueue = <<>> \/ tearDown \/ Len(messageQueue) >= MaxBundleSize
     THEN /\ queueThread' = IF inProgress = <<>> THEN "top" ELSE "inner"
          /\ UNCHANGED calls
     ELSE /\ messageQueue' = Tail(messageQueue)
          /\ IF Bundled(Head(messageQueue))
             THEN /\ inProgress' = Append(inProgress, Head(messageQueue))
                  /\ UNCHANGED queueThread
             ELSE /\ queueThread' = IF inProgress = <<>> THEN "top" ELSE "inner"
                  /\ UNCHANGED inProgress
  /\ UNCHANGED <<app, flags, counts>>

-----------------------------------------------------------------------------
(* The queue thread: processMessages *)

\* A bundle with one of these goes out without a session ...
MayComeFirst(bundle) ==
  \E i \in DOMAIN bundle : bundle[i].op \in {"authenticate", "resetPassword"}

\* ... but only one that authenticates is not tried again (shouldRetryPacket).
Authenticates(bundle) == \E i \in DOMAIN bundle : bundle[i].op = "authenticate"

\* The calls that have a callback.
WithCallback(bundle) ==
  Select(bundle, {i \in DOMAIN bundle : bundle[i].op \notin {"heartbeat", "marker"}})
Ids(bundle) ==
  [i \in DOMAIN WithCallback(bundle) |-> WithCallback(bundle)[i].id]

\* Mutant: one more than there are timeouts.
OneMoreAttempt == IF Authenticates(inProgress) THEN 2 ELSE MaxSendAttempts + 1

\* The attempts a bundle has.
SendAttempts == IF Authenticates(inProgress) THEN 1 ELSE MaxSendAttempts

\* Mutant: the bundle stays in progress.
ReportAndKeep ==
  /\ answered' = answered \o Ids(inProgress)
  /\ attempts' = 0 /\ allowance' = 0
  /\ queueThread' = "top"
  /\ UNCHANGED inProgress

\* Everyone in the bundle is called back, and the bundle is over.
ReportAll ==
  /\ answered' = answered \o Ids(inProgress)
  /\ inProgress' = <<>>
  /\ attempts' = 0 /\ allowance' = 0
  /\ queueThread' = "top"

Settle == ReportAll /\ UNCHANGED again

\* An exception, from a callback of the app or from a result of another type than
\* expected, when some have been called back: the catch calls the whole bundle back.
SettleAgain ==
  /\ \E called \in 1 .. Len(Ids(inProgress)) :
       again' = again \o SubSeq(Ids(inProgress), 1, called)
  /\ ReportAll

\* getDataString takes a packet number for every attempt; a bundle that may not go out
\* without a session is answered locally if there is none.
Send ==
  /\ queueThread = "inner"
  /\ ~tearDown
  /\ packetId < MaxPackets
  /\ packetId' = packetId + 1
  /\ IF isAuthenticated \/ MayComeFirst(inProgress)
     THEN /\ queueThread' = "http"
          /\ attempts' = attempts + 1
          /\ UNCHANGED <<told, inProgress, allowance>>
     ELSE Settle \/ SettleAgain
  /\ UNCHANGED <<app, messageQueue, flags, retryCount, sessions, issued, made>>

\* The bundle is put off: it stays in progress, for a round of attempts of its own.
PutOff ==
  /\ queueThread' = "top"
  /\ allowance' = allowance + SendAttempts
  /\ UNCHANGED <<inProgress, told, attempts>>

\* The tear-down: the bundle and the retry count are left for the next session.
StopsSending ==
  /\ queueThread = "inner"
  /\ tearDown
  /\ PutOff
  /\ UNCHANGED <<app, messageQueue, flags, packetId, retryCount, sessions, issued, made>>

\* reportResults: of the results only those matter that begin or end a session.  An
\* exception may come before or after the result that does.
NewSession(answer) ==
  /\ isAuthenticated' = CASE answer = "ok"      -> isAuthenticated \/ Authenticates(inProgress)
                          [] answer = "session" -> FALSE
                          [] OTHER              -> isAuthenticated
  /\ heartbeat' = (heartbeat \/ (answer = "ok" /\ Authenticates(inProgress)))

Results(answer) ==
  /\ answer \in {"ok", "error", "session"}
  /\ \/ NewSession(answer) /\ (Settle \/ SettleAgain)
     \/ UNCHANGED <<isAuthenticated, heartbeat>> /\ SettleAgain
  /\ retryCount' = 0

\* A packet with another number.
Ignored(answer) ==
  /\ answer = "stale"
  /\ retryCount' = 0
  /\ PutOff
  /\ UNCHANGED <<isAuthenticated, heartbeat>>

\* The server is busy or too slow: the bundle is tried again, after a warning to each
\* call, or given up.  An exception from either leaves the retry count as it is.
Busy(answer) ==
  /\ answer = "busy"
  /\ \/ /\ retryCount + 1 < SendAttempts
        /\ retryCount' = retryCount + 1
        /\ \/ queueThread' = "sleep" /\ UNCHANGED <<told, inProgress, tries>>
           \/ Settle
     \/ retryCount + 1 >= SendAttempts /\ retryCount' = 0 /\ Settle
     \/ retryCount + 1 >= SendAttempts /\ retryCount' = retryCount + 1 /\ SettleAgain
  /\ UNCHANGED <<isAuthenticated, heartbeat>>

\* An answer that cannot be parsed or has another status, or an exception of the
\* request: reportError, in the last case from the catch.
Failed(answer) ==
  /\ \/ answer \in {"garbled", "refused"} /\ retryCount' = 0 /\ Settle
     \/ answer = "garbled" /\ retryCount' = 0 /\ SettleAgain
     \/ answer = "refused" /\ UNCHANGED retryCount /\ SettleAgain
     \/ answer = "exception" /\ UNCHANGED retryCount /\ Settle
  /\ UNCHANGED <<isAuthenticated, heartbeat>>

Receive ==
  /\ queueThread = "http"
  /\ \E a \in Answers : Results(a) \/ Ignored(a) \/ Busy(a) \/ Failed(a)
  /\ UNCHANGED <<app, messageQueue, isInitialized, tearDown, packetId, sessions, issued, made>>

\* The pause before a retry, cut short by the tear-down.
SleepEnds ==
  /\ queueThread = "sleep"
  /\ queueThread' = "inner"
  /\ UNCHANGED <<app, calls, flags, counts>>

QueueThreadRuns ==
  \/ Top \/ Check \/ GoWait \/ WaitTimesOut \/ Fill
  \/ Send \/ StopsSending \/ Receive \/ SleepEnds

-----------------------------------------------------------------------------

Next == AppRuns \/ QueueThreadRuns

Spec == Init /\ [][Next]_vars

\* The queue thread runs, every request ends (its timeout is at least a second), and
\* a reset goes on; the heartbeat and the app are free.
Fairness ==
  /\ WF_vars(Top \/ Check \/ GoWait \/ Fill \/ Send \/ StopsSending \/ SleepEnds)
  /\ WF_vars(Receive)
  /\ WF_vars(ResetNotifies \/ ResetJoins)

FairSpec == Spec /\ Fairness

-----------------------------------------------------------------------------
(* Properties *)

\* Calls are answered for good once each and in the order they were made, and those not
\* yet answered are still there, in that order: through retries, ignored answers, local
\* answers, exceptions and resets no call is lost and none is repeated.
CallsInOrder == answered \o Ids(inProgress \o messageQueue) = made

\* Only the calls called back before an exception are called back again, and only once.
AgainOnlyOnce ==
  /\ \A i, j \in DOMAIN again : i < j => again[i] < again[j]
  /\ \A i \in DOMAIN again : \E j \in DOMAIN answered : answered[j] = again[i]

\* No call of the app is lost, called back out of order, or called back twice but for an
\* exception in the callbacks of its bundle (AgainOnlyOnce).
CallsKept == CallsInOrder /\ AgainOnlyOnce

\* A bundle is sent at most as often as there are timeouts, and one with an
\* authenticating call once, whatever earlier bundles left in the retry count; an ignored
\* answer or a tear-down, which leave it in progress, give it as much again, each time.
AttemptsBounded ==
  attempts <= allowance + IF Authenticates(inProgress) THEN 1 ELSE MaxSendAttempts

\* Once resetCommunication has returned nothing runs any more: the app is not called
\* back and nothing goes out until it initializes the engine again.
ResetIsFinal ==
  [][~isInitialized /\ ~isInitialized' => UNCHANGED <<told, inProgress, packetId, queueThread>>]_vars

\* A marker is never sent, and closes the bundle it stands behind.
NoMarkerInBundle == \A i \in DOMAIN inProgress : inProgress[i].op # "marker"

\* Every call is called back, unless the engine is reset or comes to a stop: the queue
\* has grown to the size of a bundle, of which fillInProgress takes nothing, or an
\* ignored answer has left a bundle that only the next call or heartbeat sends again.
CallQueued(c) == \E i \in DOMAIN messageQueue :
                   messageQueue[i].id = c /\ messageQueue[i].op # "marker"
Answered(c)   == \E i \in DOMAIN answered : answered[i] = c
Stopped       == \/ Len(messageQueue) >= MaxBundleSize
                 \/ queueThread \in Waiting /\ inProgress # <<>>
                 \/ packetId = MaxPackets

EveryCallAnswered ==
  \A c \in 1 .. MaxCalls :
    CallQueued(c) ~> (Answered(c) \/ ~isInitialized \/ tearDown \/ Stopped)

\* resetCommunication's comment: the thread "should die within 100ms max".  It does
\* not if the flag and the notification come between Check and GoWait.
ResetReturns == (app = "join") ~> (app = "idle")

\* The invariant the proofs use.  The queue thread lives as long as the engine is
\* initialized, and a reset is under way only then.
ThreadFitsSession ==
  /\ ~isInitialized => queueThread = "off" /\ app = "idle"
  /\ app = "idle" => ~tearDown

\* Between two attempts of a round the retry count is at least the attempts made in it
\* and below those it has, except before the first one, when it is whatever was left.
AttemptsCounted ==
  /\ queueThread \in {"inner", "sleep"} =>
       attempts <= allowance
         \/ (attempts <= allowance + retryCount /\ retryCount < SendAttempts)
  /\ queueThread = "http" =>
       attempts <= allowance + 1
         \/ (attempts <= allowance + retryCount + 1 /\ retryCount < SendAttempts)
  /\ queueThread \notin {"inner", "sleep", "http"} => attempts <= allowance

EngineInStep ==
  /\ TypeOK
  /\ ThreadFitsSession /\ AttemptsCounted /\ AttemptsBounded /\ NoMarkerInBundle

=============================================================================
