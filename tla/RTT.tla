---------------------------------- MODULE RTT ----------------------------------
(***************************************************************************)
(* The real-time client: RTTComms.                                         *)
(*                                                                         *)
(* enableRTT asks the server for an endpoint; the answer starts a          *)
(* connection thread, which creates the socket, starts a receive thread    *)
(* and sends the CONNECT request; the server's confirmation makes the      *)
(* receive thread start a heartbeat thread.  disableRTT closes the socket  *)
(* and waits for the two threads on a condition variable.  What the app is *)
(* told goes through a queue that runCallbacks empties.                    *)
(*                                                                         *)
(* Every thread is a process of its own: one app thread and, per session   *)
(* (one connection attempt), a connection, a receive and a heartbeat       *)
(* thread.  A step goes from one access to shared state to the next.       *)
(***************************************************************************)
EXTENDS Naturals, Sequences, FiniteSets

CONSTANTS
  MaxEnables,  \* bound: how often the app calls enableRTT
  MaxNews,     \* bound: the length of _callbackEventQueue at which the server sends no more rubbish
  Disciplines  \* pairs [app, server]: what the app dares, and what the server sends

Messages == {"confirm", "event", "rubbish", "hangup"}
Controls == {"again", "impatient", "inEventCallback"}

ASSUME RTTAssumption ==
  /\ MaxEnables \in Nat \ {0}
  /\ MaxNews \in Nat \ {0}
  /\ Disciplines \subseteq [app : SUBSET Controls, server : SUBSET Messages]

Sessions == 1 .. MaxEnables
NoSocket == 0

App     == <<"app", 0>>
Conn(s) == <<"conn", s>>
Recv(s) == <<"recv", s>>
Beat(s) == <<"beat", s>>
Threads == {App} \cup ({"conn", "recv", "beat"} \X Sessions)

Mutex  == {"socket", "heartBeat", "eventQueue"}
Nobody == <<"nobody", 0>>

VARIABLES
  discipline,         \* the one this app and this server follow
  pc,                 \* where each thread is
  holder,             \* who holds each mutex
  socket,             \* _socket: the session whose socket it points to, or NoSocket
  sockets,            \* the sockets themselves, by session
  reading,            \* the socket whose recv() a receive thread is in
  isConnected,        \* _isConnected
  receivingRunning,   \* _receivingRunning
  heartbeatRunning,   \* _heartbeatRunning
  callbackEventQueue, \* _callbackEventQueue
  requests,           \* requestClientConnection calls under way
  sessions,           \* connection threads started so far
  enables,            \* enableRTT calls so far
  phase               \* what the app knows: "off", "waiting" for an answer, "told"

flags    == <<isConnected, receivingRunning, heartbeatRunning>>
pointers == <<socket, sockets, reading>>
appVars  == <<requests, sessions, enables, phase>>
state == <<pc, holder, pointers, flags, callbackEventQueue, appVars>>
vars  == <<discipline, state>>

\* Within closeSocket, or behind it in resetCommunication; "disable" is in front of it.
ClosePc == {"closeLock", "notifyBeat", "checkThreads", "waitThreads", "waiting",
            "woken", "deleteSocket", "clearEvents"}
Pc == ClosePc \cup
      {"idle", "callbacks", "disable",                                    \* app
       "none", "done", "create", "validate", "connected", "startRecv", "greet",  \* connection
       "loop", "recv", "blocked", "confirmed", "pushSuccess",             \* receive
       "pushFailure", "event", "endRecv",
       "startBeat", "checkBeat", "sendBeat", "sleeping", "wakeBeat", "endBeat", "notify"}

TypeOK ==
  /\ discipline \in Disciplines
  /\ pc \in [Threads -> Pc]
  /\ holder \in [Mutex -> Threads \cup {Nobody}]
  /\ socket \in Sessions \cup {NoSocket}
  /\ sockets \in [Sessions -> {"none", "open", "invalid", "closed", "deleted"}]
  /\ reading \in [Sessions -> Sessions \cup {NoSocket}]
  /\ isConnected \in BOOLEAN /\ receivingRunning \in BOOLEAN /\ heartbeatRunning \in BOOLEAN
  /\ callbackEventQueue \in Seq({"success", "failure"})
  /\ requests \in 0 .. MaxEnables /\ sessions \in 0 .. MaxEnables /\ enables \in 0 .. MaxEnables
  /\ phase \in {"off", "waiting", "told"}

Init ==
  /\ discipline \in Disciplines
  /\ pc = [t \in Threads |-> IF t = App THEN "idle" ELSE "none"]
  /\ holder = [m \in Mutex |-> Nobody]
  /\ socket = NoSocket
  /\ sockets = [s \in Sessions |-> "none"]
  /\ reading = [s \in Sessions |-> NoSocket]
  /\ isConnected = FALSE /\ receivingRunning = FALSE /\ heartbeatRunning = FALSE
  /\ callbackEventQueue = <<>>
  /\ requests = 0 /\ sessions = 0 /\ enables = 0
  /\ phase = "off"

-----------------------------------------------------------------------------
(* Threads, mutexes, condition variables *)

At(t, label)  == pc[t] = label
Goto(t, label) == pc' = [pc EXCEPT ![t] = label]

Free(m)       == holder[m] = Nobody
Acquire(m, t) == Free(m) /\ holder' = [holder EXCEPT ![m] = t]
Release(m)    == holder' = [holder EXCEPT ![m] = Nobody]

\* notify_one by t, which goes on at label: a thread that is already asleep wakes
\* up; without one the notification is lost.
NotifyOne(t, label, asleep, awake) ==
  LET sleepers == {u \in Threads : pc[u] = asleep}
  IN  IF sleepers = {} THEN Goto(t, label)
      ELSE \E u \in sleepers : pc' = [pc EXCEPT ![t] = label, ![u] = awake]

-----------------------------------------------------------------------------
(* closeSocket, on whichever thread calls it *)

\* resetCommunication, the way disableRTT, shutdown and the destructor get there: it
\* reads _isConnected, ...
ResetCommunication(t) == isConnected /\ Goto(t, "disable")

\* ... and then clears it, without a mutex: another thread may have read it as well.
ClearConnected(t) ==
  /\ At(t, "disable")
  /\ isConnected' = FALSE
  /\ Goto(t, "closeLock")
  /\ UNCHANGED <<holder, pointers, receivingRunning, heartbeatRunning,
                 callbackEventQueue, appVars>>

\* Where the thread goes on once closeSocket has returned.
Returned(t) == IF t[1] = "conn" THEN "pushFailure" ELSE "clearEvents"

CloseLock(t) ==
  /\ At(t, "closeLock")
  /\ isConnected' = FALSE
  /\ IF socket = NoSocket
     THEN /\ Free("socket")
          /\ Goto(t, Returned(t))
          /\ UNCHANGED <<holder, sockets>>
     ELSE /\ Acquire("socket", t)
          /\ sockets' = [sockets EXCEPT ![socket] = "closed"]
          /\ Goto(t, "notifyBeat")
  /\ UNCHANGED <<socket, reading, receivingRunning, heartbeatRunning,
                 callbackEventQueue, appVars>>

\* Takes and gives back _heartBeatMutex.
CloseNotifyBeat(t) ==
  /\ At(t, "notifyBeat")
  /\ Free("heartBeat")
  /\ NotifyOne(t, "checkThreads", "sleeping", "wakeBeat")
  /\ UNCHANGED <<holder, pointers, flags, callbackEventQueue, appVars>>

\* Mutant: the receive thread is not waited for.
CheckHeartbeatOnly(t) ==
  /\ At(t, "checkThreads")
  /\ Goto(t, IF heartbeatRunning THEN "waitThreads" ELSE "deleteSocket")
  /\ UNCHANGED <<holder, pointers, flags, callbackEventQueue, appVars>>

\* The condition, evaluated with the socket mutex held.
CloseCheckThreads(t) ==
  /\ At(t, "checkThreads")
  /\ Goto(t, IF receivingRunning \/ heartbeatRunning THEN "waitThreads" ELSE "deleteSocket")
  /\ UNCHANGED <<holder, pointers, flags, callbackEventQueue, appVars>>

\* Only from here on does a notification reach the thread.
CloseWait(t) ==
  /\ At(t, "waitThreads")
  /\ Release("socket")
  /\ Goto(t, "waiting")
  /\ UNCHANGED <<pointers, flags, callbackEventQueue, appVars>>

CloseWake(t) ==
  /\ At(t, "woken")
  /\ Acquire("socket", t)
  /\ Goto(t, "checkThreads")
  /\ UNCHANGED <<pointers, flags, callbackEventQueue, appVars>>

CloseDelete(t) ==
  /\ At(t, "deleteSocket")
  /\ sockets' = [sockets EXCEPT ![socket] = "deleted"]
  /\ socket' = NoSocket
  /\ Release("socket")
  /\ Goto(t, Returned(t))
  /\ UNCHANGED <<reading, flags, callbackEventQueue, appVars>>

\* Mutant: the queue is left as it is.
KeepEvents(t) ==
  /\ At(t, "clearEvents")
  /\ Goto(t, IF t = App THEN "idle" ELSE "loop")
  /\ phase' = "off"
  /\ UNCHANGED <<holder, pointers, flags, callbackEventQueue, requests, sessions, enables>>

\* The rest of resetCommunication.
ClearEvents(t) ==
  /\ At(t, "clearEvents")
  /\ Free("eventQueue")
  /\ callbackEventQueue' = <<>>
  /\ Goto(t, IF t = App THEN "idle" ELSE "loop")
  /\ phase' = "off"
  /\ UNCHANGED <<holder, pointers, flags, requests, sessions, enables>>

CloseSocket(t) ==
  \/ ClearConnected(t)
  \/ CloseLock(t) \/ CloseNotifyBeat(t) \/ CloseCheckThreads(t) \/ CloseWait(t)
  \/ CloseWake(t) \/ CloseDelete(t) \/ ClearEvents(t)

-----------------------------------------------------------------------------
(* The app's thread *)

\* A patient app enables again only after an answer and a disable.
EnableRTT ==
  /\ At(App, "idle") /\ phase = "off"
  /\ enables < MaxEnables
  /\ enables > 0 => "again" \in discipline.app
  /\ enables' = enables + 1
  /\ requests' = requests + 1
  /\ phase' = "waiting"
  /\ UNCHANGED <<pc, holder, pointers, flags, callbackEventQueue, sessions>>

\* A patient app waits for the answer to enableRTT first.
DisableRTT ==
  /\ At(App, "idle")
  /\ phase = "waiting" => "impatient" \in discipline.app
  /\ \/ /\ ResetCommunication(App)
        /\ UNCHANGED phase
     \/ /\ ~isConnected
        /\ phase' = "off"
        /\ UNCHANGED pc
  /\ UNCHANGED <<holder, pointers, flags, callbackEventQueue, requests, sessions, enables>>

\* serverCallback with an endpoint: connect() starts a thread.
ServerCallback ==
  /\ At(App, "idle") /\ requests > 0
  /\ requests' = requests - 1
  /\ sessions' = sessions + 1
  /\ Goto(Conn(sessions + 1), "create")
  /\ UNCHANGED <<holder, pointers, flags, callbackEventQueue, enables, phase>>

\* serverError, or no endpoint of the type asked for: the app is told on the spot.
ServerError ==
  /\ At(App, "idle") /\ requests > 0
  /\ requests' = requests - 1
  /\ phase' = IF phase = "waiting" THEN "told" ELSE phase
  /\ UNCHANGED <<pc, holder, pointers, flags, callbackEventQueue, sessions, enables>>

\* runCallbacks holds _eventQueueMutex while the app's callbacks run.
RunCallbacks ==
  /\ At(App, "idle") /\ callbackEventQueue # <<>>
  /\ Acquire("eventQueue", App)
  /\ Goto(App, "callbacks")
  /\ UNCHANGED <<pointers, flags, callbackEventQueue, appVars>>

\* The app must not disable RTT from here: resetCommunication would lock
\* _eventQueueMutex a second time.
RunConnectCallback ==
  /\ At(App, "callbacks") /\ callbackEventQueue # <<>>
  /\ callbackEventQueue' = Tail(callbackEventQueue)
  /\ phase' = IF phase = "waiting" THEN "told" ELSE phase
  /\ UNCHANGED <<pc, holder, pointers, flags, requests, sessions, enables>>

ReturnFromRunCallbacks ==
  /\ At(App, "callbacks") /\ callbackEventQueue = <<>>
  /\ Release("eventQueue")
  /\ Goto(App, "idle")
  /\ UNCHANGED <<pointers, flags, callbackEventQueue, appVars>>

AppRuns ==
  \/ ServerCallback \/ ServerError
  \/ RunCallbacks \/ RunConnectCallback \/ ReturnFromRunCallbacks
  \/ CloseSocket(App)

-----------------------------------------------------------------------------
(* The connection thread *)

Connect(s) ==
  /\ At(Conn(s), "create")
  /\ Free("socket")
  /\ socket' = s
  /\ \E outcome \in {"open", "invalid"} : sockets' = [sockets EXCEPT ![s] = outcome]
  /\ Goto(Conn(s), "validate")
  /\ UNCHANGED <<holder, reading, flags, callbackEventQueue, appVars>>

\* isValid() on whatever _socket points to, without the mutex.
Validate(s) ==
  /\ At(Conn(s), "validate") /\ socket # NoSocket
  /\ Goto(Conn(s), IF sockets[socket] = "open" THEN "connected" ELSE "closeLock")
  /\ UNCHANGED <<holder, pointers, flags, callbackEventQueue, appVars>>

Connected(s) ==
  /\ At(Conn(s), "connected")
  /\ isConnected' = TRUE
  /\ Goto(Conn(s), "startRecv")
  /\ UNCHANGED <<holder, pointers, receivingRunning, heartbeatRunning,
                 callbackEventQueue, appVars>>

StartReceiving(s) ==
  /\ At(Conn(s), "startRecv")
  /\ receivingRunning' = TRUE
  /\ pc' = [pc EXCEPT ![Conn(s)] = "greet", ![Recv(s)] = "loop"]
  /\ UNCHANGED <<holder, pointers, isConnected, heartbeatRunning,
                 callbackEventQueue, appVars>>

\* send() of the CONNECT request; without a connection it drops the message and
\* returns true all the same.
Greet(s) ==
  /\ At(Conn(s), "greet")
  /\ Free("socket")
  /\ isConnected => socket # NoSocket
  /\ Goto(Conn(s), "done")
  /\ UNCHANGED <<holder, pointers, flags, callbackEventQueue, appVars>>

\* failedToConnect
FailedToConnect(t, next) ==
  /\ At(t, "pushFailure")
  /\ Free("eventQueue")
  /\ callbackEventQueue' = Append(callbackEventQueue, "failure")
  /\ Goto(t, next)
  /\ UNCHANGED <<holder, pointers, flags, appVars>>

ConnRuns(s) ==
  \/ Connect(s) \/ Validate(s) \/ Connected(s) \/ StartReceiving(s) \/ Greet(s)
  \/ CloseSocket(Conn(s)) \/ FailedToConnect(Conn(s), "done")

-----------------------------------------------------------------------------
(* The receive thread *)

CheckConnected(s) ==
  /\ At(Recv(s), "loop")
  /\ Goto(Recv(s), IF isConnected THEN "recv" ELSE "endRecv")
  /\ UNCHANGED <<holder, pointers, flags, callbackEventQueue, appVars>>

\* _socket->recv() on whatever _socket points to, without the mutex.
EnterRecv(s) ==
  /\ At(Recv(s), "recv") /\ socket # NoSocket
  /\ reading' = [reading EXCEPT ![s] = socket]
  /\ Goto(Recv(s), "blocked")
  /\ UNCHANGED <<holder, socket, sockets, flags, callbackEventQueue, appVars>>

LeaveRecv(s, label) ==
  /\ At(Recv(s), "blocked")
  /\ reading' = [reading EXCEPT ![s] = NoSocket]
  /\ Goto(Recv(s), label)
  /\ UNCHANGED <<holder, socket, sockets, flags, callbackEventQueue, appVars>>

\* close() makes recv() return an empty message.
RecvOnClosed(s) ==
  /\ At(Recv(s), "blocked") /\ sockets[reading[s]] = "closed"
  /\ LeaveRecv(s, "endRecv")

\* The server answers the CONNECT request, once, and sends nothing before it.
RecvMessage(s) ==
  /\ At(Recv(s), "blocked") /\ sockets[reading[s]] = "open"
  /\ At(Conn(s), "done")
  /\ \/ "confirm" \in discipline.server /\ At(Beat(s), "none") /\ LeaveRecv(s, "confirmed")
     \/ "event" \in discipline.server /\ LeaveRecv(s, "event")
     \/ /\ "rubbish" \in discipline.server /\ Len(callbackEventQueue) < MaxNews
        /\ LeaveRecv(s, "pushFailure")
     \/ "hangup" \in discipline.server /\ LeaveRecv(s, "endRecv")

StartHeartbeat(s) ==
  /\ At(Recv(s), "confirmed")
  /\ heartbeatRunning' = TRUE
  /\ pc' = [pc EXCEPT ![Recv(s)] = "pushSuccess", ![Beat(s)] = "startBeat"]
  /\ UNCHANGED <<holder, pointers, isConnected, receivingRunning,
                 callbackEventQueue, appVars>>

PushSuccess(s) ==
  /\ At(Recv(s), "pushSuccess")
  /\ Free("eventQueue")
  /\ callbackEventQueue' = Append(callbackEventQueue, "success")
  /\ Goto(Recv(s), "loop")
  /\ UNCHANGED <<holder, pointers, flags, appVars>>

\* rttCallback runs on the receive thread.
RunEventCallback(s) ==
  /\ At(Recv(s), "event")
  /\ \/ Goto(Recv(s), "loop")
     \/ "inEventCallback" \in discipline.app /\ ResetCommunication(Recv(s))
  /\ UNCHANGED <<holder, pointers, flags, callbackEventQueue, appVars>>

\* Mutant: nobody is notified.
EndSilently(s) ==
  /\ At(Recv(s), "endRecv")
  /\ Free("socket")
  /\ receivingRunning' = FALSE
  /\ Goto(Recv(s), "done")
  /\ UNCHANGED <<holder, pointers, isConnected, heartbeatRunning,
                 callbackEventQueue, appVars>>

\* The flag and the notification, both under the socket mutex.
EndReceiving(s) ==
  /\ At(Recv(s), "endRecv")
  /\ Free("socket")
  /\ receivingRunning' = FALSE
  /\ NotifyOne(Recv(s), "done", "waiting", "woken")
  /\ UNCHANGED <<holder, pointers, isConnected, heartbeatRunning,
                 callbackEventQueue, appVars>>

RecvRuns(s) ==
  \/ CheckConnected(s) \/ EnterRecv(s) \/ RecvOnClosed(s)
  \/ StartHeartbeat(s) \/ PushSuccess(s) \/ RunEventCallback(s) \/ EndReceiving(s)
  \/ CloseSocket(Recv(s)) \/ FailedToConnect(Recv(s), "loop")

-----------------------------------------------------------------------------
(* The heartbeat thread *)

BeatStart(s) ==
  /\ At(Beat(s), "startBeat") \/ At(Beat(s), "wakeBeat")
  /\ Acquire("heartBeat", Beat(s))
  /\ Goto(Beat(s), "checkBeat")
  /\ UNCHANGED <<pointers, flags, callbackEventQueue, appVars>>

\* The loop: stop, sleep until the next beat is due, or send it.
BeatLoop(s) ==
  /\ At(Beat(s), "checkBeat")
  /\ \/ ~isConnected /\ Goto(Beat(s), "endBeat") /\ UNCHANGED holder
     \/ isConnected /\ Goto(Beat(s), "sleeping") /\ Release("heartBeat")
     \/ isConnected /\ Goto(Beat(s), "sendBeat") /\ UNCHANGED holder
  /\ UNCHANGED <<pointers, flags, callbackEventQueue, appVars>>

BeatTimeout(s) ==
  /\ At(Beat(s), "sleeping")
  /\ Goto(Beat(s), "wakeBeat")
  /\ UNCHANGED <<holder, pointers, flags, callbackEventQueue, appVars>>

\* send(), with _heartBeatMutex held.
SendBeat(s) ==
  /\ At(Beat(s), "sendBeat")
  /\ Free("socket")
  /\ isConnected => socket # NoSocket
  /\ Goto(Beat(s), "checkBeat")
  /\ UNCHANGED <<holder, pointers, flags, callbackEventQueue, appVars>>

\* The flag and the notification, without the socket mutex.
EndBeat(s) ==
  /\ At(Beat(s), "endBeat")
  /\ heartbeatRunning' = FALSE
  /\ Goto(Beat(s), "notify")
  /\ UNCHANGED <<holder, pointers, isConnected, receivingRunning,
                 callbackEventQueue, appVars>>

NotifyThreads(s) ==
  /\ At(Beat(s), "notify")
  /\ Release("heartBeat")
  /\ NotifyOne(Beat(s), "done", "waiting", "woken")
  /\ UNCHANGED <<pointers, flags, callbackEventQueue, appVars>>

BeatRuns(s) ==
  \/ BeatStart(s) \/ BeatLoop(s) \/ BeatTimeout(s) \/ SendBeat(s)
  \/ EndBeat(s) \/ NotifyThreads(s)

-----------------------------------------------------------------------------
Runs == \/ AppRuns
        \/ \E s \in Sessions : ConnRuns(s) \/ RecvRuns(s) \/ BeatRuns(s)

Next == /\ \/ EnableRTT \/ DisableRTT
           \/ \E s \in Sessions : RecvMessage(s)
           \/ Runs
        /\ UNCHANGED discipline

Spec == Init /\ [][Next]_vars

-----------------------------------------------------------------------------
(* Safety *)

Live(p) == p # NoSocket /\ sockets[p] # "deleted"

\* A patient app waits for the answer to enableRTT before it disables.
Patient == discipline.app \cap {"impatient", "inEventCallback"} = {}

\* Only the app's own thread disables RTT, never an event callback.  With both, two
\* threads may be in closeSocket, and the receive thread waits there for itself.
DisablesItself == "inEventCallback" \notin discipline.app

\* Until a CONNECT reply has come there is no heartbeat thread.
Unconfirmed == \A s \in Sessions : At(Beat(s), "none")

\* No receive thread is inside recv() of a socket that closeSocket has deleted: "We
\* wait for the recv/send threads to shutdown" first.
ReceiverHoldsSocket == \A s \in Sessions : At(Recv(s), "blocked") => Live(reading[s])

\* No thread follows _socket to a socket that is gone: the connection and the receive
\* thread read the pointer without the mutex, send() relies on _isConnected.
SocketOutlivesItsUsers ==
  /\ ReceiverHoldsSocket
  /\ \A s \in Sessions :
       /\ At(Conn(s), "validate") \/ At(Recv(s), "recv") => Live(socket)
       /\ At(Conn(s), "greet") \/ At(Beat(s), "sendBeat") =>
            (Free("socket") /\ isConnected => Live(socket))

\* While RTT is off, before the first enableRTT and after a disableRTT, the client
\* does not connect.
DisabledStaysDisabled == phase = "off" => ~isConnected

\* Once disableRTT has returned to a patient app nothing of the session is left: no
\* news for the app, no socket, no thread that still does anything.
NothingOutlivesDisable ==
  Patient /\ phase = "off" /\ At(App, "idle") =>
    /\ callbackEventQueue = <<>> /\ socket = NoSocket
    /\ ~receivingRunning /\ ~heartbeatRunning
    /\ \A s \in Sessions : /\ At(Recv(s), "none") \/ At(Recv(s), "done")
                           /\ pc[Beat(s)] \in {"none", "notify", "done"}

\* The mutex a thread needs for its next step.
Wants(t) ==
  CASE pc[t] \in {"closeLock", "woken", "create", "greet", "endRecv", "sendBeat"} -> "socket"
    [] pc[t] \in {"notifyBeat", "startBeat", "wakeBeat"} -> "heartBeat"
    [] pc[t] \in {"clearEvents", "pushSuccess", "pushFailure"} -> "eventQueue"
    [] OTHER -> "none"

WaitsFor(t, u) == Wants(t) \in Mutex /\ holder[Wants(t)] = u

\* No two threads hold each the mutex the other needs: closeSocket takes
\* _heartBeatMutex inside _socketMutex, the heartbeat thread the other way round.
LocksNeverCross == \A t, u \in Threads : t # u => ~(WaitsFor(t, u) /\ WaitsFor(u, t))

\* While a thread waits in closeSocket for the threads to shut down, one of them is
\* still on its way and will wake it.  This is so for the receive thread, if it does
\* not wait there itself; a heartbeat thread may have notified too early.
WaitIsWoken ==
  Unconfirmed /\ DisablesItself => \A t \in Threads : At(t, "waiting") =>
    \E s \in Sessions : pc[Recv(s)] \notin {"none", "done", "waiting"}

-----------------------------------------------------------------------------
(* The inductive invariant behind these, for an app that disables on its own thread, and
   enables again only if it is patient: one session at a time *)

Quiet(s) ==
  /\ pc[Conn(s)] \in {"none", "done"} /\ pc[Recv(s)] \in {"none", "done"}
  /\ pc[Beat(s)] \in {"none", "notify", "done"}

AllQuiet ==
  /\ \A s \in Sessions : Quiet(s)
  /\ socket = NoSocket /\ ~isConnected /\ ~receivingRunning /\ ~heartbeatRunning
  /\ callbackEventQueue = <<>>

LocksHeld ==
  \A t \in Threads :
    /\ holder["socket"] = t <=>
         pc[t] \in {"notifyBeat", "checkThreads", "waitThreads", "deleteSocket"}
    /\ holder["heartBeat"] = t <=> pc[t] \in {"checkBeat", "sendBeat", "endBeat", "notify"}
    /\ holder["eventQueue"] = t <=> pc[t] = "callbacks"

\* What each kind of thread runs.  A receive thread that closes the socket waits for
\* itself, if the app has not been quicker.
ThreadsPlaced ==
  /\ pc[App] \in ClosePc \cup {"idle", "callbacks", "disable"}
  /\ \A s \in Sessions :
       /\ pc[Conn(s)] \in (ClosePc \ {"clearEvents"}) \cup
            {"none", "done", "create", "validate", "connected", "startRecv", "greet",
             "pushFailure"}
       /\ pc[Recv(s)] \in (ClosePc \ {"deleteSocket", "clearEvents"}) \cup
            {"none", "done", "loop", "recv", "blocked", "confirmed", "pushSuccess",
             "pushFailure", "event", "disable", "endRecv"}
       /\ pc[Beat(s)] \in {"none", "done", "startBeat", "checkBeat", "sendBeat", "sleeping",
                           "wakeBeat", "endBeat", "notify"}

\* Only the last session is active.
OneSession ==
  /\ \A s \in Sessions : s # sessions => Quiet(s)
  /\ \A s \in Sessions : s > sessions =>
       /\ pc[Conn(s)] = "none" /\ pc[Recv(s)] = "none" /\ pc[Beat(s)] = "none"
  /\ sessions = 0 => AllQuiet /\ pc[App] \notin ClosePc

\* A session is closed once, and from then on it is not connected.
OneCloser ==
  /\ \A t, u \in Threads : pc[t] \in ClosePc /\ pc[u] \in ClosePc => t = u
  /\ \A t \in Threads : pc[t] \in ClosePc =>
       /\ ~isConnected
       /\ IF pc[t] = "clearEvents" THEN socket = NoSocket ELSE socket # NoSocket
  /\ pc[App] = "disable" => isConnected
  /\ \A s \in Sessions : pc[Recv(s)] \notin ClosePc \cup {"disable"}

\* How far the connection, the receive and the heartbeat thread of a session are.
SessionInStep(s) ==
  /\ pc[Conn(s)] # "none"
  /\ pc[Conn(s)] \in {"create", "pushFailure"} => socket = NoSocket
  /\ pc[Conn(s)] \in {"validate", "connected"} => socket = s
  /\ pc[Conn(s)] = "connected" => sockets[s] = "open"
  /\ pc[Conn(s)] \in ClosePc \cup {"create", "validate", "connected", "pushFailure"} =>
       /\ ~isConnected /\ pc[Recv(s)] = "none"
       /\ pc[App] \notin ClosePc
  /\ pc[Conn(s)] = "startRecv" => pc[Recv(s)] = "none"
  /\ pc[Conn(s)] = "greet" => pc[Recv(s)] # "none"
  /\ pc[Conn(s)] # "done" =>
       /\ pc[Recv(s)] \in {"none", "loop", "recv", "blocked", "endRecv", "done"}
       /\ pc[Beat(s)] = "none" /\ callbackEventQueue = <<>>
  /\ pc[Conn(s)] = "done" /\ pc[Recv(s)] = "none" =>
       /\ socket = NoSocket /\ ~isConnected /\ pc[App] \notin ClosePc
       /\ Len(callbackEventQueue) <= 1
  /\ pc[Beat(s)] # "none" => pc[Recv(s)] \notin {"none", "confirmed"}
  /\ pc[Recv(s)] = "blocked" => reading[s] = s
  /\ isConnected => socket = s /\ sockets[s] = "open"
  /\ receivingRunning <=> pc[Recv(s)] \notin {"none", "done"}
  /\ heartbeatRunning <=> pc[Beat(s)] \notin {"none", "notify", "done"}
  /\ socket # NoSocket => socket = s /\ sockets[s] \in {"open", "invalid", "closed"}
  /\ \/ socket = NoSocket /\ pc[Conn(s)] # "create"
     \/ \E t \in Threads : pc[t] = "deleteSocket"
     => /\ ~isConnected
        /\ pc[Recv(s)] \in {"none", "loop", "endRecv", "done"}
        /\ pc[Beat(s)] \in {"none", "notify", "done"}
  /\ pc[App] \in {"waitThreads", "waiting"} =>
       pc[Recv(s)] \notin {"none", "done"} \/ pc[Beat(s)] # "none"
  /\ pc[Conn(s)] \notin {"waitThreads", "waiting", "woken"}

\* The app asks for a session only when nothing is left of the one before.
RequestsInStep ==
  /\ requests > 0 => requests = 1 /\ AllQuiet /\ pc[App] = "idle"
  /\ sessions + requests <= enables
  /\ "again" \notin discipline.app => enables <= 1

PatientInStep ==
  /\ phase = "off" => AllQuiet /\ requests = 0 /\ pc[App] = "idle"
  /\ phase = "waiting" => pc[App] \notin ClosePc \cup {"disable"}
  /\ phase = "told" =>
       /\ requests = 0
       /\ ~isConnected /\ pc[App] \notin ClosePc => AllQuiet
  /\ \A s \in Sessions : s = sessions =>
       /\ phase = "told" => pc[Conn(s)] = "done"
       /\ phase = "waiting" /\ requests = 0 /\ ~isConnected =>
            pc[Recv(s)] = "none" /\ pc[Conn(s)] \notin {"startRecv", "greet"}
       /\ pc[App] \in ClosePc => pc[Recv(s)] # "none"
       /\ pc[App] \in {"deleteSocket", "clearEvents"} => pc[Recv(s)] = "done"

SessionsInStep ==
  /\ OneSession /\ OneCloser
  /\ \A s \in Sessions : s = sessions => SessionInStep(s)
  /\ RequestsInStep
  /\ Patient => PatientInStep

ThreadsInStep ==
  /\ TypeOK
  /\ LocksHeld /\ ThreadsPlaced
  /\ DisablesItself => SessionsInStep

=============================================================================
