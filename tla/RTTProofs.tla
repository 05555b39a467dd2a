------------------------------- MODULE RTTProofs -------------------------------
(***************************************************************************)
(* Proofs about RTT, for every number of sessions and of messages waiting  *)
(* for the app: for an app that disables RTT on its own thread, and        *)
(* enables it again only if it is patient, no thread uses a socket that is *)
(* gone, and what disableRTT leaves.                                       *)
(***************************************************************************)
EXTENDS RTT, TLAPS

\* The invariant of an app that disables on its own thread.
InStep ==
  /\ DisablesItself
  /\ TypeOK /\ LocksHeld /\ ThreadsPlaced
  /\ OneSession /\ OneCloser
  /\ \A s \in Sessions : s = sessions => SessionInStep(s)
  /\ RequestsInStep
  /\ Patient => PatientInStep

-----------------------------------------------------------------------------
(* The threads *)

LEMMA ThreadNames ==
  /\ App \in Threads
  /\ \A s \in Sessions : Conn(s) \in Threads /\ Recv(s) \in Threads /\ Beat(s) \in Threads
  /\ \A t \in Threads : t = App \/ \E s \in Sessions : t \in {Conn(s), Recv(s), Beat(s)}
  /\ \A s, u \in Sessions :
       /\ App \notin {Conn(s), Recv(s), Beat(s)}
       /\ Conn(s) # Recv(u) /\ Conn(s) # Beat(u) /\ Recv(s) # Beat(u)
       /\ Conn(s) = Conn(u) => s = u
       /\ Recv(s) = Recv(u) => s = u
       /\ Beat(s) = Beat(u) => s = u
  /\ Nobody \notin Threads
BY DEF Threads, App, Conn, Recv, Beat, Nobody

LEMMA ReturnedTo ==
  /\ Returned(App) = "clearEvents"
  /\ \A s \in Sessions : Returned(Conn(s)) = "pushFailure"
BY DEF Returned, App, Conn

\* What a step does to the threads.
Moves(t, label) == pc'[t] = label /\ \A u \in Threads \ {t} : pc'[u] = pc[u]

LEMMA GotoMoves ==
  ASSUME TypeOK, NEW t \in Threads, NEW label, Goto(t, label)
  PROVE  Moves(t, label)
BY DEF TypeOK, Goto, Moves

\* Only sleepers may wake, and a lone sleeper does.
Notifies(t, label, asleep, awake) ==
  /\ pc'[t] = label
  /\ \A u \in Threads \ {t} : \/ pc'[u] = pc[u]
                              \/ pc[u] = asleep /\ pc'[u] = awake
  /\ \A u \in Threads \ {t} :
       pc[u] = asleep /\ (\A v \in Threads : pc[v] = asleep => v = u) => pc'[u] = awake

LEMMA NotifyOneNotifies ==
  ASSUME TypeOK, NEW t \in Threads, NEW label, NEW asleep, NEW awake, pc[t] # asleep,
         NotifyOne(t, label, asleep, awake)
  PROVE  Notifies(t, label, asleep, awake)
<1>1. CASE {u \in Threads : pc[u] = asleep} = {}
  BY <1>1 DEF TypeOK, NotifyOne, Goto, Notifies
<1>2. CASE {u \in Threads : pc[u] = asleep} # {}
  <2>1. PICK u \in Threads : pc[u] = asleep /\ pc' = [pc EXCEPT ![t] = label, ![u] = awake]
    BY <1>2 DEF NotifyOne
  <2>. QED BY <2>1 DEF TypeOK, Notifies
<1>. QED BY <1>1, <1>2

LEMMA AppendLength ==
  ASSUME TypeOK, NEW news \in {"success", "failure"}
  PROVE  /\ Len(Append(callbackEventQueue, news)) = Len(callbackEventQueue) + 1
         /\ Len(<<>>) = 0
         /\ Append(callbackEventQueue, news) # <<>>
BY DEF TypeOK

\* Who closes a session, and what that leaves the others.
LEMMA CloserNamed ==
  ASSUME InStep, NEW t \in Threads, pc[t] \in ClosePc
  PROVE  \E s \in Sessions :
           /\ s = sessions /\ SessionInStep(s) /\ s # NoSocket
           /\ t \in {App, Conn(s), Recv(s)}
           /\ ~isConnected /\ requests = 0
           /\ \A u \in Threads \ {t} : pc[u] \notin ClosePc
           /\ pc[t] # "clearEvents" => socket = s
           /\ pc[t] = "clearEvents" => t = App
           /\ pc[t] = "deleteSocket" => t # Recv(s)
<1>. USE ThreadNames DEF InStep, DisablesItself
<1>1. sessions \in Sessions /\ sessions # NoSocket /\ SessionInStep(sessions)
  BY DEF TypeOK, OneSession, AllQuiet, Quiet, Sessions, NoSocket, ThreadsPlaced, ClosePc
<1>2. t \in {App, Conn(sessions), Recv(sessions)}
  BY <1>1 DEF OneSession, Quiet, ThreadsPlaced, ClosePc
<1>3. ~isConnected /\ \A u \in Threads \ {t} : pc[u] \notin ClosePc
  BY DEF OneCloser
<1>4. requests = 0
  BY <1>1, <1>2 DEF TypeOK, RequestsInStep, AllQuiet, Quiet, ClosePc
<1>5. /\ pc[t] # "clearEvents" => socket = sessions
      /\ pc[t] = "clearEvents" => t = App
      /\ pc[t] = "deleteSocket" => t # Recv(sessions)
  BY <1>1, <1>2 DEF OneCloser, SessionInStep, ThreadsPlaced, ClosePc
<1>. QED BY <1>1, <1>2, <1>3, <1>4, <1>5

\* A connection, a message for the app and a running thread are the session's.
LEMMA OpenSession ==
  ASSUME InStep, isConnected \/ callbackEventQueue # <<>>
  PROVE  /\ sessions \in Sessions /\ SessionInStep(sessions) /\ sessions # NoSocket
         /\ isConnected => socket = sessions
BY DEF InStep, TypeOK, OneSession, AllQuiet, Sessions, NoSocket, SessionInStep

-----------------------------------------------------------------------------
(* closeSocket *)

\* The one thread that has read _isConnected is the app's.
LEMMA ClearConnectedKeeps ==
  ASSUME InStep, NEW t \in Threads, ClearConnected(t), UNCHANGED discipline
  PROVE  InStep'
<1>. USE ThreadNames DEF InStep, DisablesItself
<1>1. t = App /\ pc[App] = "disable"
  BY DEF ClearConnected, At, OneCloser, ThreadsPlaced, ClosePc
<1>2. Moves(App, "closeLock")
  BY <1>1, GotoMoves DEF ClearConnected
<1>3. TypeOK'
  BY DEF TypeOK, ClearConnected, Goto, At, Pc, ClosePc, pointers, appVars
<1>4. /\ isConnected /\ ~isConnected'
      /\ UNCHANGED <<discipline, holder, socket, sockets, reading,
                     receivingRunning, heartbeatRunning, callbackEventQueue,
                     requests, sessions, enables, phase>>
  BY <1>1 DEF OneCloser, ClearConnected, pointers, appVars
<1>5. sessions \in Sessions /\ SessionInStep(sessions) /\ socket = sessions /\ sessions # NoSocket
  BY <1>4, OpenSession
<1>6. \A u \in Threads : pc[u] \notin ClosePc
  BY <1>4 DEF OneCloser
<1>. USE <1>1, <1>2, <1>4, <1>5, <1>6 DEF Moves, ClosePc
<1>7. LocksHeld' /\ ThreadsPlaced'
  BY DEF LocksHeld, ThreadsPlaced
<1>8. OneSession'
  BY DEF OneSession, AllQuiet, Quiet
<1>9. OneCloser'
  BY DEF OneCloser
<1>10. \A u \in Sessions : u = sessions => SessionInStep(u)'
  BY DEF SessionInStep
<1>11. RequestsInStep' /\ (Patient => PatientInStep')
  BY DEF TypeOK, RequestsInStep, PatientInStep, AllQuiet, Quiet, SessionInStep,
         Patient, OneSession
<1>. QED BY <1>3, <1>7, <1>8, <1>9, <1>10, <1>11 DEF Patient

LEMMA CloseLockKeeps ==
  ASSUME InStep, NEW t \in Threads, CloseLock(t), UNCHANGED discipline
  PROVE  InStep'
<1>. USE ThreadNames DEF InStep, DisablesItself
<1>1. PICK s \in Sessions :
        /\ s = sessions /\ s # NoSocket /\ t \in {App, Conn(s), Recv(s)}
        /\ ~isConnected /\ requests = 0
        /\ \A u \in Threads \ {t} : pc[u] \notin ClosePc
        /\ pc[t] # "clearEvents" => socket = s
        /\ pc[t] = "clearEvents" => t = App
        /\ pc[t] = "deleteSocket" => t # Recv(s)
  BY CloserNamed DEF CloseLock, At, ClosePc
<1>2. Moves(t, "notifyBeat") /\ pc[t] = "closeLock"
  BY <1>1, GotoMoves DEF CloseLock, At, ClosePc
<1>3. TypeOK'
  <2>1. pc' \in [Threads -> Pc]
    BY <1>1 DEF TypeOK, CloseLock, At, Goto, Pc, ClosePc
  <2>2. holder' \in [Mutex -> Threads \cup {Nobody}]
    BY <1>1 DEF TypeOK, CloseLock, Acquire, At
  <2>3. sockets' \in [Sessions -> {"none", "open", "invalid", "closed", "deleted"}]
    BY <1>1 DEF TypeOK, CloseLock, At
  <2>. QED BY <2>1, <2>2, <2>3 DEF TypeOK, CloseLock, appVars
<1>4. /\ ~isConnected'
      /\ holder["socket"] = Nobody /\ holder'["socket"] = t
      /\ holder'["heartBeat"] = holder["heartBeat"] /\ holder'["eventQueue"] = holder["eventQueue"]
      /\ sockets'[s] = "closed"
      /\ UNCHANGED <<discipline, socket, reading, receivingRunning,
                     heartbeatRunning, callbackEventQueue, requests, sessions,
                     enables, phase>>
  BY <1>1, <1>2 DEF TypeOK, CloseLock, At, Free, Acquire, appVars, Mutex
<1>. USE <1>1, <1>2, <1>4 DEF Moves, ClosePc
<1>5. LocksHeld' /\ ThreadsPlaced'
  BY DEF LocksHeld, ThreadsPlaced
<1>6. OneSession'
  BY DEF OneSession, AllQuiet, Quiet
<1>7. OneCloser'
  BY DEF OneCloser
<1>8. SessionInStep(s)'
  BY DEF SessionInStep
<1>9. RequestsInStep' /\ (Patient => PatientInStep')
  BY DEF RequestsInStep, PatientInStep, AllQuiet, Quiet
<1>. QED BY <1>3, <1>5, <1>6, <1>7, <1>8, <1>9 DEF Patient

LEMMA CloseNotifyBeatKeeps ==
  ASSUME InStep, NEW t \in Threads, CloseNotifyBeat(t), UNCHANGED discipline
  PROVE  InStep'
<1>. USE ThreadNames DEF InStep, DisablesItself
<1>1. PICK s \in Sessions :
        /\ s = sessions /\ s # NoSocket /\ t \in {App, Conn(s), Recv(s)}
        /\ ~isConnected /\ requests = 0
        /\ \A u \in Threads \ {t} : pc[u] \notin ClosePc
        /\ pc[t] # "clearEvents" => socket = s
        /\ pc[t] = "clearEvents" => t = App
        /\ pc[t] = "deleteSocket" => t # Recv(s)
  BY CloserNamed DEF CloseNotifyBeat, At, ClosePc
<1>2. TypeOK'
  BY DEF TypeOK, CloseNotifyBeat, NotifyOne, Goto, At, Pc, ClosePc, pointers, flags,
         appVars
<1>3. Notifies(t, "checkThreads", "sleeping", "wakeBeat") /\ pc[t] = "notifyBeat"
  BY NotifyOneNotifies DEF CloseNotifyBeat, At
<1>4. UNCHANGED <<discipline, holder, socket, sockets, reading,
                     isConnected, receivingRunning, heartbeatRunning,
                     callbackEventQueue, requests, sessions, enables, phase>>
  BY DEF TypeOK, CloseNotifyBeat, At, Free, pointers, flags, appVars
<1>. USE <1>1, <1>3, <1>4 DEF Notifies, ClosePc
<1>5. LocksHeld' /\ ThreadsPlaced'
  BY DEF LocksHeld, ThreadsPlaced
<1>6. OneSession'
  BY DEF OneSession, AllQuiet, Quiet
<1>7. OneCloser'
  BY DEF OneCloser
<1>8. SessionInStep(s)'
  BY DEF SessionInStep
<1>9. RequestsInStep' /\ (Patient => PatientInStep')
  BY DEF RequestsInStep, PatientInStep, AllQuiet, Quiet
<1>. QED BY <1>2, <1>5, <1>6, <1>7, <1>8, <1>9 DEF Patient

LEMMA CloseCheckThreadsKeeps ==
  ASSUME InStep, NEW t \in Threads, CloseCheckThreads(t), UNCHANGED
         discipline
  PROVE  InStep'
<1>. USE ThreadNames DEF InStep, DisablesItself
<1>1. PICK s \in Sessions :
        /\ s = sessions /\ s # NoSocket /\ t \in {App, Conn(s), Recv(s)}
        /\ ~isConnected /\ requests = 0
        /\ \A u \in Threads \ {t} : pc[u] \notin ClosePc
        /\ pc[t] # "clearEvents" => socket = s
        /\ pc[t] = "clearEvents" => t = App
        /\ pc[t] = "deleteSocket" => t # Recv(s)
  BY CloserNamed DEF CloseCheckThreads, At, ClosePc
<1>2. TypeOK'
  BY DEF TypeOK, CloseCheckThreads, Goto, At, Pc, ClosePc, pointers, flags, appVars
<1>3. PICK label \in {"waitThreads", "deleteSocket"} :
        /\ pc[t] = "checkThreads" /\ Moves(t, label)
        /\ label = "waitThreads" <=> (receivingRunning \/ heartbeatRunning)
  BY GotoMoves DEF CloseCheckThreads, At
<1>4. UNCHANGED <<discipline, holder, socket, sockets, reading,
                     isConnected, receivingRunning, heartbeatRunning,
                     callbackEventQueue, requests, sessions, enables, phase>>
  BY DEF TypeOK, CloseCheckThreads, At, pointers, flags, appVars
<1>. USE <1>1, <1>3, <1>4 DEF Moves, ClosePc
<1>5. label = "deleteSocket" => t # Recv(s)
  BY DEF SessionInStep
<1>. USE <1>5
<1>6. LocksHeld' /\ ThreadsPlaced'
  BY DEF LocksHeld, ThreadsPlaced
<1>7. OneSession'
  BY DEF OneSession, AllQuiet, Quiet
<1>8. OneCloser'
  BY DEF OneCloser
<1>9. SessionInStep(s)'
  BY DEF SessionInStep
<1>10. RequestsInStep' /\ (Patient => PatientInStep')
  BY DEF TypeOK, RequestsInStep, PatientInStep, AllQuiet, Quiet, SessionInStep
<1>. QED BY <1>2, <1>6, <1>7, <1>8, <1>9, <1>10 DEF Patient

LEMMA CloseWaitKeeps ==
  ASSUME InStep, NEW t \in Threads, CloseWait(t), UNCHANGED discipline
  PROVE  InStep'
<1>. USE ThreadNames DEF InStep, DisablesItself
<1>1. PICK s \in Sessions :
        /\ s = sessions /\ s # NoSocket /\ t \in {App, Conn(s), Recv(s)}
        /\ ~isConnected /\ requests = 0
        /\ \A u \in Threads \ {t} : pc[u] \notin ClosePc
        /\ pc[t] # "clearEvents" => socket = s
        /\ pc[t] = "clearEvents" => t = App
        /\ pc[t] = "deleteSocket" => t # Recv(s)
  BY CloserNamed DEF CloseWait, At, ClosePc
<1>2. TypeOK'
  BY DEF TypeOK, CloseWait, Goto, At, Pc, ClosePc, pointers, flags, appVars, Mutex,
         Release
<1>3. Moves(t, "waiting") /\ pc[t] = "waitThreads"
  BY GotoMoves DEF CloseWait, At
<1>4. /\ holder'["socket"] = Nobody
      /\ holder'["heartBeat"] = holder["heartBeat"] /\ holder'["eventQueue"] = holder["eventQueue"]
      /\ UNCHANGED <<discipline, socket, sockets, reading, isConnected,
                     receivingRunning, heartbeatRunning, callbackEventQueue,
                     requests, sessions, enables, phase>>
  BY DEF TypeOK, CloseWait, At, Release, pointers, flags, appVars, Mutex
<1>. USE <1>1, <1>3, <1>4 DEF Moves, ClosePc
<1>5. LocksHeld' /\ ThreadsPlaced'
  BY DEF LocksHeld, ThreadsPlaced
<1>6. OneSession'
  BY DEF OneSession, AllQuiet, Quiet
<1>7. OneCloser'
  BY DEF OneCloser
<1>8. SessionInStep(s)'
  BY DEF SessionInStep
<1>9. RequestsInStep' /\ (Patient => PatientInStep')
  BY DEF RequestsInStep, PatientInStep, AllQuiet, Quiet
<1>. QED BY <1>2, <1>5, <1>6, <1>7, <1>8, <1>9 DEF Patient

LEMMA CloseWakeKeeps ==
  ASSUME InStep, NEW t \in Threads, CloseWake(t), UNCHANGED discipline
  PROVE  InStep'
<1>. USE ThreadNames DEF InStep, DisablesItself
<1>1. PICK s \in Sessions :
        /\ s = sessions /\ s # NoSocket /\ t \in {App, Conn(s), Recv(s)}
        /\ ~isConnected /\ requests = 0
        /\ \A u \in Threads \ {t} : pc[u] \notin ClosePc
        /\ pc[t] # "clearEvents" => socket = s
        /\ pc[t] = "clearEvents" => t = App
        /\ pc[t] = "deleteSocket" => t # Recv(s)
  BY CloserNamed DEF CloseWake, At, ClosePc
<1>2. TypeOK'
  BY DEF TypeOK, CloseWake, Goto, At, Pc, ClosePc, pointers, flags, appVars, Mutex,
         Acquire
<1>3. Moves(t, "checkThreads") /\ pc[t] = "woken"
  BY GotoMoves DEF CloseWake, At
<1>4. /\ holder["socket"] = Nobody /\ holder'["socket"] = t
      /\ holder'["heartBeat"] = holder["heartBeat"] /\ holder'["eventQueue"] = holder["eventQueue"]
      /\ UNCHANGED <<discipline, socket, sockets, reading, isConnected,
                     receivingRunning, heartbeatRunning, callbackEventQueue,
                     requests, sessions, enables, phase>>
  BY DEF TypeOK, CloseWake, At, Free, Acquire, pointers, flags, appVars, Mutex
<1>. USE <1>1, <1>3, <1>4 DEF Moves, ClosePc
<1>5. LocksHeld' /\ ThreadsPlaced'
  BY DEF LocksHeld, ThreadsPlaced
<1>6. OneSession'
  BY DEF OneSession, AllQuiet, Quiet
<1>7. OneCloser'
  BY DEF OneCloser
<1>8. SessionInStep(s)'
  BY DEF SessionInStep
<1>9. RequestsInStep' /\ (Patient => PatientInStep')
  BY DEF RequestsInStep, PatientInStep, AllQuiet, Quiet
<1>. QED BY <1>2, <1>5, <1>6, <1>7, <1>8, <1>9 DEF Patient

LEMMA CloseDeleteKeeps ==
  ASSUME InStep, NEW t \in Threads, CloseDelete(t), UNCHANGED discipline
  PROVE  InStep'
<1>. USE ThreadNames DEF InStep, DisablesItself
<1>1. PICK s \in Sessions :
        /\ s = sessions /\ s # NoSocket /\ t \in {App, Conn(s), Recv(s)}
        /\ ~isConnected /\ requests = 0
        /\ \A u \in Threads \ {t} : pc[u] \notin ClosePc
        /\ pc[t] # "clearEvents" => socket = s
        /\ pc[t] = "clearEvents" => t = App
        /\ pc[t] = "deleteSocket" => t # Recv(s)
  BY CloserNamed DEF CloseDelete, At, ClosePc
<1>2. TypeOK'
  BY DEF TypeOK, CloseDelete, Goto, At, Pc, ClosePc, flags, appVars, Mutex, Release,
         Returned
<1>3. /\ pc[t] = "deleteSocket" /\ Moves(t, Returned(t))
      /\ \/ t = App /\ Returned(t) = "clearEvents"
         \/ t = Conn(s) /\ Returned(t) = "pushFailure"
  BY <1>1, GotoMoves, ReturnedTo DEF CloseDelete, At
<1>4. /\ holder'["socket"] = Nobody
      /\ holder'["heartBeat"] = holder["heartBeat"] /\ holder'["eventQueue"] = holder["eventQueue"]
      /\ socket' = NoSocket /\ sockets'[s] = "deleted"
      /\ UNCHANGED <<discipline, reading, isConnected, receivingRunning,
                     heartbeatRunning, callbackEventQueue, requests, sessions,
                     enables, phase>>
  BY <1>1, <1>3 DEF TypeOK, CloseDelete, At, Release, flags, appVars, Mutex
<1>. USE <1>1, <1>3, <1>4 DEF Moves, ClosePc
<1>5. LocksHeld' /\ ThreadsPlaced'
  BY DEF LocksHeld, ThreadsPlaced
<1>6. OneSession'
  BY DEF OneSession, AllQuiet, Quiet
<1>7. OneCloser'
  BY DEF OneCloser
<1>8. SessionInStep(s)'
  BY DEF SessionInStep
<1>9. RequestsInStep' /\ (Patient => PatientInStep')
  BY DEF RequestsInStep, PatientInStep, AllQuiet, Quiet
<1>. QED BY <1>2, <1>5, <1>6, <1>7, <1>8, <1>9 DEF Patient

LEMMA ClearEventsKeeps ==
  ASSUME InStep, NEW t \in Threads, ClearEvents(t), UNCHANGED discipline
  PROVE  InStep'
<1>. USE ThreadNames DEF InStep, DisablesItself
<1>1. PICK s \in Sessions :
        /\ s = sessions /\ s # NoSocket /\ t \in {App, Conn(s), Recv(s)}
        /\ ~isConnected /\ requests = 0
        /\ \A u \in Threads \ {t} : pc[u] \notin ClosePc
        /\ pc[t] # "clearEvents" => socket = s
        /\ pc[t] = "clearEvents" => t = App
        /\ pc[t] = "deleteSocket" => t # Recv(s)
  BY CloserNamed DEF ClearEvents, At, ClosePc
<1>2. TypeOK'
  BY DEF TypeOK, ClearEvents, Goto, At, Pc, ClosePc, pointers, flags
<1>3. t = App /\ pc[t] = "clearEvents" /\ Moves(t, "idle")
  BY <1>1, GotoMoves DEF ClearEvents, At
<1>4. /\ callbackEventQueue' = <<>> /\ phase' = "off"
      /\ holder["eventQueue"] = Nobody
      /\ UNCHANGED <<discipline, holder, socket, sockets, reading,
                     isConnected, receivingRunning, heartbeatRunning, requests,
                     sessions, enables>>
  BY DEF TypeOK, ClearEvents, At, Free, pointers, flags
<1>. USE <1>1, <1>3, <1>4 DEF Moves, ClosePc
<1>5. LocksHeld' /\ ThreadsPlaced'
  BY DEF LocksHeld, ThreadsPlaced
<1>6. OneSession'
  BY DEF OneSession, Quiet
<1>7. OneCloser'
  BY DEF OneCloser
<1>8. SessionInStep(s)'
  BY DEF SessionInStep
<1>9. RequestsInStep' /\ (Patient => PatientInStep')
  BY DEF TypeOK, RequestsInStep, PatientInStep, OneSession, OneCloser, AllQuiet,
         Quiet, SessionInStep
<1>. QED BY <1>2, <1>5, <1>6, <1>7, <1>8, <1>9 DEF Patient

-----------------------------------------------------------------------------
(* The app *)

\* An app disables RTT on its own thread, never in an event callback, and if it enables
\* RTT again it waits for the answer to enableRTT before it disables.
CarefulApps ==
  \A d \in Disciplines : /\ "inEventCallback" \notin d.app
                         /\ "again" \in d.app => "impatient" \notin d.app

LEMMA DisableRTTKeeps ==
  ASSUME InStep, DisableRTT, UNCHANGED discipline
  PROVE  InStep'
<1>. USE ThreadNames DEF InStep, DisablesItself
<1>1. TypeOK'
  BY DEF TypeOK, DisableRTT, Goto, At, Pc, ClosePc, pointers, flags, ResetCommunication
<1>2. pc[App] = "idle" /\ \A t \in Threads \ {App} : pc'[t] = pc[t]
  BY DEF TypeOK, DisableRTT, ResetCommunication, Goto, At
<1>3. /\ \/ pc'[App] = "disable" /\ isConnected /\ phase' = phase
         \/ pc'[App] = "idle" /\ ~isConnected /\ phase' = "off"
      /\ phase = "waiting" => "impatient" \in discipline.app
      /\ UNCHANGED <<discipline, holder, socket, sockets, reading, isConnected,
                     receivingRunning, heartbeatRunning, callbackEventQueue,
                     requests, sessions, enables>>
  BY DEF TypeOK, DisableRTT, At, pointers, flags, Goto, ResetCommunication
<1>. USE <1>2, <1>3 DEF Moves, ClosePc
<1>4. isConnected => socket # NoSocket
  BY OpenSession
<1>. USE <1>4
<1>5. LocksHeld' /\ ThreadsPlaced'
  BY DEF LocksHeld, ThreadsPlaced
<1>6. OneSession'
  BY DEF OneSession, AllQuiet, Quiet
<1>7. OneCloser'
  BY DEF OneCloser
<1>8. \A u \in Sessions : u = sessions => SessionInStep(u)'
  BY DEF SessionInStep
<1>9. RequestsInStep' /\ (Patient => PatientInStep')
  BY DEF TypeOK, RequestsInStep, PatientInStep, AllQuiet, Quiet, SessionInStep,
         Patient, OneSession
<1>. QED BY <1>1, <1>5, <1>6, <1>7, <1>8, <1>9 DEF Patient

LEMMA RunCallbacksKeeps ==
  ASSUME InStep, RunCallbacks, UNCHANGED discipline
  PROVE  InStep'
<1>. USE ThreadNames DEF InStep, DisablesItself
<1>1. TypeOK'
  BY DEF TypeOK, RunCallbacks, Goto, At, Pc, ClosePc, pointers, flags, appVars,
         Mutex, Acquire
<1>2. Moves(App, "callbacks") /\ pc[App] = "idle"
  BY GotoMoves DEF RunCallbacks, At
<1>3. /\ holder["eventQueue"] = Nobody /\ holder'["eventQueue"] = App
      /\ holder'["heartBeat"] = holder["heartBeat"] /\ holder'["socket"] = holder["socket"]
      /\ callbackEventQueue # <<>>
      /\ UNCHANGED <<discipline, socket, sockets, reading, isConnected,
                     receivingRunning, heartbeatRunning, callbackEventQueue,
                     requests, sessions, enables, phase>>
  BY DEF TypeOK, RunCallbacks, At, Free, Acquire, pointers, flags, appVars, Mutex
<1>. USE <1>2, <1>3 DEF Moves, ClosePc
<1>4. LocksHeld' /\ ThreadsPlaced'
  BY DEF LocksHeld, ThreadsPlaced
<1>5. OneSession'
  BY DEF OneSession, AllQuiet, Quiet
<1>6. OneCloser'
  BY DEF OneCloser
<1>7. \A u \in Sessions : u = sessions => SessionInStep(u)'
  BY DEF SessionInStep
<1>8. RequestsInStep' /\ (Patient => PatientInStep')
  BY DEF RequestsInStep, PatientInStep, AllQuiet, Quiet
<1>. QED BY <1>1, <1>4, <1>5, <1>6, <1>7, <1>8 DEF Patient

\* Without a connection the news is that of an attempt that has failed and is over.
LEMMA NewsOfTheEnd ==
  ASSUME InStep, callbackEventQueue # <<>>, pc[App] = "callbacks"
  PROVE  /\ pc[Conn(sessions)] = "done"
         /\ Patient /\ ~isConnected =>
              /\ phase = "waiting" /\ Len(callbackEventQueue) <= 1
              /\ \A s \in Sessions : Quiet(s)
              /\ socket = NoSocket /\ ~receivingRunning /\ ~heartbeatRunning
<1>1. sessions \in Sessions /\ SessionInStep(sessions)
  BY OpenSession
<1>2. pc[Conn(sessions)] = "done"
  BY <1>1 DEF SessionInStep
<1>3. ASSUME Patient, ~isConnected
      PROVE  phase = "waiting" /\ pc[Recv(sessions)] = "none"
  <2>1. pc[App] \notin ClosePc /\ requests = 0
    BY DEF InStep, TypeOK, RequestsInStep, AllQuiet, ClosePc
  <2>. QED BY <1>1, <1>3, <2>1 DEF InStep, TypeOK, PatientInStep, AllQuiet
<1>4. QED
  BY <1>1, <1>2, <1>3 DEF InStep, SessionInStep, OneSession, Quiet

LEMMA RunConnectCallbackKeeps ==
  ASSUME InStep, RunConnectCallback, UNCHANGED discipline
  PROVE  InStep'
<1>. USE ThreadNames DEF InStep, DisablesItself
<1>1. TypeOK'
  BY DEF TypeOK, RunConnectCallback, At, Pc, ClosePc, pointers, flags
<1>2. pc[App] = "callbacks" /\ pc' = pc
  BY DEF RunConnectCallback, At
<1>3. /\ callbackEventQueue # <<>> /\ callbackEventQueue' = Tail(callbackEventQueue)
      /\ phase' = IF phase = "waiting" THEN "told" ELSE phase
      /\ UNCHANGED <<discipline, holder, socket, sockets, reading,
                     isConnected, receivingRunning, heartbeatRunning, requests,
                     sessions, enables>>
  BY DEF TypeOK, RunConnectCallback, At, pointers, flags
<1>. USE <1>2, <1>3 DEF Moves, ClosePc
<1>4. /\ sessions \in Sessions /\ SessionInStep(sessions) /\ requests = 0
      /\ Len(callbackEventQueue) <= 1 => Tail(callbackEventQueue) = <<>>
  BY OpenSession DEF TypeOK, RequestsInStep, AllQuiet
<1>. USE <1>4
<1>5. LocksHeld' /\ ThreadsPlaced'
  BY DEF LocksHeld, ThreadsPlaced
<1>6. OneSession'
  BY DEF OneSession, AllQuiet, Quiet
<1>7. OneCloser'
  BY DEF OneCloser
<1>8. \A u \in Sessions : u = sessions => SessionInStep(u)'
  BY DEF SessionInStep
<1>9. RequestsInStep'
  BY DEF RequestsInStep
<1>10. Patient => PatientInStep'
  <2>1. Patient => pc[Conn(sessions)] = "done" /\ phase' = "told"
    BY <1>2, <1>3, NewsOfTheEnd DEF TypeOK, PatientInStep, AllQuiet
  <2>2. Patient /\ ~isConnected => AllQuiet'
    BY <1>2, <1>3, <1>4, NewsOfTheEnd DEF AllQuiet, Quiet
  <2>. QED BY <2>1, <2>2 DEF PatientInStep
<1>. QED BY <1>1, <1>5, <1>6, <1>7, <1>8, <1>9, <1>10 DEF Patient

LEMMA ReturnFromRunCallbacksKeeps ==
  ASSUME InStep, ReturnFromRunCallbacks, UNCHANGED discipline
  PROVE  InStep'
<1>. USE ThreadNames DEF InStep, DisablesItself
<1>1. TypeOK'
  BY DEF TypeOK, ReturnFromRunCallbacks, Goto, At, Pc, ClosePc, pointers, flags,
         appVars, Mutex, Release
<1>2. Moves(App, "idle") /\ pc[App] = "callbacks"
  BY GotoMoves DEF ReturnFromRunCallbacks, At
<1>3. /\ holder'["eventQueue"] = Nobody
      /\ holder'["heartBeat"] = holder["heartBeat"] /\ holder'["socket"] = holder["socket"]
      /\ callbackEventQueue = <<>>
      /\ UNCHANGED <<discipline, socket, sockets, reading, isConnected,
                     receivingRunning, heartbeatRunning, callbackEventQueue,
                     requests, sessions, enables, phase>>
  BY DEF TypeOK, ReturnFromRunCallbacks, At, Release, pointers, flags, appVars,
         Mutex
<1>. USE <1>2, <1>3 DEF Moves, ClosePc
<1>4. LocksHeld' /\ ThreadsPlaced'
  BY DEF LocksHeld, ThreadsPlaced
<1>5. OneSession'
  BY DEF OneSession, AllQuiet, Quiet
<1>6. OneCloser'
  BY DEF OneCloser
<1>7. \A u \in Sessions : u = sessions => SessionInStep(u)'
  BY DEF SessionInStep
<1>8. RequestsInStep' /\ (Patient => PatientInStep')
  BY DEF RequestsInStep, PatientInStep, AllQuiet, Quiet
<1>. QED BY <1>1, <1>4, <1>5, <1>6, <1>7, <1>8 DEF Patient

LEMMA ServerErrorKeeps ==
  ASSUME InStep, ServerError, UNCHANGED discipline
  PROVE  InStep'
<1>. USE ThreadNames DEF InStep, DisablesItself
<1>1. TypeOK'
  BY RTTAssumption DEF TypeOK, ServerError, At, Pc, ClosePc, pointers, flags
<1>2. pc[App] = "idle" /\ pc' = pc
  BY DEF ServerError, At
<1>3. /\ requests > 0 /\ requests' = requests - 1
      /\ phase' = IF phase = "waiting" THEN "told" ELSE phase
      /\ UNCHANGED <<discipline, holder, socket, sockets, reading,
                     isConnected, receivingRunning, heartbeatRunning,
                     callbackEventQueue, sessions, enables>>
  BY DEF TypeOK, ServerError, At, pointers, flags
<1>. USE <1>2, <1>3 DEF Moves, ClosePc
<1>4. LocksHeld' /\ ThreadsPlaced'
  BY DEF LocksHeld, ThreadsPlaced
<1>5. OneSession'
  BY DEF OneSession, AllQuiet, Quiet
<1>6. OneCloser'
  BY DEF OneCloser
<1>7. \A u \in Sessions : u = sessions => SessionInStep(u)'
  BY DEF SessionInStep
<1>8. RequestsInStep' /\ (Patient => PatientInStep')
  BY DEF TypeOK, RequestsInStep, PatientInStep, AllQuiet, Quiet, SessionInStep
<1>. QED BY <1>1, <1>4, <1>5, <1>6, <1>7, <1>8 DEF Patient

LEMMA EnableRTTKeeps ==
  ASSUME InStep, CarefulApps, EnableRTT, UNCHANGED discipline
  PROVE  InStep'
<1>. USE ThreadNames DEF InStep, DisablesItself
<1>1. TypeOK'
  BY RTTAssumption DEF TypeOK, EnableRTT, At, Pc, ClosePc, pointers, flags,
                       RequestsInStep
<1>2. pc[App] = "idle" /\ pc' = pc
  BY DEF EnableRTT, At
<1>3. /\ phase = "off" /\ phase' = "waiting" /\ requests' = requests + 1 /\ enables' = enables + 1
      /\ enables < MaxEnables /\ (enables > 0 => "again" \in discipline.app)
      /\ UNCHANGED <<discipline, holder, socket, sockets, reading,
                     isConnected, receivingRunning, heartbeatRunning,
                     callbackEventQueue, sessions>>
  BY DEF TypeOK, EnableRTT, At, pointers, flags
<1>. USE <1>2, <1>3 DEF Moves, ClosePc
<1>4. AllQuiet /\ requests = 0
  BY RTTAssumption DEF TypeOK, CarefulApps, RequestsInStep, OneSession,
                       PatientInStep, Patient
<1>. USE <1>4
<1>5. LocksHeld' /\ ThreadsPlaced'
  BY DEF LocksHeld, ThreadsPlaced
<1>6. OneSession'
  BY DEF OneSession, AllQuiet, Quiet
<1>7. OneCloser'
  BY DEF OneCloser
<1>8. \A u \in Sessions : u = sessions => SessionInStep(u)'
  BY DEF SessionInStep
<1>9. RequestsInStep' /\ (Patient => PatientInStep')
  BY RTTAssumption DEF TypeOK, RequestsInStep, PatientInStep, AllQuiet, Quiet,
                       SessionInStep, OneSession
<1>. QED BY <1>1, <1>5, <1>6, <1>7, <1>8, <1>9 DEF Patient

LEMMA ServerCallbackKeeps ==
  ASSUME InStep, ServerCallback, UNCHANGED discipline
  PROVE  InStep'
<1>. USE ThreadNames DEF InStep, DisablesItself
<1>1. PICK s \in Sessions : s = sessions + 1
  BY RTTAssumption DEF TypeOK, ServerCallback, RequestsInStep, Sessions
<1>2. Moves(Conn(s), "create") /\ pc[App] = "idle"
  BY <1>1, GotoMoves DEF ServerCallback, At
<1>3. TypeOK'
  BY <1>1, RTTAssumption DEF TypeOK, ServerCallback, Goto, Pc, pointers, flags,
                             Sessions
<1>4. /\ AllQuiet /\ requests = 1 /\ requests' = 0 /\ sessions' = s /\ s # 0
      /\ pc[Conn(s)] = "none" /\ pc[Recv(s)] = "none" /\ pc[Beat(s)] = "none"
      /\ UNCHANGED <<discipline, holder, socket, sockets, reading, isConnected,
                     receivingRunning, heartbeatRunning, callbackEventQueue, enables, phase>>
  BY <1>1 DEF TypeOK, ServerCallback, RequestsInStep, OneSession, pointers, flags,
              Sessions
<1>. USE <1>1, <1>2, <1>4 DEF Moves, ClosePc
<1>5. LocksHeld' /\ ThreadsPlaced'
  BY DEF LocksHeld, ThreadsPlaced
<1>6. OneSession'
  BY DEF TypeOK, OneSession, AllQuiet, Quiet, Sessions
<1>7. OneCloser'
  BY DEF OneCloser
<1>8. SessionInStep(s)'
  BY DEF SessionInStep, AllQuiet
<1>9. RequestsInStep' /\ (Patient => PatientInStep')
  BY DEF TypeOK, RequestsInStep, PatientInStep, AllQuiet, Quiet
<1>. QED BY <1>3, <1>5, <1>6, <1>7, <1>8, <1>9 DEF Patient

-----------------------------------------------------------------------------
(* The connection thread *)

LEMMA ConnectKeeps ==
  ASSUME InStep, NEW s \in Sessions, Connect(s), UNCHANGED discipline
  PROVE  InStep'
<1>. USE ThreadNames DEF InStep, DisablesItself
<1>1. s = sessions /\ sessions # 0
  BY DEF OneSession, Quiet, Sessions, Connect, At
<1>2. TypeOK'
  BY DEF TypeOK, Connect, Goto, At, Pc, ClosePc, flags, appVars
<1>3. Moves(Conn(s), "validate") /\ pc[Conn(s)] = "create"
  BY GotoMoves DEF Connect, At
<1>4. /\ holder["socket"] = Nobody /\ socket' = s
      /\ sockets'[s] \in {"open", "invalid"}
      /\ \A u \in Sessions \ {s} : sockets'[u] = sockets[u]
      /\ UNCHANGED <<discipline, holder, reading, isConnected,
                     receivingRunning, heartbeatRunning, callbackEventQueue,
                     requests, sessions, enables, phase>>
  BY DEF TypeOK, Connect, At, Free, flags, appVars
<1>. USE <1>1, <1>3, <1>4 DEF Moves, ClosePc
<1>5. LocksHeld' /\ ThreadsPlaced'
  BY DEF LocksHeld, ThreadsPlaced
<1>6. OneSession'
  BY DEF OneSession, Quiet
<1>7. OneCloser'
  BY DEF TypeOK, LocksHeld, ThreadsPlaced, OneSession, Quiet, OneCloser,
         SessionInStep
<1>8. SessionInStep(s)'
  BY DEF SessionInStep
<1>9. RequestsInStep' /\ (Patient => PatientInStep')
  BY DEF RequestsInStep, PatientInStep, AllQuiet, Quiet
<1>. QED BY <1>2, <1>5, <1>6, <1>7, <1>8, <1>9 DEF Patient

LEMMA ValidateKeeps ==
  ASSUME InStep, NEW s \in Sessions, Validate(s), UNCHANGED discipline
  PROVE  InStep'
<1>. USE ThreadNames DEF InStep, DisablesItself
<1>1. s = sessions /\ sessions # 0
  BY DEF OneSession, Quiet, Sessions, Validate, At
<1>2. TypeOK'
  BY DEF TypeOK, Validate, Goto, At, Pc, ClosePc, pointers, flags, appVars
<1>3. /\ pc[Conn(s)] = "validate"
      /\ Moves(Conn(s), IF sockets[socket] = "open" THEN "connected" ELSE "closeLock")
  BY GotoMoves DEF Validate, At
<1>4. /\ socket # NoSocket
      /\ UNCHANGED <<discipline, holder, socket, sockets, reading,
                     isConnected, receivingRunning, heartbeatRunning,
                     callbackEventQueue, requests, sessions, enables, phase>>
  BY DEF TypeOK, Validate, At, pointers, flags, appVars
<1>. USE <1>1, <1>3, <1>4 DEF Moves, ClosePc
<1>5. LocksHeld' /\ ThreadsPlaced'
  BY DEF LocksHeld, ThreadsPlaced
<1>6. OneSession'
  BY DEF OneSession, Quiet
<1>7. OneCloser'
  BY DEF TypeOK, LocksHeld, ThreadsPlaced, OneSession, Quiet, OneCloser,
         SessionInStep
<1>8. SessionInStep(s)'
  BY DEF SessionInStep
<1>9. RequestsInStep' /\ (Patient => PatientInStep')
  BY DEF RequestsInStep, PatientInStep, AllQuiet, Quiet
<1>. QED BY <1>2, <1>5, <1>6, <1>7, <1>8, <1>9 DEF Patient

LEMMA ConnectedKeeps ==
  ASSUME InStep, NEW s \in Sessions, Connected(s), UNCHANGED discipline
  PROVE  InStep'
<1>. USE ThreadNames DEF InStep, DisablesItself
<1>1. s = sessions /\ sessions # 0
  BY DEF OneSession, Quiet, Sessions, Connected, At
<1>2. TypeOK'
  BY DEF TypeOK, Connected, Goto, At, Pc, ClosePc, pointers, appVars
<1>3. Moves(Conn(s), "startRecv") /\ pc[Conn(s)] = "connected"
  BY GotoMoves DEF Connected, At
<1>4. /\ isConnected' = TRUE
      /\ UNCHANGED <<discipline, holder, socket, sockets, reading,
                     receivingRunning, heartbeatRunning, callbackEventQueue,
                     requests, sessions, enables, phase>>
  BY DEF TypeOK, Connected, At, pointers, appVars
<1>. USE <1>1, <1>3, <1>4 DEF Moves, ClosePc
<1>5. /\ \A t \in Threads : pc[t] \notin ClosePc /\ pc'[t] \notin ClosePc
      /\ socket = s /\ pc[Recv(s)] = "none"
  BY DEF OneSession, Quiet, ThreadsPlaced, SessionInStep
<1>. USE <1>5
<1>6. LocksHeld' /\ ThreadsPlaced'
  BY DEF LocksHeld, ThreadsPlaced
<1>7. OneSession'
  BY DEF OneSession, Quiet
<1>8. OneCloser'
  BY DEF OneCloser
<1>9. SessionInStep(s)'
  BY DEF SessionInStep, NoSocket
<1>10. RequestsInStep' /\ (Patient => PatientInStep')
  BY DEF RequestsInStep, PatientInStep, AllQuiet, Quiet
<1>. QED BY <1>2, <1>6, <1>7, <1>8, <1>9, <1>10 DEF Patient

LEMMA GreetKeeps ==
  ASSUME InStep, NEW s \in Sessions, Greet(s), UNCHANGED discipline
  PROVE  InStep'
<1>. USE ThreadNames DEF InStep, DisablesItself
<1>1. s = sessions /\ sessions # 0
  BY DEF OneSession, Quiet, Sessions, Greet, At
<1>2. TypeOK'
  BY DEF TypeOK, Greet, Goto, At, Pc, ClosePc, pointers, flags, appVars
<1>3. Moves(Conn(s), "done") /\ pc[Conn(s)] = "greet"
  BY GotoMoves DEF Greet, At
<1>4. /\ holder["socket"] = Nobody
      /\ UNCHANGED <<discipline, holder, socket, sockets, reading,
                     isConnected, receivingRunning, heartbeatRunning,
                     callbackEventQueue, requests, sessions, enables, phase>>
  BY DEF TypeOK, Greet, At, Free, pointers, flags, appVars
<1>. USE <1>1, <1>3, <1>4 DEF Moves, ClosePc
<1>5. LocksHeld' /\ ThreadsPlaced'
  BY DEF LocksHeld, ThreadsPlaced
<1>6. OneSession'
  BY DEF OneSession, Quiet
<1>7. OneCloser'
  BY DEF OneCloser
<1>8. SessionInStep(s)'
  BY DEF SessionInStep
<1>9. RequestsInStep' /\ (Patient => PatientInStep')
  BY DEF RequestsInStep, PatientInStep, AllQuiet, Quiet
<1>. QED BY <1>2, <1>5, <1>6, <1>7, <1>8, <1>9 DEF Patient

LEMMA StartReceivingKeeps ==
  ASSUME InStep, NEW s \in Sessions, StartReceiving(s), UNCHANGED discipline
  PROVE  InStep'
<1>. USE ThreadNames DEF InStep, DisablesItself
<1>1. s = sessions /\ sessions # 0
  BY DEF OneSession, Quiet, Sessions, StartReceiving, At
<1>2. TypeOK'
  BY DEF TypeOK, StartReceiving, At, Pc, ClosePc, pointers, appVars
<1>3. /\ pc[Conn(s)] = "startRecv" /\ pc'[Conn(s)] = "greet" /\ pc'[Recv(s)] = "loop"
      /\ \A t \in Threads \ {Conn(s), Recv(s)} : pc'[t] = pc[t]
  BY DEF TypeOK, StartReceiving, At
<1>4. /\ receivingRunning' = TRUE
      /\ UNCHANGED <<discipline, holder, socket, sockets, reading,
                     isConnected, heartbeatRunning, callbackEventQueue, requests,
                     sessions, enables, phase>>
  BY DEF TypeOK, StartReceiving, At, pointers, appVars
<1>. USE <1>1, <1>3, <1>4 DEF Moves, ClosePc
<1>5. pc[Recv(s)] = "none"
  BY DEF SessionInStep
<1>. USE <1>5
<1>6. LocksHeld' /\ ThreadsPlaced'
  BY DEF LocksHeld, ThreadsPlaced
<1>7. OneSession'
  BY DEF OneSession, Quiet
<1>8. OneCloser'
  BY DEF OneCloser
<1>9. SessionInStep(s)'
  BY DEF SessionInStep
<1>10. RequestsInStep' /\ (Patient => PatientInStep')
  BY DEF RequestsInStep, PatientInStep, AllQuiet, Quiet
<1>. QED BY <1>2, <1>6, <1>7, <1>8, <1>9, <1>10 DEF Patient

LEMMA ConnFailedKeeps ==
  ASSUME InStep, NEW s \in Sessions, FailedToConnect(Conn(s), "done"),
         UNCHANGED discipline
  PROVE  InStep'
<1>. USE ThreadNames DEF InStep, DisablesItself
<1>1. s = sessions /\ sessions # 0
  BY DEF OneSession, Quiet, Sessions, FailedToConnect, At
<1>2. TypeOK'
  BY DEF TypeOK, FailedToConnect, Goto, At, Pc, ClosePc, pointers, flags, appVars
<1>3. Moves(Conn(s), "done") /\ pc[Conn(s)] = "pushFailure"
  BY GotoMoves DEF FailedToConnect, At
<1>4. /\ holder["eventQueue"] = Nobody
      /\ callbackEventQueue' = Append(callbackEventQueue, "failure")
      /\ UNCHANGED <<discipline, holder, socket, sockets, reading,
                     isConnected, receivingRunning, heartbeatRunning, requests,
                     sessions, enables, phase>>
  BY DEF TypeOK, FailedToConnect, At, Free, pointers, flags, appVars
<1>. USE <1>1, <1>3, <1>4 DEF Moves, ClosePc
<1>5. LocksHeld' /\ ThreadsPlaced'
  BY DEF LocksHeld, ThreadsPlaced
<1>6. OneSession'
  BY DEF OneSession, Quiet
<1>7. OneCloser'
  BY DEF OneCloser
<1>8. SessionInStep(s)'
  BY AppendLength DEF SessionInStep
<1>9. RequestsInStep' /\ (Patient => PatientInStep')
  BY DEF RequestsInStep, PatientInStep, AllQuiet, Quiet
<1>. QED BY <1>2, <1>5, <1>6, <1>7, <1>8, <1>9 DEF Patient

-----------------------------------------------------------------------------
(* The receive thread *)

LEMMA CheckConnectedKeeps ==
  ASSUME InStep, NEW s \in Sessions, CheckConnected(s), UNCHANGED discipline
  PROVE  InStep'
<1>. USE ThreadNames DEF InStep, DisablesItself
<1>1. s = sessions /\ sessions # 0
  BY DEF OneSession, Quiet, Sessions, CheckConnected, At
<1>2. TypeOK'
  BY DEF TypeOK, CheckConnected, Goto, At, Pc, ClosePc, pointers, flags, appVars
<1>3. /\ pc[Recv(s)] = "loop"
      /\ Moves(Recv(s), IF isConnected THEN "recv" ELSE "endRecv")
  BY GotoMoves DEF CheckConnected, At
<1>4. UNCHANGED <<discipline, holder, socket, sockets, reading,
                     isConnected, receivingRunning, heartbeatRunning,
                     callbackEventQueue, requests, sessions, enables, phase>>
  BY DEF TypeOK, CheckConnected, At, pointers, flags, appVars
<1>. USE <1>1, <1>3, <1>4 DEF Moves, ClosePc
<1>5. LocksHeld' /\ ThreadsPlaced'
  BY DEF LocksHeld, ThreadsPlaced
<1>6. OneSession'
  BY DEF OneSession, Quiet
<1>7. OneCloser'
  BY DEF OneCloser
<1>8. SessionInStep(s)'
  BY DEF SessionInStep
<1>9. RequestsInStep' /\ (Patient => PatientInStep')
  BY DEF RequestsInStep, PatientInStep, AllQuiet, Quiet
<1>. QED BY <1>2, <1>5, <1>6, <1>7, <1>8, <1>9 DEF Patient

LEMMA EnterRecvKeeps ==
  ASSUME InStep, NEW s \in Sessions, EnterRecv(s), UNCHANGED discipline
  PROVE  InStep'
<1>. USE ThreadNames DEF InStep, DisablesItself
<1>1. s = sessions /\ sessions # 0
  BY DEF OneSession, Quiet, Sessions, EnterRecv, At
<1>2. TypeOK'
  BY DEF TypeOK, EnterRecv, Goto, At, Pc, ClosePc, flags, appVars
<1>3. Moves(Recv(s), "blocked") /\ pc[Recv(s)] = "recv"
  BY GotoMoves DEF EnterRecv, At
<1>4. /\ socket # NoSocket /\ reading'[s] = socket
      /\ \A u \in Sessions \ {s} : reading'[u] = reading[u]
      /\ UNCHANGED <<discipline, holder, socket, sockets, isConnected,
                     receivingRunning, heartbeatRunning, callbackEventQueue,
                     requests, sessions, enables, phase>>
  BY DEF TypeOK, EnterRecv, At, flags, appVars
<1>. USE <1>1, <1>3, <1>4 DEF Moves, ClosePc
<1>5. LocksHeld' /\ ThreadsPlaced'
  BY DEF LocksHeld, ThreadsPlaced
<1>6. OneSession'
  BY DEF OneSession, Quiet
<1>7. OneCloser'
  BY DEF OneCloser
<1>8. SessionInStep(s)'
  BY DEF SessionInStep
<1>9. RequestsInStep' /\ (Patient => PatientInStep')
  BY DEF RequestsInStep, PatientInStep, AllQuiet, Quiet
<1>. QED BY <1>2, <1>5, <1>6, <1>7, <1>8, <1>9 DEF Patient

LEMMA RecvOnClosedKeeps ==
  ASSUME InStep, NEW s \in Sessions, RecvOnClosed(s), UNCHANGED discipline
  PROVE  InStep'
<1>. USE ThreadNames DEF InStep, DisablesItself
<1>1. s = sessions /\ sessions # 0
  BY DEF OneSession, Quiet, Sessions, RecvOnClosed, LeaveRecv, At
<1>2. TypeOK'
  BY DEF TypeOK, RecvOnClosed, LeaveRecv, Goto, At, Pc, ClosePc, flags, appVars
<1>3. Moves(Recv(s), "endRecv") /\ pc[Recv(s)] = "blocked"
  BY GotoMoves DEF RecvOnClosed, LeaveRecv, At
<1>4. /\ sockets[reading[s]] = "closed"
      /\ \A u \in Sessions \ {s} : reading'[u] = reading[u]
      /\ UNCHANGED <<discipline, holder, socket, sockets, isConnected,
                     receivingRunning, heartbeatRunning, callbackEventQueue,
                     requests, sessions, enables, phase>>
  BY DEF TypeOK, RecvOnClosed, LeaveRecv, At, flags, appVars
<1>. USE <1>1, <1>3, <1>4 DEF Moves, ClosePc
<1>5. LocksHeld' /\ ThreadsPlaced'
  BY DEF LocksHeld, ThreadsPlaced
<1>6. OneSession'
  BY DEF OneSession, Quiet
<1>7. OneCloser'
  BY DEF OneCloser
<1>8. SessionInStep(s)'
  BY DEF SessionInStep
<1>9. RequestsInStep' /\ (Patient => PatientInStep')
  BY DEF RequestsInStep, PatientInStep, AllQuiet, Quiet
<1>. QED BY <1>2, <1>5, <1>6, <1>7, <1>8, <1>9 DEF Patient

LEMMA RecvMessageKeeps ==
  ASSUME InStep, NEW s \in Sessions, RecvMessage(s), UNCHANGED discipline
  PROVE  InStep'
<1>. USE ThreadNames DEF InStep, DisablesItself
<1>1. s = sessions /\ sessions # 0
  BY DEF OneSession, Quiet, Sessions, RecvMessage, LeaveRecv, At
<1>2. PICK label \in {"confirmed", "event", "pushFailure", "endRecv"} :
        /\ pc[Recv(s)] = "blocked" /\ Moves(Recv(s), label)
        /\ label = "confirmed" => pc[Beat(s)] = "none"
        /\ LeaveRecv(s, label)
  BY GotoMoves DEF RecvMessage, LeaveRecv, At
<1>3. TypeOK'
  BY <1>2 DEF TypeOK, LeaveRecv, Goto, At, Pc, flags, appVars
<1>4. /\ sockets[reading[s]] = "open" /\ pc[Conn(s)] = "done"
      /\ \A u \in Sessions \ {s} : reading'[u] = reading[u]
      /\ UNCHANGED <<discipline, holder, socket, sockets, isConnected,
                     receivingRunning, heartbeatRunning, callbackEventQueue,
                     requests, sessions, enables, phase>>
  BY DEF TypeOK, RecvMessage, LeaveRecv, At, flags, appVars
<1>. USE <1>1, <1>2, <1>4 DEF Moves, ClosePc
<1>5. LocksHeld' /\ ThreadsPlaced'
  BY DEF LocksHeld, ThreadsPlaced
<1>6. OneSession'
  BY DEF OneSession, Quiet
<1>7. OneCloser'
  BY DEF OneCloser
<1>8. SessionInStep(s)'
  BY DEF SessionInStep
<1>9. RequestsInStep' /\ (Patient => PatientInStep')
  BY DEF RequestsInStep, PatientInStep, AllQuiet, Quiet
<1>. QED BY <1>3, <1>5, <1>6, <1>7, <1>8, <1>9 DEF Patient

LEMMA StartHeartbeatKeeps ==
  ASSUME InStep, NEW s \in Sessions, StartHeartbeat(s), UNCHANGED discipline
  PROVE  InStep'
<1>. USE ThreadNames DEF InStep, DisablesItself
<1>1. s = sessions /\ sessions # 0
  BY DEF OneSession, Quiet, Sessions, StartHeartbeat, At
<1>2. TypeOK'
  BY DEF TypeOK, StartHeartbeat, At, Pc, ClosePc, pointers, appVars
<1>3. /\ pc[Recv(s)] = "confirmed" /\ pc'[Recv(s)] = "pushSuccess" /\ pc'[Beat(s)] = "startBeat"
      /\ \A t \in Threads \ {Recv(s), Beat(s)} : pc'[t] = pc[t]
  BY DEF TypeOK, StartHeartbeat, At
<1>4. /\ heartbeatRunning' = TRUE
      /\ UNCHANGED <<discipline, holder, socket, sockets, reading,
                     isConnected, receivingRunning, callbackEventQueue, requests,
                     sessions, enables, phase>>
  BY DEF TypeOK, StartHeartbeat, At, pointers, appVars
<1>. USE <1>1, <1>3, <1>4 DEF Moves, ClosePc
<1>5. pc[Beat(s)] = "none" /\ pc[Conn(s)] = "done"
  BY DEF SessionInStep
<1>. USE <1>5
<1>6. LocksHeld' /\ ThreadsPlaced'
  BY DEF LocksHeld, ThreadsPlaced
<1>7. OneSession'
  BY DEF OneSession, Quiet
<1>8. OneCloser'
  BY DEF OneCloser
<1>9. SessionInStep(s)'
  BY DEF SessionInStep
<1>10. RequestsInStep' /\ (Patient => PatientInStep')
  BY DEF RequestsInStep, PatientInStep, AllQuiet, Quiet
<1>. QED BY <1>2, <1>6, <1>7, <1>8, <1>9, <1>10 DEF Patient

LEMMA PushSuccessKeeps ==
  ASSUME InStep, NEW s \in Sessions, PushSuccess(s), UNCHANGED discipline
  PROVE  InStep'
<1>. USE ThreadNames DEF InStep, DisablesItself
<1>1. s = sessions /\ sessions # 0
  BY DEF OneSession, Quiet, Sessions, PushSuccess, At
<1>2. TypeOK'
  BY DEF TypeOK, PushSuccess, Goto, At, Pc, ClosePc, pointers, flags, appVars
<1>3. Moves(Recv(s), "loop") /\ pc[Recv(s)] = "pushSuccess"
  BY GotoMoves DEF PushSuccess, At
<1>4. /\ holder["eventQueue"] = Nobody
      /\ callbackEventQueue' = Append(callbackEventQueue, "success")
      /\ UNCHANGED <<discipline, holder, socket, sockets, reading,
                     isConnected, receivingRunning, heartbeatRunning, requests,
                     sessions, enables, phase>>
  BY DEF TypeOK, PushSuccess, At, Free, pointers, flags, appVars
<1>. USE <1>1, <1>3, <1>4 DEF Moves, ClosePc
<1>5. LocksHeld' /\ ThreadsPlaced'
  BY DEF LocksHeld, ThreadsPlaced
<1>6. OneSession'
  BY DEF OneSession, Quiet
<1>7. OneCloser'
  BY DEF OneCloser
<1>8. SessionInStep(s)'
  BY AppendLength DEF SessionInStep
<1>9. RequestsInStep' /\ (Patient => PatientInStep')
  BY DEF RequestsInStep, PatientInStep, AllQuiet, Quiet
<1>. QED BY <1>2, <1>5, <1>6, <1>7, <1>8, <1>9 DEF Patient

LEMMA RecvFailedKeeps ==
  ASSUME InStep, NEW s \in Sessions, FailedToConnect(Recv(s), "loop"),
         UNCHANGED discipline
  PROVE  InStep'
<1>. USE ThreadNames DEF InStep, DisablesItself
<1>1. s = sessions /\ sessions # 0
  BY DEF OneSession, Quiet, Sessions, FailedToConnect, At
<1>2. TypeOK'
  BY DEF TypeOK, FailedToConnect, Goto, At, Pc, ClosePc, pointers, flags, appVars
<1>3. Moves(Recv(s), "loop") /\ pc[Recv(s)] = "pushFailure"
  BY GotoMoves DEF FailedToConnect, At
<1>4. /\ holder["eventQueue"] = Nobody
      /\ callbackEventQueue' = Append(callbackEventQueue, "failure")
      /\ UNCHANGED <<discipline, holder, socket, sockets, reading,
                     isConnected, receivingRunning, heartbeatRunning, requests,
                     sessions, enables, phase>>
  BY DEF TypeOK, FailedToConnect, At, Free, pointers, flags, appVars
<1>. USE <1>1, <1>3, <1>4 DEF Moves, ClosePc
<1>5. LocksHeld' /\ ThreadsPlaced'
  BY DEF LocksHeld, ThreadsPlaced
<1>6. OneSession'
  BY DEF OneSession, Quiet
<1>7. OneCloser'
  BY DEF OneCloser
<1>8. SessionInStep(s)'
  BY AppendLength DEF SessionInStep
<1>9. RequestsInStep' /\ (Patient => PatientInStep')
  BY DEF RequestsInStep, PatientInStep, AllQuiet, Quiet
<1>. QED BY <1>2, <1>5, <1>6, <1>7, <1>8, <1>9 DEF Patient

LEMMA RunEventCallbackKeeps ==
  ASSUME InStep, NEW s \in Sessions, RunEventCallback(s), UNCHANGED
         discipline
  PROVE  InStep'
<1>. USE ThreadNames DEF InStep, DisablesItself
<1>1. s = sessions /\ sessions # 0
  BY DEF OneSession, Quiet, Sessions, RunEventCallback, At
<1>2. TypeOK'
  BY DEF TypeOK, RunEventCallback, Goto, At, Pc, ClosePc, pointers, flags, appVars
<1>3. Moves(Recv(s), "loop") /\ pc[Recv(s)] = "event"
  BY GotoMoves DEF RunEventCallback, At
<1>4. UNCHANGED <<discipline, holder, socket, sockets, reading, isConnected,
                  receivingRunning, heartbeatRunning, callbackEventQueue,
                  requests, sessions, enables, phase>>
  BY DEF RunEventCallback, pointers, flags, appVars
<1>. USE <1>1, <1>3, <1>4 DEF Moves, ClosePc
<1>5. LocksHeld' /\ ThreadsPlaced'
  BY DEF LocksHeld, ThreadsPlaced
<1>6. OneSession'
  BY DEF OneSession, Quiet
<1>7. OneCloser'
  BY DEF OneCloser
<1>8. SessionInStep(s)'
  BY DEF SessionInStep
<1>9. RequestsInStep' /\ (Patient => PatientInStep')
  BY DEF RequestsInStep, PatientInStep, AllQuiet, Quiet
<1>. QED BY <1>2, <1>5, <1>6, <1>7, <1>8, <1>9 DEF Patient

LEMMA EndReceivingKeeps ==
  ASSUME InStep, NEW s \in Sessions, EndReceiving(s), UNCHANGED discipline
  PROVE  InStep'
<1>. USE ThreadNames DEF InStep, DisablesItself
<1>1. s = sessions /\ sessions # 0
  BY DEF OneSession, Quiet, Sessions, EndReceiving, At
<1>2. TypeOK'
  BY DEF TypeOK, EndReceiving, NotifyOne, Goto, At, Pc, ClosePc, pointers, appVars
<1>3. Notifies(Recv(s), "done", "waiting", "woken") /\ pc[Recv(s)] = "endRecv"
  BY NotifyOneNotifies DEF EndReceiving, At
<1>4. /\ holder["socket"] = Nobody /\ receivingRunning' = FALSE
      /\ UNCHANGED <<discipline, holder, socket, sockets, reading,
                     isConnected, heartbeatRunning, callbackEventQueue, requests,
                     sessions, enables, phase>>
  BY DEF TypeOK, EndReceiving, At, Free, pointers, appVars
<1>. USE <1>1, <1>3, <1>4 DEF Notifies, ClosePc
<1>5. LocksHeld' /\ ThreadsPlaced'
  BY DEF LocksHeld, ThreadsPlaced
<1>6. OneSession'
  BY DEF OneSession, Quiet
<1>7. OneCloser'
  BY DEF OneCloser
<1>8. SessionInStep(s)'
  BY DEF TypeOK, LocksHeld, ThreadsPlaced, OneSession, Quiet, OneCloser,
         SessionInStep
<1>9. RequestsInStep' /\ (Patient => PatientInStep')
  BY DEF RequestsInStep, PatientInStep, AllQuiet, Quiet
<1>. QED BY <1>2, <1>5, <1>6, <1>7, <1>8, <1>9 DEF Patient

-----------------------------------------------------------------------------
(* The heartbeat thread *)

LEMMA BeatStartKeeps ==
  ASSUME InStep, NEW s \in Sessions, BeatStart(s), UNCHANGED discipline
  PROVE  InStep'
<1>. USE ThreadNames DEF InStep, DisablesItself
<1>1. s = sessions /\ sessions # 0
  BY DEF OneSession, Quiet, Sessions, BeatStart, At
<1>2. TypeOK'
  BY DEF TypeOK, BeatStart, Goto, At, Pc, ClosePc, pointers, flags, appVars, Mutex,
         Acquire
<1>3. Moves(Beat(s), "checkBeat") /\ pc[Beat(s)] \in {"startBeat", "wakeBeat"}
  BY GotoMoves DEF BeatStart, At
<1>4. /\ holder["heartBeat"] = Nobody /\ holder'["heartBeat"] = Beat(s)
      /\ holder'["socket"] = holder["socket"] /\ holder'["eventQueue"] = holder["eventQueue"]
      /\ UNCHANGED <<discipline, socket, sockets, reading, isConnected,
                     receivingRunning, heartbeatRunning, callbackEventQueue,
                     requests, sessions, enables, phase>>
  BY DEF TypeOK, BeatStart, At, Free, Acquire, pointers, flags, appVars, Mutex
<1>. USE <1>1, <1>3, <1>4 DEF Moves, ClosePc
<1>5. LocksHeld' /\ ThreadsPlaced'
  BY DEF LocksHeld, ThreadsPlaced
<1>6. OneSession'
  BY DEF OneSession, Quiet
<1>7. OneCloser'
  BY DEF OneCloser
<1>8. SessionInStep(s)'
  BY DEF SessionInStep
<1>9. RequestsInStep' /\ (Patient => PatientInStep')
  BY DEF RequestsInStep, PatientInStep, AllQuiet, Quiet
<1>. QED BY <1>2, <1>5, <1>6, <1>7, <1>8, <1>9 DEF Patient

LEMMA BeatTimeoutKeeps ==
  ASSUME InStep, NEW s \in Sessions, BeatTimeout(s), UNCHANGED discipline
  PROVE  InStep'
<1>. USE ThreadNames DEF InStep, DisablesItself
<1>1. s = sessions /\ sessions # 0
  BY DEF OneSession, Quiet, Sessions, BeatTimeout, At
<1>2. TypeOK'
  BY DEF TypeOK, BeatTimeout, Goto, At, Pc, ClosePc, pointers, flags, appVars
<1>3. Moves(Beat(s), "wakeBeat") /\ pc[Beat(s)] = "sleeping"
  BY GotoMoves DEF BeatTimeout, At
<1>4. UNCHANGED <<discipline, holder, socket, sockets, reading,
                     isConnected, receivingRunning, heartbeatRunning,
                     callbackEventQueue, requests, sessions, enables, phase>>
  BY DEF TypeOK, BeatTimeout, At, pointers, flags, appVars
<1>. USE <1>1, <1>3, <1>4 DEF Moves, ClosePc
<1>5. LocksHeld' /\ ThreadsPlaced'
  BY DEF LocksHeld, ThreadsPlaced
<1>6. OneSession'
  BY DEF OneSession, Quiet
<1>7. OneCloser'
  BY DEF OneCloser
<1>8. SessionInStep(s)'
  BY DEF SessionInStep
<1>9. RequestsInStep' /\ (Patient => PatientInStep')
  BY DEF RequestsInStep, PatientInStep, AllQuiet, Quiet
<1>. QED BY <1>2, <1>5, <1>6, <1>7, <1>8, <1>9 DEF Patient

LEMMA SendBeatKeeps ==
  ASSUME InStep, NEW s \in Sessions, SendBeat(s), UNCHANGED discipline
  PROVE  InStep'
<1>. USE ThreadNames DEF InStep, DisablesItself
<1>1. s = sessions /\ sessions # 0
  BY DEF OneSession, Quiet, Sessions, SendBeat, At
<1>2. TypeOK'
  BY DEF TypeOK, SendBeat, Goto, At, Pc, ClosePc, pointers, flags, appVars
<1>3. Moves(Beat(s), "checkBeat") /\ pc[Beat(s)] = "sendBeat"
  BY GotoMoves DEF SendBeat, At
<1>4. /\ holder["socket"] = Nobody
      /\ UNCHANGED <<discipline, holder, socket, sockets, reading,
                     isConnected, receivingRunning, heartbeatRunning,
                     callbackEventQueue, requests, sessions, enables, phase>>
  BY DEF TypeOK, SendBeat, At, Free, pointers, flags, appVars
<1>. USE <1>1, <1>3, <1>4 DEF Moves, ClosePc
<1>5. LocksHeld' /\ ThreadsPlaced'
  BY DEF LocksHeld, ThreadsPlaced
<1>6. OneSession'
  BY DEF OneSession, Quiet
<1>7. OneCloser'
  BY DEF OneCloser
<1>8. SessionInStep(s)'
  BY DEF SessionInStep
<1>9. RequestsInStep' /\ (Patient => PatientInStep')
  BY DEF RequestsInStep, PatientInStep, AllQuiet, Quiet
<1>. QED BY <1>2, <1>5, <1>6, <1>7, <1>8, <1>9 DEF Patient

LEMMA EndBeatKeeps ==
  ASSUME InStep, NEW s \in Sessions, EndBeat(s), UNCHANGED discipline
  PROVE  InStep'
<1>. USE ThreadNames DEF InStep, DisablesItself
<1>1. s = sessions /\ sessions # 0
  BY DEF OneSession, Quiet, Sessions, EndBeat, At
<1>2. TypeOK'
  BY DEF TypeOK, EndBeat, Goto, At, Pc, ClosePc, pointers, appVars
<1>3. Moves(Beat(s), "notify") /\ pc[Beat(s)] = "endBeat"
  BY GotoMoves DEF EndBeat, At
<1>4. /\ heartbeatRunning' = FALSE
      /\ UNCHANGED <<discipline, holder, socket, sockets, reading,
                     isConnected, receivingRunning, callbackEventQueue, requests,
                     sessions, enables, phase>>
  BY DEF TypeOK, EndBeat, At, pointers, appVars
<1>. USE <1>1, <1>3, <1>4 DEF Moves, ClosePc
<1>5. LocksHeld' /\ ThreadsPlaced'
  BY DEF LocksHeld, ThreadsPlaced
<1>6. OneSession'
  BY DEF OneSession, Quiet
<1>7. OneCloser'
  BY DEF OneCloser
<1>8. SessionInStep(s)'
  BY DEF SessionInStep
<1>9. RequestsInStep' /\ (Patient => PatientInStep')
  BY DEF RequestsInStep, PatientInStep, AllQuiet, Quiet
<1>. QED BY <1>2, <1>5, <1>6, <1>7, <1>8, <1>9 DEF Patient

LEMMA BeatLoopKeeps ==
  ASSUME InStep, NEW s \in Sessions, BeatLoop(s), UNCHANGED discipline
  PROVE  InStep'
<1>. USE ThreadNames DEF InStep, DisablesItself
<1>1. s = sessions /\ sessions # 0
  BY DEF OneSession, Quiet, Sessions, BeatLoop, At
<1>2. TypeOK'
  <2>1. pc' \in [Threads -> Pc]
    BY DEF TypeOK, BeatLoop, Goto, Pc
  <2>2. holder' \in [Mutex -> Threads \cup {Nobody}]
    BY DEF TypeOK, BeatLoop, Mutex, Release
  <2>. QED BY <2>1, <2>2 DEF TypeOK, BeatLoop, pointers, flags, appVars
<1>3. pc[Beat(s)] = "checkBeat" /\ \A t \in Threads \ {Beat(s)} : pc'[t] = pc[t]
  BY DEF TypeOK, BeatLoop, Goto, At
<1>4. /\ \/ pc'[Beat(s)] = "endBeat" /\ ~isConnected /\ holder' = holder
         \/ pc'[Beat(s)] = "sendBeat" /\ isConnected /\ holder' = holder
         \/ pc'[Beat(s)] = "sleeping" /\ isConnected /\ holder'["heartBeat"] = Nobody
      /\ holder'["socket"] = holder["socket"] /\ holder'["eventQueue"] = holder["eventQueue"]
      /\ UNCHANGED <<discipline, socket, sockets, reading, isConnected,
                     receivingRunning, heartbeatRunning, callbackEventQueue,
                     requests, sessions, enables, phase>>
  BY DEF TypeOK, BeatLoop, At, Release, pointers, flags, appVars, Mutex, Goto
<1>. USE <1>1, <1>3, <1>4 DEF Moves, ClosePc
<1>5. LocksHeld' /\ ThreadsPlaced'
  BY DEF LocksHeld, ThreadsPlaced
<1>6. OneSession'
  BY DEF OneSession, Quiet
<1>7. OneCloser'
  BY DEF OneCloser
<1>8. SessionInStep(s)'
  BY DEF SessionInStep
<1>9. RequestsInStep' /\ (Patient => PatientInStep')
  BY DEF RequestsInStep, PatientInStep, AllQuiet, Quiet
<1>. QED BY <1>2, <1>5, <1>6, <1>7, <1>8, <1>9 DEF Patient

LEMMA NotifyThreadsKeeps ==
  ASSUME InStep, NEW s \in Sessions, NotifyThreads(s), UNCHANGED discipline
  PROVE  InStep'
<1>. USE ThreadNames DEF InStep, DisablesItself
<1>1. TypeOK'
  BY DEF TypeOK, NotifyThreads, NotifyOne, Goto, At, Pc, ClosePc, pointers, flags,
         appVars, Mutex, Release
<1>2. Notifies(Beat(s), "done", "waiting", "woken") /\ pc[Beat(s)] = "notify"
  BY NotifyOneNotifies DEF NotifyThreads, At
<1>3. /\ holder'["heartBeat"] = Nobody
      /\ holder'["socket"] = holder["socket"] /\ holder'["eventQueue"] = holder["eventQueue"]
      /\ UNCHANGED <<discipline, socket, sockets, reading, isConnected,
                     receivingRunning, heartbeatRunning, callbackEventQueue,
                     requests, sessions, enables, phase>>
  BY DEF TypeOK, NotifyThreads, At, Release, pointers, flags, appVars, Mutex
<1>. USE <1>2, <1>3 DEF Notifies, ClosePc
<1>4. LocksHeld' /\ ThreadsPlaced'
  BY DEF LocksHeld, ThreadsPlaced
<1>5. OneSession'
  BY DEF OneSession, AllQuiet, Quiet
<1>6. OneCloser'
  BY DEF OneCloser
<1>7. \A u \in Sessions : u = sessions => SessionInStep(u)'
  BY DEF SessionInStep
<1>8. RequestsInStep' /\ (Patient => PatientInStep')
  BY DEF RequestsInStep, PatientInStep, AllQuiet, Quiet
<1>. QED BY <1>1, <1>4, <1>5, <1>6, <1>7, <1>8 DEF Patient

-----------------------------------------------------------------------------
(* Every step *)

LEMMA InitInStep == CarefulApps /\ Init => InStep
<1>. SUFFICES ASSUME CarefulApps, Init PROVE InStep
  OBVIOUS
<1>. USE ThreadNames DEF Init
<1>1. /\ \A t \in Threads : pc[t] = IF t = App THEN "idle" ELSE "none"
      /\ \A m \in Mutex : holder[m] = Nobody
      /\ Len(callbackEventQueue) = 0 /\ 0 \notin Sessions
  BY DEF Sessions
<1>2. TypeOK
  <2>1. pc \in [Threads -> Pc]
    BY DEF Pc
  <2>2. holder \in [Mutex -> Threads \cup {Nobody}]
    OBVIOUS
  <2>3. /\ requests \in 0 .. MaxEnables /\ sessions \in 0 .. MaxEnables
        /\ enables \in 0 .. MaxEnables
    BY RTTAssumption
  <2>4. callbackEventQueue \in Seq({"success", "failure"})
    OBVIOUS
  <2>. QED BY <2>1, <2>2, <2>3, <2>4 DEF TypeOK
<1>3. LocksHeld /\ ThreadsPlaced /\ OneCloser
  BY <1>1 DEF LocksHeld, ThreadsPlaced, OneCloser, Mutex, ClosePc
<1>4. AllQuiet
  BY <1>1 DEF AllQuiet, Quiet
<1>5. OneSession
  BY <1>1, <1>4 DEF OneSession, AllQuiet, ClosePc
<1>6. RequestsInStep /\ PatientInStep
  BY <1>1, <1>4 DEF RequestsInStep, PatientInStep, ClosePc
<1>7. DisablesItself
  BY DEF CarefulApps, DisablesItself
<1>. QED BY <1>1, <1>2, <1>3, <1>5, <1>6, <1>7 DEF InStep

LEMMA StutterKeeps == InStep /\ UNCHANGED vars => InStep'
<1>. SUFFICES ASSUME InStep, UNCHANGED vars PROVE InStep'
  OBVIOUS
<1>1. UNCHANGED <<discipline, pc, holder, socket, sockets, reading, isConnected,
                  receivingRunning, heartbeatRunning, callbackEventQueue, requests,
                  sessions, enables, phase>>
  BY DEF vars, state, pointers, flags, appVars
<1>. QED
  BY <1>1 DEF InStep, DisablesItself, TypeOK, LocksHeld, ThreadsPlaced, OneSession, OneCloser,
     SessionInStep, RequestsInStep, Patient, PatientInStep, AllQuiet, Quiet

LEMMA CloseSocketKeeps ==
  ASSUME InStep, NEW t \in Threads, CloseSocket(t), UNCHANGED discipline
  PROVE  InStep'
BY ClearConnectedKeeps, CloseLockKeeps, CloseNotifyBeatKeeps, CloseCheckThreadsKeeps, CloseWaitKeeps,
   CloseWakeKeeps, CloseDeleteKeeps, ClearEventsKeeps DEF CloseSocket

LEMMA StepKeeps ==
  ASSUME CarefulApps, InStep, [Next]_vars
  PROVE  InStep'
<1>. USE ThreadNames
<1>1. CASE UNCHANGED vars
  BY <1>1, StutterKeeps
<1>2. CASE Next
  <2>. UNCHANGED discipline
    BY <1>2 DEF Next
  <2>1. CASE EnableRTT \/ DisableRTT
    BY <2>1, EnableRTTKeeps, DisableRTTKeeps
  <2>2. CASE AppRuns
    BY <2>2, ServerCallbackKeeps, ServerErrorKeeps, RunCallbacksKeeps,
       RunConnectCallbackKeeps, ReturnFromRunCallbacksKeeps, CloseSocketKeeps DEF AppRuns
  <2>3. ASSUME NEW s \in Sessions, ConnRuns(s)
        PROVE  InStep'
    BY <2>3, ConnectKeeps, ValidateKeeps, ConnectedKeeps, StartReceivingKeeps, GreetKeeps,
       CloseSocketKeeps, ConnFailedKeeps DEF ConnRuns
  <2>4. ASSUME NEW s \in Sessions, RecvRuns(s) \/ RecvMessage(s)
        PROVE  InStep'
    BY <2>4, CheckConnectedKeeps, EnterRecvKeeps, RecvOnClosedKeeps, RecvMessageKeeps,
       StartHeartbeatKeeps, PushSuccessKeeps, RunEventCallbackKeeps, EndReceivingKeeps,
       CloseSocketKeeps, RecvFailedKeeps DEF RecvRuns
  <2>5. ASSUME NEW s \in Sessions, BeatRuns(s)
        PROVE  InStep'
    BY <2>5, BeatStartKeeps, BeatLoopKeeps, BeatTimeoutKeeps, SendBeatKeeps, EndBeatKeeps,
       NotifyThreadsKeeps DEF BeatRuns
  <2>. QED BY <1>2, <2>1, <2>2, <2>3, <2>4, <2>5 DEF Next, Runs
<1>. QED BY <1>1, <1>2

LEMMA StaysInStep ==
  ASSUME CarefulApps
  PROVE  Spec => []InStep
<1>1. Init => InStep
  BY InitInStep
<1>2. InStep /\ [Next]_vars => InStep'
  BY StepKeeps
<1>. QED BY <1>1, <1>2, PTL DEF Spec

LEMMA InStepSuffices == InStep => ThreadsInStep
BY DEF InStep, ThreadsInStep, SessionsInStep

\* The three threads of a session, its socket, its flags and what the app knows of it
\* move in step, one thread closes a session, and it ends before the next one starts: so
\* it is for every app that does not disable RTT from its event callback, and enables it
\* again only if it waits for the answer to enableRTT.
THEOREM ThreadsStayInStep ==
  ASSUME CarefulApps
  PROVE  Spec => []ThreadsInStep
BY StaysInStep, InStepSuffices, PTL

LEMMA UsersHaveTheirSocket == InStep => SocketOutlivesItsUsers
<1>. SUFFICES ASSUME InStep, NEW s \in Sessions
     PROVE  /\ At(Recv(s), "blocked") => Live(reading[s])
            /\ At(Conn(s), "validate") \/ At(Recv(s), "recv") => Live(socket)
            /\ At(Conn(s), "greet") \/ At(Beat(s), "sendBeat") =>
                 (Free("socket") /\ isConnected => Live(socket))
  BY DEF SocketOutlivesItsUsers, ReceiverHoldsSocket
<1>. USE ThreadNames DEF InStep, At, Live
<1>1. CASE s # sessions
  BY <1>1, OpenSession DEF OneSession, Quiet, SessionInStep
<1>2. CASE s = sessions
  BY <1>2 DEF SessionInStep, Sessions, NoSocket
<1>. QED BY <1>1, <1>2

\* closeSocket deletes a socket only when no thread can follow _socket to it any more:
\* neither the receive thread, inside recv() or on its way there, nor the connection
\* thread in isValid() or send(), nor a heartbeat thread in send().
THEOREM SocketsOutliveTheirUsers ==
  ASSUME CarefulApps
  PROVE  Spec => []SocketOutlivesItsUsers
BY StaysInStep, UsersHaveTheirSocket, PTL

LEMMA PatientAppLeavesNothing ==
  InStep => NothingOutlivesDisable /\ (Patient => DisabledStaysDisabled)
BY DEF InStep, PatientInStep, AllQuiet, Quiet, NothingOutlivesDisable,
       DisabledStaysDisabled, At

\* When disableRTT has returned to a patient app, resetCommunication has left no
\* socket, no news in _callbackEventQueue and no thread that still does anything; and
\* the client does not connect before the next enableRTT.
THEOREM NothingIsLeftAfterDisable ==
  ASSUME CarefulApps
  PROVE  Spec => []NothingOutlivesDisable /\ [](Patient => DisabledStaysDisabled)
BY StaysInStep, PatientAppLeavesNothing, PTL

LEMMA SomeoneWillNotify == InStep => WaitIsWoken
<1>. SUFFICES ASSUME InStep, Unconfirmed, NEW t \in Threads, At(t, "waiting")
     PROVE  \E s \in Sessions : pc[Recv(s)] \notin {"none", "done", "waiting"}
  BY DEF WaitIsWoken
<1>. USE ThreadNames DEF At, ClosePc
<1>1. PICK s \in Sessions : s = sessions /\ t \in {App, Conn(s), Recv(s)}
  BY CloserNamed
<1>2. t = App
  BY <1>1 DEF InStep, OneCloser, SessionInStep
<1>3. pc[Recv(s)] # "waiting"
  BY DEF InStep, OneCloser
<1>. QED BY <1>1, <1>2, <1>3 DEF InStep, SessionInStep, Unconfirmed

\* While the app waits in closeSocket and no heartbeat thread was ever started, the
\* receive thread has not yet notified: EndReceiving clears the flag and notifies
\* under the mutex that closeSocket holds while it looks at the flag.
THEOREM TheWaitIsWoken ==
  ASSUME CarefulApps
  PROVE  Spec => []WaitIsWoken
BY StaysInStep, SomeoneWillNotify, PTL

=============================================================================
