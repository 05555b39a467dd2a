----------------------------- MODULE CommsThreads -----------------------------
(***************************************************************************)
(* DefaultBrainCloudComms and cURLLoader as threads and mutexes.           *)
(*                                                                         *)
(* Comms takes every call of the engine as one step.  Here the steps are   *)
(* cut where a mutex is taken: the main thread runs the frame loop and the *)
(* callbacks of the app, networkError() with _loaderMutex held, the others *)
(* with _mutex; other threads call into the engine; each loader has a      *)
(* thread of its own.  _queueMutex is never held while another mutex is    *)
(* taken, so its sections are single steps and it needs no variable;       *)
(* _loaderMutex and _mutex are recursive.  Of the calls only the numbers   *)
(* are kept, of a loader its thread and its memory.                        *)
(***************************************************************************)
EXTENDS Integers, FiniteSets

CONSTANTS
  Main,         \* the thread that runs runCallbacks
  Workers,      \* other threads of the app
  Disciplines,  \* what the app calls: workers, the main thread (callbacks included), networkError()
  Failures,     \* subset of {"retry", "block", "noThread"}
  MaxOps,       \* bound: calls of the app into the engine
  MaxLoaders    \* bound: loaders with a thread at a time; each call may leave one behind

Calls == {"add", "register", "retry", "flush", "reset"}

ASSUME CommsThreadsAssumption ==
  /\ Main \notin Workers
  /\ "nobody" \notin Workers \cup {Main}
  /\ Disciplines \subseteq [worker : SUBSET Calls, main : SUBSET Calls, inError : SUBSET Calls]
  /\ Failures \subseteq {"retry", "block", "noThread"}
  /\ MaxOps \in Nat /\ MaxLoaders \in Nat
  /\ MaxLoaders > MaxOps

Threads == Workers \cup {Main}
Nobody  == "nobody"

VARIABLES
  discipline,  \* the one this app follows
  pc,          \* where each thread is
  loaderMutex, \* _loaderMutex: who holds it
  mutex,       \* _mutex
  queue,       \* calls in _queue
  inProgress,  \* calls in _inProgress
  events,      \* entries of _apiCallbackQueue
  request,     \* _request # NULL
  retrying,    \* _retryTimeMillis is set
  blocking,    \* _blockingQueue
  loader,      \* _loader, 0 for NULL
  work,        \* the thread of each loader: "none", "running", "never" (not started) or "over"
  memory,      \* each loader's: "none", "alive", "freed" or "leaked"
  back,        \* what the calls of the main thread return to: its own business or a callback
  ops          \* history: calls of the app

mutexes == <<loaderMutex, mutex>>
state   == <<queue, inProgress, events, request, retrying, blocking>>
loaders == <<loader, work, memory>>
app     == <<back, ops>>
vars    == <<discipline, pc, mutexes, state, loaders, app>>

Loaders == 1 .. MaxLoaders

Callbacks == {"error", "callback", "uploads"}
Frame     == {"lock", "poll", "bundle", "send", "handle", "push", "clear", "drop", "unlock",
              "events"} \cup Callbacks
Procedure == {"register", "retry", "retrySend", "flush", "flushPush", "flushFree",
              "reset", "resetWait", "resetDelete", "resetFree", "resetQueue"}

ThreadTypes ==
  /\ discipline \in Disciplines
  /\ pc \in [Threads -> {"idle"} \cup Frame \cup Procedure]
  /\ work \in [Loaders -> {"none", "running", "never", "over"}]
  /\ memory \in [Loaders -> {"none", "alive", "freed", "leaked"}]
  /\ back \in {"idle"} \cup Callbacks

TypeOK ==
  /\ ThreadTypes
  /\ loaderMutex \in Threads \cup {Nobody} /\ mutex \in Threads \cup {Nobody}
  /\ queue \in Nat /\ inProgress \in Nat /\ events \in Nat
  /\ request \in BOOLEAN /\ retrying \in BOOLEAN /\ blocking \in BOOLEAN

Init ==
  /\ discipline \in Disciplines
  /\ pc = [t \in Threads |-> "idle"]
  /\ loaderMutex = Nobody /\ mutex = Nobody
  /\ queue = 0 /\ inProgress = 0 /\ events = 0
  /\ request = FALSE /\ retrying = FALSE /\ blocking = FALSE
  /\ loader = 0
  /\ work = [l \in Loaders |-> "none"] /\ memory = [l \in Loaders |-> "none"]
  /\ back = "idle" /\ ops = 0

-----------------------------------------------------------------------------
(* Helpers *)

GoTo(t, step)  == pc' = [pc EXCEPT ![t] = step]
Free(m, t)     == m \in {Nobody, t}

\* A call returns to where the app made it; on the main thread that may be a callback.
Origin(t) == IF t = Main THEN back ELSE "idle"
Return(t) == GoTo(t, Origin(t))

\* _loaderMutex is recursive: what is called from networkError() leaves it locked.
LetGoOfLoader(t) == loaderMutex' = IF Origin(t) = "error" THEN t ELSE Nobody

\* The number of a loader that nobody has and no thread works on is used again.
NewLoader == CHOOSE l \in Loaders : memory[l] # "alive" /\ work[l] # "running"

\* startHttpRequest: a loader that copies *_request, and its thread; one that _loader
\* still named is forgotten.  When the thread cannot be started the loader is marked as
\* running all the same.
StartHttpRequest ==
  /\ loader' = NewLoader
  /\ memory' = [l \in Loaders |-> CASE l = NewLoader -> "alive"
                                    [] l = loader /\ l # NewLoader -> "leaked"
                                    [] OTHER -> memory[l]]
  /\ \E start \in {"running"} \cup (IF "noThread" \in Failures THEN {"never"} ELSE {}) :
       work' = [work EXCEPT ![NewLoader] = start]
  /\ retrying' = FALSE

IsDone(l) == work[l] = "over"

\* The answers of the bundle are queued for the app, under _mutex.
PushEvents(t) ==
  /\ Free(mutex, t)
  /\ events' = events + inProgress

-----------------------------------------------------------------------------
(* The loader threads *)

\* The transfer is over, one way or the other; the flag is the last thing written.
ThreadEnds(l) ==
  /\ work[l] = "running"
  /\ work' = [work EXCEPT ![l] = "over"]
  /\ UNCHANGED <<discipline, pc, mutexes, state, loader, memory, app>>

-----------------------------------------------------------------------------
(* The main thread: runCallbacks, first half *)

EnterFrame ==
  /\ pc[Main] = "idle" /\ ~blocking
  /\ GoTo(Main, "lock")
  /\ UNCHANGED <<discipline, mutexes, state, loaders, app>>

LockLoader ==
  /\ pc[Main] = "lock" /\ Free(loaderMutex, Main)
  /\ loaderMutex' = Main
  /\ GoTo(Main, "poll")
  /\ UNCHANGED <<discipline, mutex, state, loaders, app>>

Poll ==
  /\ pc[Main] = "poll"
  /\ \/ /\ loader # 0
        /\ GoTo(Main, IF IsDone(loader) THEN "handle" ELSE "unlock")
        /\ UNCHANGED <<state, loaders>>
     \/ /\ loader = 0 /\ retrying /\ request
        /\ StartHttpRequest
        /\ GoTo(Main, "unlock")
        /\ UNCHANGED <<queue, inProgress, events, request, blocking>>
     \/ /\ loader = 0 /\ ~(retrying /\ request)
        /\ GoTo(Main, IF queue > 0 THEN "bundle" ELSE "unlock")
        /\ UNCHANGED <<state, loaders>>
  /\ UNCHANGED <<discipline, mutexes, app>>

\* createAndSendBundle: the calls leave the queue, then the request is made anew; a
\* bundle without a session is answered on the spot.
TakeBundle ==
  /\ pc[Main] = "bundle"
  /\ IF queue > 0 THEN GoTo(Main, "send") \/ GoTo(Main, "push") ELSE GoTo(Main, "unlock")
  /\ inProgress' = inProgress + queue
  /\ queue' = 0
  /\ UNCHANGED <<discipline, mutexes, events, request, retrying, blocking, loaders, app>>

Send ==
  /\ pc[Main] = "send"
  /\ request' = TRUE
  /\ StartHttpRequest
  /\ GoTo(Main, "unlock")
  /\ UNCHANGED <<discipline, mutexes, queue, inProgress, events, blocking, app>>

\* handleResult, up to the calls that it answers or the networkError() of the app.
Handle ==
  /\ pc[Main] = "handle"
  /\ \/ /\ inProgress = 0
        /\ GoTo(Main, "drop")
        /\ UNCHANGED <<retrying, blocking, back>>
     \/ /\ inProgress > 0
        /\ GoTo(Main, "push")
        /\ UNCHANGED <<retrying, blocking, back>>
     \/ /\ inProgress > 0 /\ "retry" \in Failures
        /\ retrying' = TRUE
        /\ GoTo(Main, "drop")
        /\ UNCHANGED <<blocking, back>>
     \/ /\ inProgress > 0 /\ "block" \in Failures
        /\ blocking' = TRUE
        /\ back' = "error" /\ GoTo(Main, "error")
        /\ UNCHANGED retrying
  /\ UNCHANGED <<discipline, mutexes, queue, inProgress, events, request, loaders, ops>>

Push ==
  /\ pc[Main] = "push"
  /\ PushEvents(Main)
  /\ GoTo(Main, "clear")
  /\ UNCHANGED <<discipline, mutexes, queue, inProgress, request, retrying, blocking, loaders, app>>

ClearInProgress ==
  /\ pc[Main] = "clear"
  /\ inProgress' = 0
  /\ GoTo(Main, IF loader = 0 THEN "unlock" ELSE "drop")
  /\ UNCHANGED <<discipline, mutexes, queue, events, request, retrying, blocking, loaders, app>>

\* Mutant: a loader that has failed is kept for the retry.
KeepsLoader ==
  /\ pc[Main] = "drop"
  /\ IF retrying \/ loader = 0 THEN UNCHANGED <<loader, memory>>
                 ELSE memory' = [memory EXCEPT ![loader] = "freed"] /\ loader' = 0
  /\ GoTo(Main, "unlock")
  /\ UNCHANGED <<discipline, mutexes, state, work, app>>

\* Whatever _loader names by then is deleted, the loader of the result or not.
DropLoader ==
  /\ pc[Main] = "drop"
  /\ IF loader = 0 THEN UNCHANGED memory
                   ELSE memory' = [memory EXCEPT ![loader] = "freed"]
  /\ loader' = 0
  /\ GoTo(Main, "unlock")
  /\ UNCHANGED <<discipline, mutexes, state, work, app>>

UnlockLoader ==
  /\ pc[Main] = "unlock"
  /\ loaderMutex' = Nobody
  /\ GoTo(Main, "events")
  /\ UNCHANGED <<discipline, mutex, state, loaders, app>>

-----------------------------------------------------------------------------
(* Calls of the app *)

CallsOf(t) ==
  IF t # Main THEN discipline.worker
  ELSE IF back = "error" THEN discipline.inError ELSE discipline.main

\* A call into the engine; addToQueue and an idle callback are over at once.
Begin(t) ==
  \/ Return(t) /\ UNCHANGED <<queue, ops>>
  \/ /\ ops < MaxOps
     /\ ops' = ops + 1
     /\ \/ /\ "add" \in CallsOf(t)
           /\ queue' = queue + 1
           /\ Return(t)
        \/ /\ \E call \in CallsOf(t) \ {"add"} : GoTo(t, call)
           /\ UNCHANGED queue

AppCalls(t) ==
  /\ pc[t] = "idle"
  /\ Begin(t)
  /\ UNCHANGED <<discipline, mutexes, inProgress, events, request, retrying, blocking, loaders,
                 back>>

\* The app's networkError(), called in the middle of handleResult with _loaderMutex held.
NetworkError ==
  /\ pc[Main] = "error"
  /\ Begin(Main)
  /\ UNCHANGED <<discipline, mutexes, inProgress, events, request, retrying, blocking, loaders,
                 back>>

EndNetworkError ==
  /\ pc[Main] = "error"
  /\ back' = "idle"
  /\ GoTo(Main, "drop")
  /\ UNCHANGED <<discipline, mutexes, state, loaders, ops>>

\* runCallbacks, second half: the app is called with _mutex held.
LockEvents ==
  /\ pc[Main] = "events" /\ Free(mutex, Main)
  /\ mutex' = Main
  /\ back' = "callback" /\ GoTo(Main, "callback")
  /\ UNCHANGED <<discipline, loaderMutex, state, loaders, ops>>

Callback ==
  /\ pc[Main] = "callback" /\ events > 0
  /\ events' = events - 1
  /\ Begin(Main)
  /\ UNCHANGED <<discipline, mutexes, inProgress, request, retrying, blocking, loaders, back>>

EndCallbacks ==
  /\ pc[Main] = "callback" /\ events = 0
  /\ back' = "uploads" /\ GoTo(Main, "uploads")
  /\ UNCHANGED <<discipline, mutexes, state, loaders, ops>>

\* runCallbacksFileUpload tells the app of an upload that is over, at whatever time that
\* is (see Uploads), also in the frame in which the engine has been blocked.
UploadCallback ==
  /\ pc[Main] = "uploads"
  /\ Begin(Main)
  /\ UNCHANGED <<discipline, mutexes, inProgress, events, request, retrying, blocking, loaders,
                 back>>

EndFrame ==
  /\ pc[Main] = "uploads"
  /\ mutex' = Nobody
  /\ back' = "idle" /\ GoTo(Main, "idle")
  /\ UNCHANGED <<discipline, loaderMutex, state, loaders, ops>>

\* The register and deregister methods.
Register(t) ==
  /\ pc[t] = "register" /\ Free(mutex, t)
  /\ Return(t)
  /\ UNCHANGED <<discipline, mutexes, state, loaders, app>>

\* retryCachedMessages tests _request, which a reset does not free under the mutex, ...
RetryCachedMessages(t) ==
  /\ pc[t] = "retry" /\ Free(loaderMutex, t)
  /\ IF blocking /\ request THEN loaderMutex' = t /\ GoTo(t, "retrySend")
                            ELSE Return(t) /\ UNCHANGED loaderMutex
  /\ UNCHANGED <<discipline, mutex, state, loaders, app>>

\* ... and then has a new loader copy it.
RetrySend(t) ==
  /\ pc[t] = "retrySend"
  /\ StartHttpRequest
  /\ blocking' = FALSE
  /\ LetGoOfLoader(t)
  /\ Return(t)
  /\ UNCHANGED <<discipline, mutex, queue, inProgress, events, request, app>>

\* Mutants: the mutexes are taken in the other order; the first one is not taken.
FlushFromBehind(t) ==
  /\ pc[t] = "flush" /\ Free(mutex, t)
  /\ mutex' = t
  /\ GoTo(t, IF blocking THEN "flushPush" ELSE "flushFree")
  /\ UNCHANGED <<discipline, loaderMutex, state, loaders, app>>

FlushUnlocked(t) ==
  /\ pc[t] = "flush"
  /\ GoTo(t, IF blocking THEN "flushPush" ELSE "flushFree")
  /\ UNCHANGED <<discipline, mutexes, state, loaders, app>>

\* With or without the callbacks of the calls that are dropped.
FlushCachedMessages(t) ==
  /\ pc[t] = "flush" /\ Free(loaderMutex, t)
  /\ loaderMutex' = t
  /\ \/ blocking /\ GoTo(t, "flushPush")
     \/ GoTo(t, "flushFree")
  /\ UNCHANGED <<discipline, mutex, state, loaders, app>>

\* triggerCommsError
FlushPush(t) ==
  /\ pc[t] = "flushPush"
  /\ PushEvents(t)
  /\ GoTo(t, "flushFree")
  /\ UNCHANGED <<discipline, mutexes, queue, inProgress, request, retrying, blocking, loaders, app>>

FlushFree(t) ==
  /\ pc[t] = "flushFree"
  /\ IF blocking THEN inProgress' = 0 /\ request' = FALSE /\ blocking' = FALSE
                 ELSE UNCHANGED <<inProgress, request, blocking>>
  /\ LetGoOfLoader(t)
  /\ Return(t)
  /\ UNCHANGED <<discipline, mutex, queue, events, retrying, loaders, app>>

\* resetCommunication: the loader is closed and waited for, two seconds at most.
ResetCommunication(t) ==
  /\ pc[t] = "reset" /\ Free(loaderMutex, t)
  /\ loaderMutex' = t
  /\ GoTo(t, IF loader # 0 THEN "resetWait" ELSE "resetDelete")
  /\ UNCHANGED <<discipline, mutex, state, loaders, app>>

ResetWait(t) ==
  /\ pc[t] = "resetWait"
  /\ GoTo(t, "resetDelete")
  /\ UNCHANGED <<discipline, mutexes, state, loaders, app>>

\* Mutant: after two seconds the loader goes, done or not.
DeletesAnyway(l) == "freed"

\* A loader that has not stopped by then is given up, with its memory.
FateOf(l) == IF IsDone(l) THEN "freed" ELSE "leaked"

ResetDelete(t) ==
  /\ pc[t] = "resetDelete"
  /\ IF loader = 0 THEN UNCHANGED <<loader, memory>>
                   ELSE memory' = [memory EXCEPT ![loader] = FateOf(loader)] /\ loader' = 0
  /\ LetGoOfLoader(t)
  /\ GoTo(t, "resetFree")
  /\ UNCHANGED <<discipline, mutex, state, work, app>>

\* What follows is done without a mutex.
ResetFree(t) ==
  /\ pc[t] = "resetFree"
  /\ inProgress' = 0 /\ request' = FALSE /\ retrying' = FALSE /\ blocking' = FALSE
  /\ GoTo(t, "resetQueue")
  /\ UNCHANGED <<discipline, mutexes, queue, events, loaders, app>>

ResetQueue(t) ==
  /\ pc[t] = "resetQueue"
  /\ queue' = 0
  /\ Return(t)
  /\ UNCHANGED <<discipline, mutexes, inProgress, events, request, retrying, blocking, loaders, app>>

-----------------------------------------------------------------------------

RunCallbacks ==
  \/ EnterFrame \/ LockLoader \/ Poll \/ TakeBundle \/ Send \/ Handle \/ Push
  \/ NetworkError \/ EndNetworkError
  \/ ClearInProgress \/ DropLoader \/ UnlockLoader \/ LockEvents \/ Callback
  \/ EndCallbacks \/ UploadCallback \/ EndFrame

InCall(t) ==
  \/ Register(t) \/ RetryCachedMessages(t) \/ RetrySend(t)
  \/ FlushCachedMessages(t) \/ FlushPush(t) \/ FlushFree(t)
  \/ ResetCommunication(t) \/ ResetWait(t) \/ ResetDelete(t) \/ ResetFree(t) \/ ResetQueue(t)

Next ==
  \/ RunCallbacks
  \/ \E t \in Threads : AppCalls(t) \/ InCall(t)
  \/ \E l \in Loaders : ThreadEnds(l)

Spec == Init /\ [][Next]_vars

\* The app runs a frame again and again, its calls go on, a transfer ends (it has a
\* timeout); a mutex that is free again and again is taken in the end.
Fairness ==
  /\ SF_vars(RunCallbacks)
  /\ \A t \in Threads : SF_vars(InCall(t))
  /\ \A l \in Loaders : WF_vars(ThreadEnds(l))

FairSpec == Spec /\ Fairness

-----------------------------------------------------------------------------
(* Properties *)

\* A loader's memory goes only after its thread has written to it for the last time.
LoaderOutlivesItsThread == \A l \in Loaders : memory[l] = "freed" => work[l] = "over"

\* The calls in progress and the request are freed by one thread only while no other
\* is in the middle of using them.
Using   == {"send", "handle", "push", "clear", "retrySend", "flushPush", "flushFree"}
Freeing == {"send", "clear", "flushFree", "resetFree"}

NobodyUsesWhatIsFreed ==
  \A t, u \in Threads : t # u /\ pc[t] \in Freeing => pc[u] \notin Using

\* The ways to use the engine that the two mutexes cover: only the main thread resets,
\* and only if no other thread retries or flushes; nothing is retried in networkError().
OnlyMainResets(d) ==
  /\ "reset" \notin d.worker
  /\ "reset" \in d.main \cup d.inError => d.worker \cap {"retry", "flush"} = {}
RetriesAfterError(d) == "retry" \notin d.inError

\* Only one request is out at a time, but for those that a reset has given up: no loader
\* is replaced, or forgotten by deleting it, while its thread is running.
OneRequestAtATime ==
  Cardinality({l \in Loaders : work[l] = "running" /\ memory[l] # "leaked"}) <= 1

\* The threads never wait for each other in a circle: every frame ends, every call
\* of the app returns, whatever the others do.
CallsReturn == \A t \in Threads : (pc[t] # "idle") ~> (pc[t] = "idle")

\* No request stays out for ever: the engine handles every loader that comes to an end,
\* and then lets go of it.  (One whose thread could not be started never does, and
\* the engine waits for it until the app resets: see the README.)
NeverStarted == loader # 0 /\ work[loader] = "never"
AnswerComes  == (loader # 0) ~> (loader = 0 \/ NeverStarted)

\* The invariant the proofs use.  Who is between LockLoader and UnlockLoader, or in the
\* section of a flush or a reset, holds _loaderMutex.
InSection ==
  {"poll", "bundle", "send", "handle", "error", "push", "clear", "drop", "unlock",
   "retrySend", "flushPush", "flushFree", "resetWait", "resetDelete"}
SectionsLocked ==
  /\ \A t \in Threads : pc[t] \in InSection => loaderMutex = t
  /\ back = "error" => loaderMutex = Main

\* The only loader with its memory in use is _loader, and no other has a thread but one
\* that was given up.  It is done when a result is handled; there is none when a bundle
\* is made or sent again, and none while the engine is blocked, but for the one whose
\* failure blocks it.
OnlyLoaderAlive ==
  /\ \A l \in Loaders : memory[l] = "alive" => l = loader
  /\ \A l \in Loaders : memory[l] = "none" => work[l] = "none"
LoaderFitsFrame ==
  /\ pc[Main] \in {"bundle", "send"} => loader = 0
  /\ \A t \in Threads : pc[t] = "retrySend" => loader = 0
  /\ (pc[Main] \in {"handle", "push", "clear", "drop"} \/ back = "error") /\ loader \in Loaders
       => IsDone(loader)
  /\ blocking => /\ loader = 0 \/ pc[Main] = "drop" \/ back = "error"
                 /\ pc[Main] \notin {"lock", "poll", "bundle", "send", "handle", "push", "clear"}

\* A thread is inside a call only if the discipline lets it make that call where it made
\* it; only the main thread is ever in a callback, or keeps _mutex over a step.
ThreadsKeepDiscipline ==
  /\ mutex \in {Nobody, Main}
  /\ \A t \in Workers : pc[t] \notin Frame
  /\ pc[Main] \in Frame \cup {"idle"} =>
       back = IF pc[Main] \in Callbacks THEN pc[Main] ELSE "idle"
  /\ \A t \in Threads :
       /\ pc[t] \in {"retry", "retrySend"} => "retry" \in CallsOf(t)
       /\ pc[t] \in {"flush", "flushPush", "flushFree"} => "flush" \in CallsOf(t)
       /\ pc[t] \in {"reset", "resetWait", "resetDelete", "resetFree", "resetQueue"}
            => "reset" \in CallsOf(t)

SectionsInStep ==
  /\ ThreadTypes
  /\ SectionsLocked /\ OnlyLoaderAlive /\ LoaderFitsFrame /\ LoaderOutlivesItsThread
  /\ ThreadsKeepDiscipline

ThreadsInStep == TypeOK /\ SectionsInStep

=============================================================================
