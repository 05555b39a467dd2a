------------------------- MODULE CurlThreadsProofs --------------------------
(***************************************************************************)
(* Proofs about the two kinds of detached curl thread, each of which works *)
(* on an object of the main thread: CommsThreads (cURLLoader) and Uploads  *)
(* (cURLFileUploader).                                                     *)
(*                                                                         *)
(* CommsThreads, for every set of threads and every bound: what            *)
(* _loaderMutex and the flag of the loader thread protect, whatever the    *)
(* app calls from wherever, retries from networkError() alone excepted.    *)
(*                                                                         *)
(* Uploads, for every set of upload ids, every bound on the uploads and    *)
(* every set of outcomes of a transfer.                                    *)
(***************************************************************************)
EXTENDS CommsThreads, Uploads, FiniteSetTheorems, TLAPS

USE DEF Threads, Frame, Callbacks, Procedure, InSection, ThreadTypes

RetriesAfterErrors == \A d \in Disciplines : RetriesAfterError(d)

-----------------------------------------------------------------------------
(* CommsThreads: helpers *)

LEMMA LoadersAreNumbers == 0 \notin Loaders
BY CommsThreadsAssumption DEF Loaders

\* A loader that is started when there is none is the only one alive.
LEMMA StartFits ==
  ASSUME SectionsInStep, StartHttpRequest, loader = 0
  PROVE  /\ work' \in [Loaders -> {"none", "running", "never", "over"}]
         /\ memory' \in [Loaders -> {"none", "alive", "freed", "leaked"}]
         /\ OnlyLoaderAlive' /\ LoaderOutlivesItsThread'
<1>. DEFINE new == NewLoader
<1>1. PICK start \in {"running", "never"} : work' = [work EXCEPT ![new] = start]
  BY DEF StartHttpRequest
<1>2. loader' = new
  BY DEF StartHttpRequest
<1>3. memory' = [memory EXCEPT ![new] = "alive"]
  BY LoadersAreNumbers DEF StartHttpRequest, SectionsInStep
<1>. HIDE DEF new
<1>4. \A l \in Loaders : memory[l] # "alive"
  BY LoadersAreNumbers DEF SectionsInStep, OnlyLoaderAlive
<1>. QED
  BY <1>1, <1>2, <1>3, <1>4 DEF SectionsInStep, OnlyLoaderAlive, LoaderOutlivesItsThread

-----------------------------------------------------------------------------
(* CommsThreads: the invariant holds initially and is kept by every step *)

LEMMA InitInStep == Init => SectionsInStep
BY CommsThreadsAssumption, LoadersAreNumbers
   DEF Init, SectionsInStep, SectionsLocked, OnlyLoaderAlive, LoaderFitsFrame,
       LoaderOutlivesItsThread, ThreadsKeepDiscipline, CallsOf

LEMMA LoaderThreadKeepsInStep ==
  ASSUME SectionsInStep, NEW l \in Loaders, ThreadEnds(l)
  PROVE  SectionsInStep'
BY DEF ThreadEnds, mutexes, state, app, SectionsInStep, SectionsLocked, OnlyLoaderAlive,
       LoaderFitsFrame, LoaderOutlivesItsThread, ThreadsKeepDiscipline, CallsOf, IsDone

\* The frame takes _loaderMutex, works under it and lets go of it.
LEMMA FrameKeepsInStep ==
  ASSUME SectionsInStep,
         \/ EnterFrame \/ LockLoader \/ TakeBundle \/ Handle \/ Push
         \/ ClearInProgress \/ UnlockLoader \/ LockEvents \/ EndCallbacks \/ EndFrame
         \/ EndNetworkError
  PROVE  SectionsInStep'
<1>. USE CommsThreadsAssumption, LoadersAreNumbers
     DEF SectionsInStep, GoTo, Free, Nobody, mutexes, state, loaders, app, IsDone
<1>1. CASE EnterFrame
  BY <1>1 DEF EnterFrame, SectionsLocked, OnlyLoaderAlive, LoaderFitsFrame,
              LoaderOutlivesItsThread, ThreadsKeepDiscipline, CallsOf
<1>2. CASE LockLoader
  BY <1>2 DEF LockLoader, SectionsLocked, OnlyLoaderAlive, LoaderFitsFrame,
              LoaderOutlivesItsThread, ThreadsKeepDiscipline, CallsOf
<1>3. CASE TakeBundle
  BY <1>3 DEF TakeBundle, SectionsLocked, OnlyLoaderAlive, LoaderFitsFrame,
              LoaderOutlivesItsThread, ThreadsKeepDiscipline, CallsOf
<1>4. CASE Handle
  BY <1>4 DEF Handle, SectionsLocked, OnlyLoaderAlive, LoaderFitsFrame,
              LoaderOutlivesItsThread, ThreadsKeepDiscipline, CallsOf
<1>5. CASE Push
  BY <1>5 DEF Push, PushEvents, SectionsLocked, OnlyLoaderAlive, LoaderFitsFrame,
              LoaderOutlivesItsThread, ThreadsKeepDiscipline, CallsOf
<1>6. CASE ClearInProgress
  BY <1>6 DEF ClearInProgress, SectionsLocked, OnlyLoaderAlive, LoaderFitsFrame,
              LoaderOutlivesItsThread, ThreadsKeepDiscipline, CallsOf
<1>7. CASE UnlockLoader
  BY <1>7 DEF UnlockLoader, SectionsLocked, OnlyLoaderAlive, LoaderFitsFrame,
              LoaderOutlivesItsThread, ThreadsKeepDiscipline, CallsOf
<1>8. CASE LockEvents
  BY <1>8 DEF LockEvents, SectionsLocked, OnlyLoaderAlive, LoaderFitsFrame,
              LoaderOutlivesItsThread, ThreadsKeepDiscipline, CallsOf
<1>9. CASE EndFrame
  BY <1>9 DEF EndFrame, SectionsLocked, OnlyLoaderAlive, LoaderFitsFrame,
              LoaderOutlivesItsThread, ThreadsKeepDiscipline, CallsOf
<1>10. CASE EndCallbacks
  BY <1>10 DEF EndCallbacks, SectionsLocked, OnlyLoaderAlive, LoaderFitsFrame,
               LoaderOutlivesItsThread, ThreadsKeepDiscipline, CallsOf
<1>11. CASE EndNetworkError
  BY <1>11 DEF EndNetworkError, SectionsLocked, OnlyLoaderAlive, LoaderFitsFrame,
               LoaderOutlivesItsThread, ThreadsKeepDiscipline, CallsOf
<1>. QED BY <1>1, <1>2, <1>3, <1>4, <1>5, <1>6, <1>7, <1>8, <1>9, <1>10, <1>11

\* A loader is made when there is none, and freed when its thread is over.
LEMMA LoaderKeepsInStep ==
  ASSUME SectionsInStep, Poll \/ Send \/ DropLoader
  PROVE  SectionsInStep'
<1>. USE CommsThreadsAssumption, LoadersAreNumbers
     DEF SectionsInStep, GoTo, mutexes, state, loaders, app, IsDone
<1>1. CASE Poll /\ UNCHANGED <<state, loaders>>
  BY <1>1 DEF Poll, SectionsLocked, OnlyLoaderAlive, LoaderFitsFrame,
              LoaderOutlivesItsThread, ThreadsKeepDiscipline, CallsOf
<1>2. CASE /\ pc[Main] \in {"poll", "send"} /\ loader = 0 /\ StartHttpRequest
           /\ GoTo(Main, "unlock")
           /\ UNCHANGED <<discipline, mutexes, blocking, back>>
  <2>1. /\ work' \in [Loaders -> {"none", "running", "never", "over"}]
        /\ memory' \in [Loaders -> {"none", "alive", "freed", "leaked"}]
        /\ OnlyLoaderAlive' /\ LoaderOutlivesItsThread'
    BY <1>2, StartFits
  <2>2. SectionsLocked' /\ ThreadsKeepDiscipline'
    BY <1>2 DEF SectionsLocked, ThreadsKeepDiscipline, CallsOf
  <2>3. /\ back = "idle" /\ ~blocking
        /\ \A t \in Threads : pc[t] # "retrySend"
    BY <1>2 DEF LoaderFitsFrame, SectionsLocked, ThreadsKeepDiscipline
  <2>4. LoaderFitsFrame'
    BY <1>2, <2>3 DEF LoaderFitsFrame
  <2>. QED BY <1>2, <2>1, <2>2, <2>4
<1>3. CASE DropLoader
  BY <1>3 DEF DropLoader, SectionsLocked, OnlyLoaderAlive, LoaderFitsFrame,
              LoaderOutlivesItsThread, ThreadsKeepDiscipline, CallsOf
<1>4. CASE Send
  BY <1>2, <1>4 DEF Send, LoaderFitsFrame
<1>5. CASE Poll
  BY <1>1, <1>2, <1>5 DEF Poll
<1>. QED BY <1>3, <1>4, <1>5

\* The app calls in from its own threads, or from a callback on the main thread.
LEMMA CallsKeepInStep ==
  ASSUME SectionsInStep,
         (\E t \in Threads : AppCalls(t)) \/ NetworkError \/ Callback \/ UploadCallback
  PROVE  SectionsInStep'
<1>. USE CommsThreadsAssumption, LoadersAreNumbers
     DEF SectionsInStep, GoTo, mutexes, state, loaders, app, IsDone
<1>1. PICK t \in Threads :
        /\ pc[t] \in {"idle", "error", "callback", "uploads"}
        /\ Begin(t)
        /\ UNCHANGED <<discipline, mutexes, blocking, loaders, back>>
  BY DEF AppCalls, NetworkError, Callback, UploadCallback
<1>2. /\ CallsOf(t) \subseteq Calls
      /\ Origin(t) = pc[t]
  BY <1>1 DEF CallsOf, Origin, ThreadsKeepDiscipline
<1>3. PICK step \in {pc[t]} \cup (CallsOf(t) \ {"add"}) : pc' = [pc EXCEPT ![t] = step]
  BY <1>1, <1>2 DEF Begin, Return
<1>4. step \in {pc[t], "register", "retry", "flush", "reset"}
  BY <1>2, <1>3 DEF Calls
<1>5. SectionsLocked'
  BY <1>1, <1>3, <1>4 DEF SectionsLocked
<1>6. LoaderFitsFrame'
  BY <1>1, <1>3, <1>4 DEF LoaderFitsFrame
<1>7. OnlyLoaderAlive' /\ LoaderOutlivesItsThread'
  BY <1>1 DEF OnlyLoaderAlive, LoaderOutlivesItsThread
<1>8. ThreadsKeepDiscipline'
  <2>1. \A u \in Threads : u # t => pc'[u] = pc[u]
    BY <1>3
  <2>2. \A u \in Threads : CallsOf(u)' = CallsOf(u)
    BY <1>1 DEF CallsOf
  <2>3. pc'[t] = step /\ (step \in {"retry", "flush", "reset"} => step \in CallsOf(t))
    BY <1>1, <1>3
  <2>. QED BY <1>1, <1>4, <2>1, <2>2, <2>3 DEF ThreadsKeepDiscipline
<1>9. pc' \in [Threads -> {"idle"} \cup Frame \cup Procedure]
  BY <1>1, <1>3, <1>4
<1>. QED BY <1>1, <1>5, <1>6, <1>7, <1>8, <1>9

\* What every step inside a call of the app keeps.
LEMMA InCallKeepsInStep ==
  ASSUME SectionsInStep, RetriesAfterErrors, NEW t \in Threads, InCall(t)
  PROVE  SectionsInStep'
<1>. USE CommsThreadsAssumption, LoadersAreNumbers
     DEF SectionsInStep, GoTo, Return, Origin, LetGoOfLoader, Free, Nobody, mutexes, state,
         loaders, app, IsDone
<1>1. CASE Register(t)
  BY <1>1 DEF Register, SectionsLocked, OnlyLoaderAlive, LoaderFitsFrame,
              LoaderOutlivesItsThread, ThreadsKeepDiscipline, CallsOf
<1>2. CASE RetryCachedMessages(t)
  <2>1. CASE blocking /\ request
    <3>1. loaderMutex' = t /\ pc' = [pc EXCEPT ![t] = "retrySend"]
      BY <1>2, <2>1 DEF RetryCachedMessages
    <3>2. UNCHANGED <<discipline, mutex, state, loaders, app>>
      BY <1>2 DEF RetryCachedMessages
    <3>3. back = "error" => t = Main
      BY <1>2 DEF RetryCachedMessages, SectionsLocked
    <3>4. back # "error" \/ "retry" \in discipline.inError
      BY <1>2, <3>3 DEF RetryCachedMessages, ThreadsKeepDiscipline, CallsOf
    <3>5. back # "error"
      BY <3>4 DEF RetriesAfterErrors, RetriesAfterError
    <3>6. loader = 0
      BY <1>2, <2>1, <3>5 DEF RetryCachedMessages, LoaderFitsFrame, SectionsLocked
    <3>7. SectionsLocked' /\ LoaderFitsFrame'
      BY <1>2, <3>1, <3>2, <3>6 DEF RetryCachedMessages, SectionsLocked, LoaderFitsFrame
    <3>8. ThreadsKeepDiscipline'
      BY <1>2, <3>1, <3>2 DEF RetryCachedMessages, ThreadsKeepDiscipline, CallsOf
    <3>9. OnlyLoaderAlive' /\ LoaderOutlivesItsThread'
      BY <3>2 DEF OnlyLoaderAlive, LoaderOutlivesItsThread
    <3>. QED BY <3>1, <3>2, <3>7, <3>8, <3>9
  <2>2. CASE ~(blocking /\ request)
    BY <1>2, <2>2 DEF RetryCachedMessages, SectionsLocked, OnlyLoaderAlive, LoaderFitsFrame,
                      LoaderOutlivesItsThread, ThreadsKeepDiscipline, CallsOf
  <2>. QED BY <2>1, <2>2
<1>3. CASE RetrySend(t)
  <2>1. StartHttpRequest /\ ~blocking' /\ UNCHANGED <<discipline, mutex, back>>
    BY <1>3 DEF RetrySend, app
  <2>2. /\ loader = 0
        /\ \A u \in Threads : pc[u] \in InSection => u = t
    BY <1>3 DEF RetrySend, SectionsLocked, LoaderFitsFrame
  <2>3. /\ work' \in [Loaders -> {"none", "running", "never", "over"}]
        /\ memory' \in [Loaders -> {"none", "alive", "freed", "leaked"}]
        /\ OnlyLoaderAlive' /\ LoaderOutlivesItsThread'
    BY <2>1, <2>2, StartFits
  <2>4. back # "error"
    <3>1. "retry" \in CallsOf(t) /\ "retry" \notin discipline.inError
      BY <1>3 DEF RetrySend, ThreadsKeepDiscipline, RetriesAfterErrors, RetriesAfterError
    <3>2. back = "error" => t = Main
      BY <1>3 DEF RetrySend, SectionsLocked
    <3>. QED BY <3>1, <3>2 DEF CallsOf
  <2>5. /\ pc' = [pc EXCEPT ![t] = IF t = Main THEN back ELSE "idle"]
        /\ loaderMutex' = Nobody
    BY <1>3, <2>4 DEF RetrySend
  <2>6. ThreadsKeepDiscipline'
    BY <2>1, <2>4, <2>5 DEF ThreadsKeepDiscipline, CallsOf
  <2>7. SectionsLocked'
    BY <2>1, <2>2, <2>4, <2>5 DEF SectionsLocked
  <2>8. LoaderFitsFrame'
    BY <2>1, <2>2, <2>4, <2>5 DEF LoaderFitsFrame
  <2>. QED BY <2>1, <2>3, <2>5, <2>6, <2>7, <2>8
<1>4. CASE FlushCachedMessages(t)
  BY <1>4 DEF FlushCachedMessages, SectionsLocked, OnlyLoaderAlive, LoaderFitsFrame,
              LoaderOutlivesItsThread, ThreadsKeepDiscipline, CallsOf
<1>5. CASE FlushPush(t)
  BY <1>5 DEF FlushPush, PushEvents, SectionsLocked, OnlyLoaderAlive, LoaderFitsFrame,
              LoaderOutlivesItsThread, ThreadsKeepDiscipline, CallsOf
<1>6. CASE FlushFree(t)
  BY <1>6 DEF FlushFree, SectionsLocked, OnlyLoaderAlive, LoaderFitsFrame,
              LoaderOutlivesItsThread, ThreadsKeepDiscipline, CallsOf
<1>7. CASE ResetCommunication(t) \/ ResetWait(t)
  BY <1>7 DEF ResetCommunication, ResetWait, SectionsLocked, OnlyLoaderAlive, LoaderFitsFrame,
              LoaderOutlivesItsThread, ThreadsKeepDiscipline, CallsOf
<1>8. CASE ResetDelete(t)
  <2>1. SectionsLocked' /\ ThreadsKeepDiscipline'
    BY <1>8 DEF ResetDelete, SectionsLocked, ThreadsKeepDiscipline, CallsOf
  <2>2. LoaderFitsFrame'
    BY <1>8 DEF ResetDelete, SectionsLocked, LoaderFitsFrame
  <2>3. OnlyLoaderAlive' /\ LoaderOutlivesItsThread'
    BY <1>8 DEF ResetDelete, FateOf, OnlyLoaderAlive, LoaderOutlivesItsThread
  <2>4. memory' \in [Loaders -> {"none", "alive", "freed", "leaked"}]
    BY <1>8 DEF ResetDelete, FateOf
  <2>. QED BY <1>8, <2>1, <2>2, <2>3, <2>4 DEF ResetDelete
<1>9. CASE ResetFree(t) \/ ResetQueue(t)
  BY <1>9 DEF ResetFree, ResetQueue, SectionsLocked, OnlyLoaderAlive, LoaderFitsFrame,
              LoaderOutlivesItsThread, ThreadsKeepDiscipline, CallsOf
<1>. QED BY <1>1, <1>2, <1>3, <1>4, <1>5, <1>6, <1>7, <1>8, <1>9 DEF InCall

\* Each step taken alone.
LEMMA NextKeepsSections ==
  ASSUME RetriesAfterErrors, SectionsInStep, [Next]_vars
  PROVE  SectionsInStep'
<1>1. CASE UNCHANGED vars
  BY <1>1 DEF vars, mutexes, state, loaders, app, SectionsInStep, SectionsLocked, OnlyLoaderAlive,
              LoaderFitsFrame, LoaderOutlivesItsThread, ThreadsKeepDiscipline, CallsOf, IsDone
<1>2. CASE RunCallbacks
  BY <1>2, FrameKeepsInStep, LoaderKeepsInStep, CallsKeepInStep DEF RunCallbacks
<1>3. CASE \E t \in Threads : AppCalls(t) \/ InCall(t)
  BY <1>3, CallsKeepInStep, InCallKeepsInStep
<1>4. CASE \E l \in Loaders : ThreadEnds(l)
  BY <1>4, LoaderThreadKeepsInStep
<1>. QED BY <1>1, <1>2, <1>3, <1>4 DEF Next

\* The plain types of the rest.
LEMMA NextKeepsTypes ==
  ASSUME TypeOK, SectionsInStep', [Next]_vars
  PROVE  TypeOK'
<1>. USE DEF TypeOK, mutexes, state, loaders, app, Next, RunCallbacks, InCall, vars, EnterFrame,
         LockLoader, Poll, TakeBundle, Send, Handle, NetworkError, EndNetworkError, Push,
         ClearInProgress, DropLoader, UnlockLoader, LockEvents, Callback, EndCallbacks,
         UploadCallback, EndFrame, AppCalls, Register, RetryCachedMessages, RetrySend,
         FlushCachedMessages, FlushPush, FlushFree, ResetCommunication, ResetWait,
         ResetDelete, ResetFree, ResetQueue, ThreadEnds
<1>1. ThreadTypes'
  BY DEF SectionsInStep
<1>. HIDE DEF ThreadTypes
<1>2. loaderMutex' \in Threads \cup {Nobody}
  BY DEF LetGoOfLoader
<1>3. mutex' \in Threads \cup {Nobody}
  BY DEF SectionsInStep, ThreadsKeepDiscipline
<1>4. queue' \in Nat /\ inProgress' \in Nat /\ events' \in Nat
  BY DEF Begin, PushEvents
<1>5. request' \in BOOLEAN /\ retrying' \in BOOLEAN /\ blocking' \in BOOLEAN
  BY DEF StartHttpRequest
<1>. QED BY <1>1, <1>2, <1>3, <1>4, <1>5

-----------------------------------------------------------------------------
(* CommsThreads: the theorems.  Each needs RetriesAfterErrors: a retry from networkError() *)
(* starts a loader that the frame then deletes, which the run comms_retry_in_callback     *)
(* shows on Comms.                                                                        *)

\* _loaderMutex covers every section that is meant to be under it, and the loader fits
\* the place where the frame of the main thread is, whatever the app calls from which
\* thread and from which callback, if only it does not retry in networkError().
THEOREM ThreadsStayInStep ==
  ASSUME RetriesAfterErrors
  PROVE  Spec => []ThreadsInStep
<1>1. ASSUME Init PROVE ThreadsInStep
  <2>1. SectionsInStep
    BY <1>1, InitInStep
  <2>2. ThreadTypes
    BY <2>1 DEF SectionsInStep
  <2>. HIDE DEF ThreadTypes
  <2>3. TypeOK
    BY <1>1, <2>2 DEF Init, TypeOK
  <2>. QED BY <2>1, <2>3 DEF ThreadsInStep
<1>2. ThreadsInStep /\ [Next]_vars => ThreadsInStep'
  BY NextKeepsSections, NextKeepsTypes DEF ThreadsInStep
<1>. QED BY <1>1, <1>2, PTL DEF Spec

\* No loader is deleted under its thread: neither by the frame, even if the app has reset
\* the engine in networkError(), nor by a reset that has waited its two seconds.
THEOREM LoadersOutliveTheirThreads ==
  ASSUME RetriesAfterErrors
  PROVE  Spec => []LoaderOutlivesItsThread
<1>1. ThreadsInStep => LoaderOutlivesItsThread
  BY DEF ThreadsInStep, SectionsInStep
<1>. QED BY <1>1, ThreadsStayInStep, PTL

\* One request is out at a time, whichever threads retry, flush and reset, but for those
\* that a reset has given up.
THEOREM RequestsAreOneAtATime ==
  ASSUME RetriesAfterErrors
  PROVE  Spec => []OneRequestAtATime
<1>1. ASSUME ThreadsInStep PROVE OneRequestAtATime
  <2>. DEFINE out == {l \in Loaders : work[l] = "running" /\ memory[l] # "leaked"}
  <2>1. \A l \in out : memory[l] = "alive"
    BY <1>1 DEF ThreadsInStep, SectionsInStep, OnlyLoaderAlive, LoaderOutlivesItsThread
  <2>2. out = {} \/ out = {loader}
    BY <1>1, <2>1 DEF ThreadsInStep, SectionsInStep, OnlyLoaderAlive
  <2>3. Cardinality({}) = 0 /\ Cardinality({loader}) = 1
    BY FS_EmptySet, FS_Singleton
  <2>. HIDE DEF out
  <2>4. Cardinality(out) <= 1
    BY <2>2, <2>3
  <2>. QED BY <2>4 DEF OneRequestAtATime, out
<1>. QED BY <1>1, ThreadsStayInStep, PTL

\* The calls in progress and the request are never freed under a thread that uses them,
\* a retry that is about to copy the request included, as long as only the main thread
\* resets, and does not if other threads retry or flush.
THEOREM MainResetsSafely ==
  ASSUME RetriesAfterErrors, \A d \in Disciplines : OnlyMainResets(d)
  PROVE  Spec => []NobodyUsesWhatIsFreed
<1>1. ASSUME ThreadsInStep PROVE NobodyUsesWhatIsFreed
  <2>1. SUFFICES ASSUME NEW t \in Threads, NEW u \in Threads, t # u,
                        pc[t] \in Freeing, pc[u] \in Using
                 PROVE  FALSE
    BY DEF NobodyUsesWhatIsFreed
  <2>2. loaderMutex = u
    BY <1>1, <2>1 DEF ThreadsInStep, SectionsInStep, SectionsLocked, Using
  <2>3. pc[t] = "resetFree"
    BY <1>1, <2>1, <2>2 DEF ThreadsInStep, SectionsInStep, SectionsLocked, Freeing
  <2>4. /\ t = Main /\ "reset" \in discipline.main \cup discipline.inError
        /\ discipline.worker \cap {"retry", "flush"} = {}
    BY <1>1, <2>3 DEF ThreadsInStep, SectionsInStep, ThreadsKeepDiscipline, OnlyMainResets, CallsOf
  <2>5. u \in Workers /\ pc[u] \in {"retrySend", "flushPush", "flushFree"}
    BY <1>1, <2>1, <2>4 DEF ThreadsInStep, SectionsInStep, ThreadsKeepDiscipline, Using
  <2>6. u # Main
    BY <2>1, <2>4
  <2>. QED
    BY <1>1, <2>4, <2>5, <2>6 DEF ThreadsInStep, SectionsInStep, ThreadsKeepDiscipline, CallsOf
<1>. QED BY <1>1, ThreadsStayInStep, PTL

USE DEF Running, Results, Over

-----------------------------------------------------------------------------
(* Uploads: the invariant holds initially and is kept by every step *)

LEMMA UploadsInitInStep == UploadsInit => UploadsInStep
<1>. SUFFICES ASSUME UploadsInit PROVE UploadsInStep
  OBVIOUS
<1>. USE UploadsAssumption DEF UploadsInit
<1>1. UploadsTypeOK
  <2>1. 0 \in 0 .. MaxStarts
    OBVIOUS
  <2>2. starts \in [Ids -> 0 .. MaxStarts]
    BY <2>1
  <2>3. completed \in [Ids -> 0 .. MaxStarts] /\ failed \in [Ids -> 0 .. MaxStarts]
    BY <2>1
  <2>4. thread \in [Ids -> Running \cup {"none", "done"}] /\ result \in [Ids -> Results]
    OBVIOUS
  <2>. QED BY <2>2, <2>3, <2>4 DEF UploadsTypeOK
<1>2. UploaderOutlivesItsThread /\ StatusTellsTheResult /\ CancelledOnRequest
  BY DEF UploaderOutlivesItsThread, StatusTellsTheResult, CancelledOnRequest
<1>3. ReportedAtMostOnce
  <2>1. ASSUME NEW u \in Ids
        PROVE  completed[u] = 0 /\ failed[u] = 0 /\ starts[u] = 0 /\ u \notin table
    OBVIOUS
  <2>2. ASSUME NEW u \in Ids
        PROVE  completed[u] + failed[u] + (IF u \in table THEN 1 ELSE 0) <= starts[u]
    <3>. HIDE DEF UploadsInit
    <3>. QED BY <2>1
  <2>. HIDE DEF UploadsInit
  <2>. QED BY <2>2 DEF ReportedAtMostOnce
<1>4. StatusFollowsThread
  BY DEF StatusFollowsThread
<1>. QED BY <1>1, <1>2, <1>3, <1>4 DEF UploadsInStep

\* The steps of an upload thread disturb neither the table nor the reports.
LEMMA UploadThreadKeepsInStep ==
  ASSUME UploadsInStep, NEW u \in Ids, ThreadRuns(u)
  PROVE  UploadsInStep'
<1>. USE UploadsAssumption DEF UploadsInStep, engine, history, At, Goto
<1>1. CASE BeginUpload(u)
  BY <1>1 DEF BeginUpload, UploadsTypeOK, UploaderOutlivesItsThread, ReportedAtMostOnce,
              StatusTellsTheResult, CancelledOnRequest, StatusFollowsThread
<1>2. CASE SetCurl(u)
  BY <1>2 DEF SetCurl, UploadsTypeOK, UploaderOutlivesItsThread, ReportedAtMostOnce,
              StatusTellsTheResult, CancelledOnRequest, StatusFollowsThread
<1>3. CASE XferInfo(u)
  BY <1>3 DEF XferInfo, UploadsTypeOK, UploaderOutlivesItsThread, ReportedAtMostOnce,
              StatusTellsTheResult, CancelledOnRequest, StatusFollowsThread
<1>4. CASE PerformReturns(u)
  BY <1>4 DEF PerformReturns, UploadsTypeOK, UploaderOutlivesItsThread, ReportedAtMostOnce,
              StatusTellsTheResult, CancelledOnRequest, StatusFollowsThread
<1>5. CASE SetFinalStatus(u)
  BY <1>5 DEF SetFinalStatus, FinalStatus, UploadsTypeOK, UploaderOutlivesItsThread, ReportedAtMostOnce,
              StatusTellsTheResult, CancelledOnRequest, StatusFollowsThread
<1>6. CASE UploadThreadEnds(u)
  BY <1>6 DEF UploadThreadEnds, UploadsTypeOK, UploaderOutlivesItsThread, ReportedAtMostOnce,
              StatusTellsTheResult, CancelledOnRequest, StatusFollowsThread
<1>. QED BY <1>1, <1>2, <1>3, <1>4, <1>5, <1>6 DEF ThreadRuns

\* A new uploader takes the place of one that has been reported.
LEMMA UploadStartKeepsInStep ==
  ASSUME UploadsInStep, NEW u \in Ids, StartFileUpload(u)
  PROVE  UploadsInStep'
<1>. USE UploadsAssumption DEF UploadsInStep, StartFileUpload, Accepted, NewCancel
<1>1. UploadsTypeOK'
  BY DEF UploadsTypeOK
<1>2. ReportedAtMostOnce'
  BY DEF UploadsTypeOK, ReportedAtMostOnce
<1>3. UploaderOutlivesItsThread' /\ StatusFollowsThread'
  BY DEF UploadsTypeOK, UploaderOutlivesItsThread, StatusFollowsThread
<1>4. StatusTellsTheResult' /\ CancelledOnRequest'
  BY DEF UploadsTypeOK, StatusTellsTheResult, CancelledOnRequest
<1>. QED BY <1>1, <1>2, <1>3, <1>4

LEMMA UploadCancelKeepsInStep ==
  ASSUME UploadsInStep, NEW u \in Ids, CancelUpload(u)
  PROVE  UploadsInStep'
<1>. USE UploadsAssumption DEF UploadsInStep, CancelUpload, engine
<1>1. UploadsTypeOK'
  BY DEF UploadsTypeOK
<1>2. ReportedAtMostOnce' /\ UploaderOutlivesItsThread' /\ StatusTellsTheResult'
  BY DEF UploadsTypeOK, ReportedAtMostOnce, UploaderOutlivesItsThread, StatusTellsTheResult
<1>3. StatusFollowsThread' /\ CancelledOnRequest'
  BY DEF UploadsTypeOK, StatusFollowsThread, CancelledOnRequest
<1>. QED BY <1>1, <1>2, <1>3

\* What is reported leaves the table in the same step, and what leaves the table has
\* no thread any more.
LEMMA ReportsKeepInStep ==
  ASSUME UploadsInStep, RunCallbacksFileUpload
  PROVE  UploadsInStep'
<1>. USE UploadsAssumption DEF UploadsInStep
<1>. DEFINE done == {u \in table : Reportable(u)}
<1>1. /\ table' = table \ done
      /\ UNCHANGED <<thread, status, curl, cancel, total, result, frozen, listening, starts, asked>>
  BY DEF RunCallbacksFileUpload, Remaining, uploader
<1>2. /\ completed' = [u \in Ids |-> IF listening /\ u \in {v \in done : Succeeded(v)}
                                      THEN completed[u] + 1 ELSE completed[u]]
      /\ failed' = [u \in Ids |-> IF listening /\ u \in {v \in done : ~Succeeded(v)}
                                   THEN failed[u] + 1 ELSE failed[u]]
  BY DEF RunCallbacksFileUpload, Reported
<1>3. done \subseteq table
  OBVIOUS
<1>4. ASSUME NEW u \in Ids
      PROVE  /\ completed'[u] \in Nat /\ failed'[u] \in Nat
             /\ completed'[u] + failed'[u] + (IF u \in table' THEN 1 ELSE 0) <= starts'[u]
  <2>1. completed[u] \in Nat /\ failed[u] \in Nat /\ starts[u] \in Nat
    BY UploadsAssumption DEF UploadsTypeOK
  <2>2. completed[u] + failed[u] + (IF u \in table THEN 1 ELSE 0) <= starts[u]
    BY DEF ReportedAtMostOnce
  <2>. HIDE DEF done
  <2>3. completed'[u] = completed[u] \/ completed'[u] = completed[u] + 1
    BY <1>2
  <2>4. failed'[u] = failed[u] \/ failed'[u] = failed[u] + 1
    BY <1>2
  <2>5. CASE u \in done /\ Succeeded(u)
    <3>1. u \in table /\ u \notin table' /\ failed'[u] = failed[u]
      BY <1>1, <1>2, <1>3, <2>5
    <3>. QED BY <1>1, <2>1, <2>2, <2>3, <3>1
  <2>6. CASE u \in done /\ ~Succeeded(u)
    <3>1. u \in table /\ u \notin table' /\ completed'[u] = completed[u]
      BY <1>1, <1>2, <1>3, <2>6
    <3>. QED BY <1>1, <2>1, <2>2, <2>4, <3>1
  <2>7. CASE u \notin done
    <3>1. (u \in table' <=> u \in table) /\ completed'[u] = completed[u] /\ failed'[u] = failed[u]
      BY <1>1, <1>2, <2>7
    <3>. QED BY <1>1, <2>1, <2>2, <3>1
  <2>. QED BY <2>5, <2>6, <2>7
<1>5. ReportedAtMostOnce'
  BY <1>4 DEF ReportedAtMostOnce
<1>6. UploadsTypeOK'
  <2>1. starts' \in [Ids -> 0 .. MaxStarts]
    BY <1>1 DEF UploadsTypeOK
  <2>2. ASSUME NEW u \in Ids
        PROVE  completed'[u] \in 0 .. MaxStarts /\ failed'[u] \in 0 .. MaxStarts
    BY <1>4, <2>1, UploadsAssumption
  <2>. HIDE DEF done
  <2>3. completed' \in [Ids -> 0 .. MaxStarts] /\ failed' \in [Ids -> 0 .. MaxStarts]
    BY <1>2, <2>2
  <2>4. table' \subseteq Ids
    BY <1>1 DEF UploadsTypeOK
  <2>. QED BY <1>1, <2>1, <2>3, <2>4 DEF UploadsTypeOK
<1>7. UploaderOutlivesItsThread'
  BY <1>1 DEF UploaderOutlivesItsThread, Reportable
<1>8. StatusTellsTheResult' /\ CancelledOnRequest' /\ StatusFollowsThread'
  BY <1>1 DEF StatusTellsTheResult, CancelledOnRequest, StatusFollowsThread
<1>. QED BY <1>5, <1>6, <1>7, <1>8

LEMMA NextKeepsUploads == UploadsInStep /\ [UploadsNext]_uploadVars => UploadsInStep'
<1>. SUFFICES ASSUME UploadsInStep, [UploadsNext]_uploadVars PROVE UploadsInStep'
  OBVIOUS
<1>1. CASE \E u \in Ids : StartFileUpload(u) \/ CancelUpload(u)
  BY <1>1, UploadStartKeepsInStep, UploadCancelKeepsInStep
<1>2. CASE RunCallbacksFileUpload
  BY <1>2, ReportsKeepInStep
<1>3. CASE Freeze \/ RegisterFileUploadCallback \/ UNCHANGED uploadVars
  <2>1. UNCHANGED <<uploader, table, starts, history>>
    BY <1>3 DEF Freeze, RegisterFileUploadCallback, uploadVars, uploader, engine, history
  <2>2. frozen' \in BOOLEAN /\ listening' \in BOOLEAN
    BY <1>3 DEF Freeze, RegisterFileUploadCallback, uploadVars, engine, UploadsInStep, UploadsTypeOK
  <2>. QED
    BY <2>1, <2>2 DEF UploadsInStep, UploadsTypeOK, UploaderOutlivesItsThread, ReportedAtMostOnce,
                      StatusTellsTheResult, CancelledOnRequest, StatusFollowsThread, uploader, history
<1>4. CASE \E u \in Ids : ThreadRuns(u)
  BY <1>4, UploadThreadKeepsInStep
<1>. QED BY <1>1, <1>2, <1>3, <1>4 DEF UploadsNext

-----------------------------------------------------------------------------
(* Uploads: the theorems *)

\* Whatever the app, the server and the upload threads do, the status of an uploader
\* follows its thread, and the table follows both.
THEOREM UploadsStayInStep == UploadsSpec => []UploadsInStep
BY UploadsInitInStep, NextKeepsUploads, PTL DEF UploadsSpec

\* Every variable keeps its type, the report counts included, which are bounded by
\* the uploads started.
THEOREM UploadsTypeCorrect == UploadsSpec => []UploadsTypeOK
<1>1. UploadsInStep => UploadsTypeOK
  BY DEF UploadsInStep
<1>. QED BY <1>1, UploadsStayInStep, PTL

\* No uploader is deleted under its thread: runCallbacksFileUpload deletes one only
\* once the thread has cleared _threadRunning.
THEOREM UploadersOutliveTheirThreads == UploadsSpec => []UploaderOutlivesItsThread
<1>1. UploadsInStep => UploaderOutlivesItsThread
  BY DEF UploadsInStep
<1>. QED BY <1>1, UploadsStayInStep, PTL

\* An upload is reported at most once, and not while it is in the table.
THEOREM ReportsAreSingle == UploadsSpec => []ReportedAtMostOnce
<1>1. UploadsInStep => ReportedAtMostOnce
  BY DEF UploadsInStep
<1>. QED BY <1>1, UploadsStayInStep, PTL

\* The status an upload is reported with is what curl and the server have said.
THEOREM StatusIsTheResult == UploadsSpec => []StatusTellsTheResult
<1>1. UploadsInStep => StatusTellsTheResult
  BY DEF UploadsInStep
<1>. QED BY <1>1, UploadsStayInStep, PTL

\* No upload ends as cancelled that the app has not asked to cancel, not even one
\* whose id was cancelled before.
THEOREM NobodyElseCancels == UploadsSpec => []CancelledOnRequest
<1>1. UploadsInStep => CancelledOnRequest
  BY DEF UploadsInStep
<1>. QED BY <1>1, UploadsStayInStep, PTL

=============================================================================
