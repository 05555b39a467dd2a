# TLA+ models of the brainCloud C++ client

This directory models the parts of the client library in `src/` that decide *what is
sent when, and who is told about it*: the packet engine behind every API call, the
threads behind real-time events and the sockets under them, the file uploads, the second
engine of the Windows builds, and the wrapper that remembers who the user is. TLC checks
the models on small instances; TLAPS proves the safety properties of nearly all of them for all
values of the constants.

Run from this directory:

    tlc -config CommsFaults.cfg MCComms        # one .cfg per run, see "Runs"
    tlapm CommsProofs.tla

## 1. The system

| part | code | state | talks to |
| --- | --- | --- | --- |
| client facade | `src/src/BrainCloudClient.cpp` | pointers to the parts | forwards everything; `runCallbacks` runs the packet engine, then RTT |
| service classes | `src/src/BrainCloud*.cpp` (some 40) | none | build a `ServerCall` and queue it |
| **packet engine** | `DefaultBrainCloudComms.cpp`, `IBrainCloudComms.cpp` | `_queue`, `_inProgress`, `_request`, `_loader`, `_packetId`, `_expectedPacketId`, `_retryCount`, `_retryTimeMillis`, `_blockingQueue`, session, kill switch, `_apiCallbackQueue`; three mutexes | URL loader (HTTP), app callbacks |
| **URL loader** | `nix/cURLLoader.cpp`, one per platform | one request, one thread | the network |
| **file uploader** | `nix/cURLFileUploader.cpp`, `IFileUploader.h` | one upload, one detached thread | the network; the table `_fileUploads` of the packet engine |
| **real-time client** | `RTTComms.cpp` | `_socket`, `_isConnected`, two thread flags, three mutexes, two condition variables, `_callbackEventQueue` | sockets, packet engine (for the endpoint), app callbacks |
| **web socket** | `DefaultWebSocket.cpp` | two flags, `_pLws`, send and receive queue, two mutexes, two condition variables | libwebsockets, on a thread of its own |
| **TCP socket** | `DefaultTCPSocket.cpp` | descriptor, read buffer, message in the making | BSD sockets |
| **wrapper** | `BrainCloudWrapper.cpp`, `BrainCloudAuthentication.cpp` | stored ids, one callback slot | client facade, saved data |
| **cpprest engine** | `win/CppRestBrainCloudComms.cpp` | `_messageQueue`, `_inProgressQueue`, `_packetId`, `_retryCount`, session, `_tearDownThread` | cpprest; a queue thread of its own |
| helpers, tables | `SaveDataHelper`, `GUID`, `md5x`, `ServiceName`, ... | none or the device | - |

### Packet engine

The app calls services at any time; each call is appended to `_queue` (`addToQueue`).
Once per frame the app calls `runCallbacks`, which looks at the loader first:

* a loader that is done: `handleResult` either answers the calls in progress
  (`handleResponseBundle`), or plans a retry (`handleError`), or gives up
  (`triggerCommsError`), or, with message caching on, blocks the engine and calls
  `networkError()`;
* no loader: a planned retry whose time has come resends `_request`; otherwise the front
  of the queue becomes a bundle (`createAndSendBundle`), which is sent as the next
  packet or refused on the spot (no session, kill switch); otherwise a heartbeat may be
  due.

Then the collected callbacks run, with `_mutex` held. `retryCachedMessages`,
`flushCachedMessages`, `enableNetworkErrorMessageCaching`,
`insertEndOfMessageBundleMarker`, `resetCommunication` and `shutdown` may come between
any of these, from the callbacks or from another thread.

Hard: replies are matched to calls by position only; a packet number is taken back on a
resend; retry count, blocking flag, request and calls in progress have to agree over
every path; an authenticate call is moved forward in the queue while markers cut it; the
session may end between two sends of a packet; an app callback runs in the middle of
`handleResult`; three mutexes are taken in two orders; a loader is deleted while its
thread may still write to it.

Correct means: every call gets exactly one callback, with its own answer; calls keep
their order; nothing is left behind that no later frame picks up; a packet number means
one bundle; a packet is not sent without a session, more often than configured, or once
the kill switch is on; a blocked engine is silent; nothing is used after it is freed,
and no call waits for ever.

### Real-time client

`enableRTT` queues a `requestClientConnection` call; the answer starts a connection
thread that creates the socket (with `_socketMutex`), starts the receive thread and
sends the CONNECT request. The CONNECT reply makes the receive thread start a heartbeat
thread (which holds `_heartBeatMutex` except when it sleeps). `disableRTT`,
`resetCommunication`, `shutdown` and the destructor close the socket and wait on
`_threadsCondition` for both threads. Successes and failures go through
`_callbackEventQueue` to `runCallbacks`; events are delivered on the receive thread.

Hard: lock order, notifications that nobody waits for yet, pointers read without the
mutex, sessions that overlap. Correct means: a socket outlives the threads that use it,
a disable leaves nothing behind and returns, an enable is answered.

### Sockets

`RTTComms` sees an `ISocket`: `isValid` after the connection attempt, `send`, `recv` in
a loop on the receive thread, `close` on another thread. Both classes promise the same
(module `Socket`): messages whole, once, in order, and an empty string only at the end.

`DefaultWebSocket` has an update thread that runs libwebsockets, whose callbacks write
the flags and queues the other threads wait on. Hard: waking everyone who sleeps, ending
the update thread that writes the flags which tell it to end, the pointer to a
connection the library may have closed. `DefaultTCPSocket` frames messages by a
four-byte length. Hard: a read may end anywhere, in a length too, and what is left in
the buffer belongs to the next message; a write may be partial; the result of `::recv`
is added to a count before it is looked at.

### File uploads

The server's answer to a prepare call starts an uploader (`startFileUpload`) in
`_fileUploads`; `runCallbacks` reports and deletes those that are over. Hard: the status
is set before the thread has finished with its uploader; a cancel may come before,
during or after the transfer. Correct: no uploader is deleted under its thread, one
report for each, and the report is what happened.

### cpprest engine

The queue thread takes calls from `_messageQueue` in bundles, sends, waits, answers and
retries; `resetCommunication` raises `_tearDownThread`, notifies and joins. Hard: every
attempt takes a new packet number; the queues and the retry count survive a reset; the
notification may be lost.

### Wrapper

`authenticateAnonymous` sends the stored pair of an anonymous and a profile id;
`reconnect` does the same; the other authentications send none or the anonymous one; a
smart switch asks for the identities of the session, deletes the user if there are none
(or logs out), clears the ids and authenticates. Hard: all of this goes through one
queue that bundles and moves authenticate calls; the ids are written at other moments
than the server changes; an answer may be lost, and the app may end in between. Correct:
the ids lead back to a profile, the app is told once, and nobody who could sign in again
is deleted.

## 2. Modules

| module | what it is |
| --- | --- |
| `Subsequence` | `Select(s, P)`: the entries of `s` at positions `P`, in order; defined without recursion so that proofs can use it |
| `Comms` | the packet engine, one action per operation of the app and per branch of `runCallbacks`; safety properties and the inductive invariant |
| `CallLifecycle` | abstract: a call waits, goes out in a bundle, is answered with its bundle and called back once, in order; it disappears without a callback only when the app gives up the bundle held for it or resets the client |
| `HandlerLoops` | the loops of `createAndSendBundle` and `handleResponseBundle` entry by entry, compared with the set definitions in `Comms` |
| `CommsLifecycle` | where `Comms` has each of these calls: the refinement of `CallLifecycle` |
| `MCComms` | fairness, liveness, and the properties that state what the docs say |
| `CommsThreads`, `MCCommsThreads` | the packet engine and `cURLLoader` cut at their mutexes: main thread, other threads of the app, loader threads |
| `RTT`, `MCRTT` | `RTTComms`: one process per thread, mutexes and condition variables |
| `Socket` | abstract: what `RTTComms` relies on in an `ISocket` |
| `WebSocket` | `DefaultWebSocket`: owner, update thread, receiver; implements `Socket` |
| `TCPSocket` | `DefaultTCPSocket`: framing over partial reads and writes; implements `Socket` |
| `Uploads` | the table of uploads and a `cURLFileUploader` with its thread in each entry |
| `CppRest` | `CppRestBrainCloudComms`: queue thread and app |
| `Wrapper` | `BrainCloudWrapper` and the ids of the authentication service, over an engine and an external server |
| `SubsequenceProofs`, `CommsProofs`, `CurlThreadsProofs` (of `CommsThreads` and `Uploads`), `RTTProofs`, `WebSocketProofs`, `TCPSocketProofs`, `CppRestProofs`, `WrapperProofs` | proofs |

In every module variables have the names of the fields they stand for, with a comment
where they do not. Variables marked *history* are read by no action, except that counts
also serve as bounds. Definitions marked *Mutant* are bugs the code does not have; each
property was seen to fail with one of them in place of the code's own definition.

### `Comms`

`loader` stands for `_loader` and what it will return; `retrying` for `_retryTimeMillis`
being set; `isAuthenticated` also for a session id being present.

`runCallbacks` is one step on the loader, which is what the code does with
`_loaderMutex` held, then one step per callback, then a return; `pc` says where it is,
and the operations of the app come in between. `networkError()` is a place of its own
(`pc = "networkError"`), because it runs inside the locked part and the app may call
back in. Whether the time for a retry or a heartbeat has come is a free choice (`Resend`
against `NothingToDo`).

Two loops of the code are written as sets of positions: the bundle (`TakenBy`, `Cut`,
`Rest`) and what a bundle of replies does to the session and the kill switch
(`SessionAfter`, `KillSwitchAfter`). `HandlerLoops` has the loops as they are, and
`LoopsAgree` compares the two whenever a bundle is made.

The server answers every call of the packet it is sent, in order, or answers with
another packet's number; the loader returns an answer or a failure (timeout, HTTP error,
unreadable body, all of which `handleResult` treats alike). Operations are told apart as
far as the client does: authenticate and resetEmailPassword, logout and fullReset,
heartbeat, the marker, and everything else.

### `CommsThreads`

The same operations, of which only the numbers of calls are kept, cut where a mutex is
taken. `_queueMutex` is never held while another is taken, so its sections are single
steps without a variable. `_loaderMutex` and `_mutex` are recursive: `Free(m, t)`. A
loader is a number with a thread (`work`) and memory (`memory`); a deleted loader's
number may be had again, as its memory may. `Disciplines` says which calls which threads
make, and which it makes from `networkError()`. The app is called in three places: in
`networkError()`, in the middle of `handleResult` and with `_loaderMutex` held
(`NetworkError`), and with `_mutex` held for the results (`Callback`) and, after them,
for uploads that are over (`UploadCallback`). `back` says which of these a call of the
main thread returns to. `retryCachedMessages` is two steps, the test of `_request`
(`RetryCachedMessages`) and the copy of it (`RetrySend`), because a reset frees it
without the mutex.

`ThreadsInStep` and the theorems about loaders are for apps that retry only after
`networkError()` has returned (no `"retry"` in `inError`): a retry from inside it starts
a loader that the frame then deletes under its thread, which `comms_retry_in_callback`
shows on `Comms`. `NobodyUsesWhatIsFreed` is for the disciplines of `OnlyMainResets`:
no other thread resets, and none retries or flushes if the main thread does. Other calls
from `networkError()`, a reset or a flush too, are in.

### `RTT`

Each step goes from one access to shared state to the next; so `resetCommunication` reads
`_isConnected` in one step (`ResetCommunication`) and clears it in another
(`ClearConnected`), and two threads may pass between. `pc` is a function of the
thread; `holder` says who has which mutex. `closeSocket` can be run by the app
(disable), by the connection thread (invalid socket) and by the receive thread (a
disable inside `rttCallback`). Waiting on a condition variable is two steps, the check
(`CloseCheckThreads`) and the release (`CloseWait`), because that is where the code can
be interrupted by a notifier that does not hold the mutex. A thread that would follow a
dead pointer takes no step: the state before is what `SocketOutlivesItsUsers` forbids.

`Disciplines` has pairs of what the app dares and what the server sends. Without any of
`"impatient"`, `"inEventCallback"`, `"again"` the app is *patient*: it waits for the
answer to `enableRTT` before it disables, and enables once; with `"again"` it enables
again after that. The run has three pairs: a patient app that enables again, one that
disables at any time, and one that does so from its event callback too, with a server
that never confirms. `DisableReturns` names the three stops that the code has: the two
mutexes crossed, a heartbeat thread that has notified too early, and a receive thread
that waits in `closeSocket` for itself.

### `WebSocket`, `TCPSocket`

In `WebSocket` each critical section is a step and a wait is a state of the thread that
only a notification ends. The receiver is `RTTComms`'s receive thread, the owner whoever
may touch the socket at the time (`RTTComms` sends and closes under `_socketMutex`). In
`TCPSocket` a byte is the pair of its frame and its place in it, so that any byte lost,
repeated or put in the wrong message shows; every call of the kernel is a step.

Spurious wake-ups are not modelled in any module: every wait in the code is in a loop or
is followed by a test of what was waited for.

### `Uploads`, `CppRest`, `Wrapper`

`Uploads` takes the engine's state as far as `runCallbacksFileUpload` looks at it:
`frozen` stands for an engine that is blocked or shut down. The uninitialised byte
counts of `IFileUploader` are a free choice (`UploadProgress`).

`CppRest` splits the wait of `fillInProgress` in two (`Check`, `GoWait`): the tear-down
flag and its notification come without the mutex. `Receive` is one step for the answer
and what the queue thread makes of it. An exception from a callback of the app, or from
a result of another type than expected, ends in the catch around the request, which
calls the whole bundle back: `SettleAgain` keeps in `again` who had been called back by
then. A second exception, from the callbacks the catch makes, ends the program and is
left out. An answer to an earlier attempt, or a tear-down, leaves the bundle in progress
and the code starts counting its attempts over; `allowance` counts these rounds
(`PutOff`). A bundle with an authenticate or a password reset may go out without a
session (`MayComeFirst`); only one with an authenticate is not tried again
(`Authenticates`).

`Wrapper` takes the engine from `Comms` as a queue, a bundle and the answers; an
authenticate call goes to the front, alone, unless a marker is before it; the marker that
cuts a bundle goes with the cut. The app may end between any two steps, and between the
two writes to the device of `initializeIdentity` and of `clearIds` (`EndHalfway`); `cut`
remembers which pair was cut in two. `forgotten` is the last request before the app
reset the client or ended, of which it need not hear any more. The server
is external: an id pair the server has not seen gets a new profile, a pair that does not
match is refused, a credential leads to its profile, as the headers and the tests of the
client say.

## 3. Runs

Bounds are in the `.cfg` files: how many calls, messages, sessions or starts there may
be. The other constants are the parameters of the code (bundle size, number of packet
timeouts, kill switch threshold, buffer size).

| run | question | bounds |
| --- | --- | --- |
| `comms_order` | are calls bundled in order, each called back once, with its own answer, and never across a marker? is an authenticate call alone in its packet, and nothing sent without a session, through resets and retries? do the set definitions compute what the loops compute? | 4 entries, bundles of 2 |
| `comms_faults` | do loader, request, packet numbers, retries, blocking, kill switch and calls in progress agree under every fault and every control? does the engine implement `CallLifecycle`, and is every call settled in the end? | 3 entries, 2 attempts, threshold 2 |
| `comms_threads` | under the disciplines the mutexes allow, with calls from `networkError()` and from callbacks, is nothing used after it is freed, and does every frame and call end? | 2 other threads, 4 calls (20094 states) |
| `rtt_sessions` | a patient app in two sessions, one that disables at any time, one that does so from its event callback too: does the socket outlive its users, does a disable leave nothing behind, and does it return but for three named stops? | 2 sessions (23387 states) |
| `web_socket` | is everyone woken, does close return for good, does what is sent go out, are messages received as `Socket` says? | 3 messages in, 2 out |
| `tcp_socket` | the same over a byte stream cut anywhere; is no byte sent twice? | 2 frames of 1 or 7 bytes, a buffer of 6, 1 frame out |
| `uploads` | no uploader deleted under its thread, one true report each, all leave the table? | 2 ids, 2 uploads each |
| `cpprest` | calls answered in order, none lost, called back again only after an exception, the attempts of a round bounded, reset final, every call answered? | 3 calls, bundles of 3, 2 sessions, 3 packets (320753 states) |
| `wrapper` | do the ids on the device, the server's session and what the app was told agree wherever the app ends, is every request told once, and is nobody deleted who could sign in? | 3 requests, 2 credentials, 2 other calls or ends (442841 states) |

Why the bounds are enough. With three or four calls and bundles of two there are a full
bundle, a partial one and a queue behind it at once; two send attempts give a retry and
a last attempt; a threshold of two is the least that needs a run of failures. `CppRest`
needs bundles of three, because it takes calls only while the queue is shorter than a
bundle, and three packets, for a bundle put off once and sent again. Two sessions of RTT are the least that overlap, and the threads of one meet in
every order. Two workers can each hold what the other and the main thread need. In
`TCPSocket` a frame of 5 bytes fits the buffer of 6 with the start of a length behind
it, one of 11 needs two fills: every place at which the 512 bytes of the code can cut
two frames has its like here. Two uploads per id meet in a second response for an id in
use and for one used before. Three requests of the wrapper are a sign-in, a switch and a
way back.

Deadlock checking is off in all runs: with the calls, messages or requests used up the
systems stop for lack of anything to do, and threads end.

### Runs that show a disagreement

Each checks one statement of a header or comment, and TLC shows a run of the code that
breaks it.

| run | what happens |
| --- | --- |
| `comms_retry_in_callback` | `retryCachedMessages` from inside `networkError()` starts a loader that `runCallbacks` deletes when the callback returns; the calls in progress are left with nobody working for them |
| `rtt_lock_order` | `disableRTT` and a due heartbeat deadlock on two mutexes |
| `cpprest_reset` | `resetCommunication` notifies without the mutex, between the check of the queue thread and its wait: the thread that "should die within 100ms max" (`CppRestBrainCloudComms.cpp:676`) sleeps on and the join never returns |

### Other disagreements

Seen on the same models with another property or other constants; each can be had again
with a `.cfg` that differs from the one named in that place.

* Packet engine (`CommsFaults.cfg`, `CommsOrder.cfg`). `FlushEmptiesTheQueue`:
  `flushCachedMessages` "dumps" the messages in the queue
  (`BrainCloudClient.h:548-566`), but only those of the packet in progress go.
  `EveryAttemptIsMade`: a reply does not reset `_retryCount`, so the packet after one
  that was retried has fewer attempts than there are timeouts
  (`BrainCloudClient.h:433-438`). `AuthenticationIsFirst`: the comment at
  `DefaultBrainCloudComms.cpp:896-898` wants the authenticate call first in its bundle;
  behind a marker at the front of the queue it is not looked for, and travels after
  other calls.
* Threads of the engine (`CommsThreads.cfg`). With `"reset"` among the calls of the
  workers `NobodyUsesWhatIsFreed` fails: `resetCommunication` frees `_request` and
  empties `_inProgress` after it has released `_loaderMutex`. It fails too with workers
  that retry and a main thread that resets: the retry tests `_request` and copies it
  while the reset frees it. With `"retry"` in `inError` `ThreadsInStep` fails: the frame
  deletes the loader that the retry from `networkError()` has started. With workers that flush
  and a main thread that retries, flushes or resets from a callback, `CallsReturn`
  fails: in the frame that has blocked the engine an upload is reported, so the main
  thread has `_mutex` and wants `_loaderMutex`, while the worker has `_loaderMutex` and
  wants `_mutex` to tell the calls it drops. A loader whose thread could not be started
  is waited for until the app resets (`NeverStarted`).
* Real-time client (`RTTSessions.cfg`). With a heartbeat thread `DisableReturns` without
  `WokenTooEarly` and `WaitIsWoken` without its condition `Unconfirmed` fail: that thread
  notifies without `_socketMutex`, so its notification can come between the check and
  the wait. A `disableRTT` from an event callback waits for the thread it runs on; if the
  app disables at the same time, both threads may have read `_isConnected` before one
  clears it, both are in `closeSocket`, and neither comes back (`OneCloser`, and
  `DisableReturns` without `WaitsForItself`, fail). With `"impatient"`: `DisabledStaysDisabled` fails, a disable during the
  connection is ignored and RTT comes up; with `"again"` too, `SocketOutlivesItsUsers`
  fails, two connection attempts share `_socket` and the flags and one deletes the
  socket of the other. A `disableRTT` from a connect callback locks `_eventQueueMutex`
  twice. A connection that ends before the CONNECT reply is reported to nobody.
* Web socket (`WebSocket.cfg`). With `MaxPieces = 2` `ImplementsSocket` fails: a message
  longer than the receive buffer of libwebsockets is handed on in pieces. An attempt
  that fails before its result is stored leaves `_pLws` pointing at a closed connection.
  Without an attempt (bad URL, no context) `isValid` waits for ever. The end of the
  connection does not wake `recv`; only `close` does.
* TCP socket (`TCPSocket.cfg`). `FramesGoOutWhole` fails: after a partial write the loop
  may stop early. A frame of length 0 is taken for no length at all and stalls the
  stream; a length cut by the end of the connection makes `recv` ask the ended
  connection again and again until `close`.
* Uploads (`Uploads.cfg`). `EarlyCancelIsHeard` fails: a cancel is looked at only in the
  progress callback of curl, so one made before a short transfer is not heard, and the
  upload that was cancelled is reported as completed (`BrainCloudFile.h:91-98`).
  `ProgressIsAFraction` fails: the progress is computed from byte counts that nobody has
  set yet (`BrainCloudFile.h:100-106`).
* cpprest engine (`CppRest.cfg`). The stops named in `Stopped`: a queue as long as a
  bundle is never taken, and the queue thread turns without waiting; after an answer to
  an earlier attempt the bundle waits for the next call or heartbeat, and is then sent
  as often as if it were new, an authenticating bundle too. An exception in a callback
  has the calls of the bundle that were already called back called back again, with an
  error.
  `resetCommunication` clears neither queue, although `BrainCloudClient.h:279` says that
  pending messages are cleared. A reset from a callback joins the thread it runs on.
* Wrapper (`Wrapper.cfg`). `ReconnectFindsUser` fails: `reconnect` "re-authenticates the
  user" (`BrainCloudWrapper.h:456`) with the ids on the device, which after a smart
  switch are not those of the session: its answer goes to the app's callback and the
  wrapper does not store the profile id. With `Overlaps = {"attach"}`
  `DeletesOnlyAnonymous` fails (`BrainCloudWrapper.h:258`): the user is deleted on the
  strength of a list of identities that is out of date. With `Overlaps =
  {"authenticate"}` `StoredIdsMatch`, `SessionIsTheOneTold` and `ToldOnce` fail: there
  is one callback slot and one pair of ids for both. `StoredIdsMatch` without its last
  disjunct fails after two ends of the app in turn: `clearIds` resets the anonymous id
  before the profile id and `initializeIdentity` writes a new anonymous id before it
  clears the profile id, so an end inside each leaves a new anonymous id with an old
  profile id, which the server turns away.

### Fairness

* `comms_faults`: the app calls `runCallbacks` every frame and initialises the client,
  and a loader returns in the end, which its timeout sees to. Nothing is assumed of the
  app's other operations or of what the server answers. `EveryCallIsSettled` excludes
  what the app itself stops: a blocked queue it never decides about and a reset or
  shutdown.
* `comms_threads`: threads run, transfers end, and a mutex that is free again and again
  is taken in the end (strong fairness where a mutex is taken; the mutexes of the
  platforms do not starve a thread for ever).
* `rtt_sessions`: every thread runs and the app goes on calling `runCallbacks`.
  Enabling, disabling and every message of the server are left to chance.
* `web_socket`: threads run, `lws_service` returns (it is called with 100 ms), and a
  connection attempt succeeds or fails in the end; the last and the WRITEABLE callback
  are strongly fair, because the library serves them in its turns, between which the
  thread looks at the flags. The server need not send or hang up, the app need not
  close.
* `tcp_socket`: threads run and `::recv` returns what has come.
* `uploads`: upload threads run and transfers end (curl's low-speed limit);
  `runCallbacks` is called in every frame, strongly fair because a blocked engine
  disables it from time to time.
* `cpprest`: the queue thread runs, requests end, a reset goes on. Not the heartbeat:
  the interval is set only by an authentication.
* `wrapper`: the engine sends, an answer or a timeout comes, and it is handled.

## 4. Proofs

All theorems hold for every value of the constants the module's assumption allows: any
number of calls, messages, sessions and threads; a theorem that needs more says so.

**`SubsequenceProofs`.** `Select` yields a sequence over the set it selects from
(`SelectType`). `Select` is a `CHOOSE` over increasing enumerations of a finite set of
positions, so the work is that one exists (`InOrderExists`, by adding the largest
position last) and that there is only one (`OneEnumeration`). With both,
`SelectConcat`: what is selected before a position and what is selected behind it, one
after the other, is what is selected.

**`CommsProofs`, types and safety.** `TypeCorrect` first. Not by definition:
`retryCount` stays below the number of timeouts only because `ScheduleRetry` tests the
attempts first, and a number below 0 never reaches a packet. Then the inductive
invariant `CommsInStep`, `TypeOK` and `InStep`. None of the safety properties is
inductive: *no call is stranded* needs to know that a loader is never dropped while
calls are in progress, which needs that the loader belongs to those calls, which needs
that the request does, which needs that its number is the last one taken, and so on.
`InStep` has one conjunct per thing that must stay in step:

* `CallsServed`: calls in progress are those of the request, numbered `_packetId - 1`,
  sent with a session or with an authenticate call, before the kill switch; and a
  loader, a retry or the app is due to deal with them;
* `LoaderBusy`: a loader has calls to serve and its number is expected back;
* `RetryPending`: a pending retry is for the calls in progress, within the attempts;
* `QueueBlocked`: a blocked queue has a packet to decide about;
* `WireNumbered`: numbers are handed out once.

From it: `NoStrandedCalls`, `LoaderServesInProgress`, `SessionGuardsTraffic`,
`AttemptsBounded`, `PacketNumberNamesBundle`, `KillSwitchSilences`, for an app that does
not call `retryCachedMessages` from inside `networkError()` (`"retryInCallback" \notin
Controls`); run `comms_retry_in_callback` shows that they fail without this assumption.
`BlockedMeansFrozen`, an action property, is proved without it.

**`CommsProofs`, order and answers.** `CallsStayInOrder` needs no assumption about the
app. Its inductive form, `PipelineLegal`, says of all the calls the engine has (called
back, to be called back, in progress, queued, one behind the other as one sequence)
that a call in front of another was made before it, or authenticates, and that none is
there twice. The steps are then about parts of that sequence: a call is appended, a
part changes its owner, the bundle is cut from the queue. Only the last changes the
order, when the authenticate call is moved forward; `ReorderedOrdered` and `RestLegal`
say how far.

`CallsAreInStep` is the inductive invariant `CallsInStep`, again without
`"retryInCallback"`. That a packet has no calls from both sides of a marker
(`PacketsWellMade`) is not inductive: it needs that the queue still has every marker
that lies between its calls (`QueueFollows`), and the authenticate call may have
overtaken others, but no marker. That a callback gets its own answer
(`RepliesReachTheirCall`) needs `ResponseFits`, that the response in hand answers the
request in hand, and `CallsServed`, that those are the calls in progress, because the
code matches by position only.

**`CommsProofs`, refinement.** `CallsAreSettledOnce`: `Comms` implements
`CallLifecycle`, once more without `"retryInCallback"`. The status of a call is read
off the part of the pipeline it is in, so the refinement mapping itself needs the
order: only because no call is twice in the pipeline do the cases of `Status` exclude
each other (`PlacedHolds`). Then each step of the engine is a step there or changes
nothing there (`LifecycleStep`). Two parts carry the work. What `createAndSendBundle`
takes off the queue and does not put in the bundle has no callback (`BundleIds`, which
needs that moving the authenticate call loses none, `ReorderedComplete`). And what
`handleResponseBundle` puts on the callback queue lists each call of the bundle that has
a callback once, and nothing else (`AnsweredSettles`), whether the bundle was answered,
refused, flushed, given up or dropped for its number. `CallLifecycle` asks that no
bundle is outstanding when one is taken from the queue; for that the step uses `InStep`.

**`CommsProofs`, kill switch.** `KillSwitchDeserved` says of an engaged switch that there
was a run of failures as long as the threshold; what the switch holds before it engages
is what has to be kept. So the invariant is `KillSwitchInStep`: the count is at most the
failures of the counted operation in a run that ends with the last event (done or due)
and has no success in it. Heartbeats have no callback and so leave no event; of them the
count is at most those that are neither queued nor in progress any more. The model
writes the effect of a bundle in closed form (`KillSwitchAt`, over the replies since the
last success); `KillSwitchStep` proves that this is what the loop of
`handleResponseBundle` does call by call (`Recounts` is `updateKillSwitch` and
`resetKillSwitch`), and `CountFitsThroughout` carries the invariant over a bundle of any
length by it. `SelectRank` finds the event of a call among those of its bundle, and
`BeatsAnswered` needs from the order of the calls that a bundle's heartbeats are not
counted twice. Nothing is assumed of the app: `"retryInCallback"` may be there.

**`CurlThreadsProofs`, loaders.** The inductive invariant is `ThreadsInStep`: whoever is in a
section of `_loaderMutex` holds it, `_loader` is the only loader alive, its thread is
over when its result is handled, and a thread is only in calls its discipline allows.
The last is needed because `_mutex` is kept over a step by the main thread alone, and
because a call from `networkError()` must leave `_loaderMutex` locked behind it
(`LetGoOfLoader`). The assumption `RetriesAfterErrors` is that nothing is retried in
`networkError()`; without it the code breaks the invariant. From it, for any number of
threads: no loader is deleted under its thread, and at most one request is out but for
those a reset has given up; and, if only the main thread resets and no other retries or
flushes then (`OnlyMainResets`), `NobodyUsesWhatIsFreed`, a retry that is about to copy
the request included.

**`CurlThreadsProofs`, uploads.** `UploadsInStep`: *an uploader is in the table while its thread
runs* needs that an upload whose status says it is over, and whose `_threadRunning` is
clear, has no thread, hence `StatusFollowsThread`. From it the parts: types, one report
each, a status that is the result, no cancel that was not asked for.

**`RTTProofs`.** The inductive invariant is `InStep`: `ThreadsInStep` for an app that
disables on its own thread (`DisablesItself`). That a socket outlives its
users says nothing by itself of who the users are; what is kept is where the threads of
the session are (`ThreadsPlaced`, `SessionInStep`), that there is one session that is
not over (`OneSession`), one thread that closes it (`OneCloser`) and who holds which
mutex there (`LocksHeld`), and, of a patient app, that an answer comes before it
disables (`PatientInStep`). From it `SocketOutlivesItsUsers`, `NothingOutlivesDisable`,
`DisabledStaysDisabled` for patient apps, and `WaitIsWoken`. The assumption `CarefulApps`
is that the app does not disable from its event callback, and that one which enables
again waits for the answer to `enableRTT` before it disables. The first part is there
because `_isConnected` is read and cleared without a mutex: with it dropped two threads
close one session and `OneCloser` is false of the code. The second cannot be dropped
either: two connection attempts share `_socket` and the flags. Of apps that disable from
an event callback, TLC checks `SocketOutlivesItsUsers` and `DisableReturns` for one
session.

**`WebSocketProofs`.** `WebSocketInStep`: sleepers and pointer alone are not inductive;
that the owner sleeps only during the attempt needs what `AttemptFitsOwner` says of the
attempt (a handshake is waited for, a valid socket is not closed yet), and that a killed
connection has no update thread needs `ThreadsFitOwner`. `ClosedIsFinal` follows.
For messages that come in one piece (`MaxPieces = 1`), `ImplementsSocket` is proved too:
`MessagesInOrder` says that the receive queue holds the last messages that arrived and
that none before them is missing unless a close threw it away, so a message that `recv`
takes is the next one, and each step is a step of `Socket` or a stutter.

**`TCPSocketProofs`.** `ReceiveInStep`: that the texts come out whole is not inductive,
because it depends on where the receiver is in the stream. `StreamInPlace` says it: what is ahead (the read buffer and, unless the
descriptor is closed, the bytes in the network) is an unbroken piece of the frames sent,
begins with the byte the receiver needs next, and ends with a frame while the connection
is up; `MessageInPlace` says that the message in the making is the front of the frame
after those returned, `NothingHeldBack` that `recv` waits only when the buffer has no
length and no text. The lemmas are about unbroken pieces: a frame more goes on with one
(`FrameGoesOn`), a cut leaves one (`PieceIsStream`), and taking bytes off its front moves
its first byte on, into the next frame at most (`TakenOff`). One turn of the loop takes
the bytes of a length, if they are next, and text (`TurnBegins`, `TurnTakes`,
`TurnLeaves`), and what it appends is that frame's text from where the message stopped
(`TakenIsText`). The hypothesis `0 \notin Lengths` is that no text is empty: `recv` keeps
a length of 0 for *none*, so an empty text is never returned and the next one comes in
its place. RTT's messages are JSON objects. `WireInOrder` is about `send` alone and needs
no such hypothesis: its part `WireSoFar` ties what is on the wire to what `send` still
has to write. `ImplementsSocket` follows from `ReceiveInStep`, step by step.

**`CppRestProofs`.** `EngineInStep`: that attempts stay within the packet timeouts is
not inductive, because `_retryCount` and the bundle survive a reset, and an ignored
answer starts the count over with the bundle still in progress. `AttemptsCounted`
says what of the count can be left over in a round of attempts, `AttemptsBounded` that
the attempts of a bundle stay within those of its rounds; `ThreadFitsSession` that there is a queue
thread only while the engine is initialised. `ResetIsFinal` follows from the latter.
`CallsAreKept` is about equal sequences: every step moves
the border between what is called back, in progress and queued, and `NextKeepsOrder`
shows with `SelectConcat` and `IdsConcat` that the calls stay the same. That a call is
called back again at most once (`AgainOnlyOnce`) also needs that the calls were made in
the order of their numbers (`MadeInOrder`), so that those of the bundle are behind all
that are answered. What a step
throws away is only a heartbeat or a marker (`IdsOfFew`).

**`WrapperProofs`.** The inductive invariant is `RequestsInStep` (parts `Typed`, `Line`,
`Fits`) with `StoredIdsMatch` and, unless the app logs out meanwhile,
`SessionIsTheOneTold`. The ids on the device cannot be looked at alone: whether they
match depends on the call that is under way and on what the server has answered to it,
which the client has not yet heard. So

* `CallsInLine`: in the order of bundle and queue nothing that could end a session is
  behind an authentication, and no end of a session is behind a marker;
* `MarkersInStep`: as long as the end of a session waits in the queue and a request is in
  the engine, a marker waits in the queue, and an authentication behind it. Without
  this the authentication, which goes to the front of the queue, would overtake the
  logout. The marker is gone as soon as the logout has been taken into a packet;
* `CallFits`: a request has the ids of the device, or the device has none, and its
  callback is that of the last request, not yet called back;
* `AnswersInStep`: what the server has answered is still so: it has seen the pair of ids
  it has let in, and the session is that one;
* `SwitchesInStep`: a deletion is under way only if nobody can sign in as that user.

`StoredIdsStayMatched` also needs `CutExplains`: a profile id without an anonymous id is
what an end inside `clearIds` has left, so that `cut` tells of it when the next
`initializeIdentity` is cut in two as well.

`RequestsStayInStep` and `StoredIdsStayMatched` hold for an app that waits for the
answer of one request before it starts the next (`"authenticate" \notin Overlaps`);
`SessionStaysTheOneTold` also needs that it does not log out under one, and
`DeletesAreOfAnonymous`, an action property, that it attaches no identity under one.
TLC shows that each fails without what it assumes.

Only model-checked: `LoopsAgree` (it needs recursive operators; what it says of the count of
the kill switch is `KillSwitchStep`); and, out of the prover's reach, all liveness properties.

## 5. What is not modelled

Of the packet engine: reward and event callbacks, credentials and signatures, the
arithmetic of timeouts (a retry or a heartbeat may come at any time), status codes
beyond the classes the client tells apart. Of the loader: curl's options and the parsing
of headers. Of the real-time client: the table of event callbacks, endpoint choice and
message contents, the heartbeat clock; the server is taken to confirm a session once and
to send nothing before it is greeted. Of the sockets: URLs, TLS, name resolution. Of the
cpprest engine: warnings, event and reward callbacks. Of the wrapper: password resets,
the authentication type, storage formats.

Components without a module: the facade and the forty service classes, which forward or
queue one call each and keep no state; conversions and tables; the other platforms'
loaders, uploaders and sockets, which are the same interfaces over another library; and
the vendored libraries (cpprest headers, SafeInt, jsoncpp, curl headers, googletest,
libwebsockets), which are third-party code. These last are most of the repository's
lines, so the share of lines that the models map stays low however much of the client's
own logic is modelled; of the classes that keep state and run threads or protocols on
Linux, none is left out.

### Hazards without a property

* `DefaultBrainCloudComms.cpp:308`: a flush while no packet is in progress, and `:608`,
  the retry count that a reply leaves (both under *Other disagreements*); `:420`,
  results of several kinds in one bundle (part of `LoopsAgree`).
* `:707` and `:195`: `_eventCallbackQueue` is under another mutex in reset than
  elsewhere, and a reset from an event callback empties the queue under the loop that
  reads it; event callbacks are not modelled.
* `:774`: three branches of clock arithmetic before a retry; `:138`: a heartbeat
  interval of 0 sends a heartbeat in every idle frame; there are no clocks in the
  models.
* `IBrainCloudComms.cpp:262`: `maxBundleMsgs` of 0 is taken from the server as it is,
  and no bundle is ever made; the models assume a bundle size of at least 1.
* `DefaultBrainCloudComms.cpp:695`, `DefaultWebSocket.cpp:322` and `:354`,
  `CppRestBrainCloudComms.cpp:226`, `cURLLoader.cpp:133`, `BrainCloudWrapper.cpp:251`
  (an identity attached meanwhile): what goes wrong there is certain, and the properties
  name it as an exception or are checked where it is ruled out (*Other disagreements*).
* `RTTComms.cpp:72`, `DefaultWebSocket.cpp:274`, `DefaultTCPSocket.cpp:163`: flags and
  the descriptor are read and written by several threads without a common mutex or an
  atomic type; the models take such a read, and such a write, as a step of its own, not
  as undefined behaviour.
* `RTTComms.cpp:537`: the receive thread looks up `_callbacks` while the app may
  register; `:149`: a callback that changes `_callbackEventQueue` under the loop over
  it.
* `RTTComms.cpp:527`: a second CONNECT reply would start a second heartbeat thread; the
  server is taken to confirm once.
* `cURLFileUploader.cpp:210`: a cancel before the thread has begun (under *Other
  disagreements*).
* `cURLLoader.cpp:76`: the descriptor is closed under the thread that uses it, and its
  number may be another file's by then.
* `BrainCloudWrapper.cpp:315`: a smart switch keeps the app's `const char *` until the
  identities have been answered; `:305`: its callback deletes itself on a warning, and
  the cpprest engine, the only one that warns (`CppRestBrainCloudComms.cpp:543`), calls
  it again with the answer. Warnings are not modelled.

## 6. What could come next

1. `RTT` composed with `WebSocket` in place of its abstract socket.
2. Event and reward callbacks, with the queue mutex; the retry and heartbeat times over
   small clocks.
