------------------------------- MODULE MCComms -------------------------------
(***************************************************************************)
(* Comms for model checking: the fairness of the frame loop and the        *)
(* loader, what then happens to every call, and the promises of the        *)
(* documentation that need more than a state of Comms.                     *)
(***************************************************************************)
EXTENDS HandlerLoops, CommsLifecycle

-----------------------------------------------------------------------------
(* Liveness *)

\* The app calls runCallbacks in every frame and the loader has a timeout, so
\* both keep moving; the app is initialized some day; nothing else is owed.
Fairness ==
  /\ WF_vars(RunCallbacks)
  /\ WF_vars(Network)
  /\ WF_vars(Initialize)

FairSpec == Spec /\ Fairness

\* Every call that has a callback is called back in the end, or the queue is
\* blocked for the app to decide, or the app has reset or shut down the client:
\* through heartbeats, markers, retries, session errors and the kill switch.
EveryCallIsSettled ==
  \A c \in 1 .. MaxCalls :
    (c \in DOMAIN issued /\ issued[c] \notin Silent)
      ~> (blockingQueue \/ ~isInitialized \/ Status(c) \in {"done", "gone"})

-----------------------------------------------------------------------------
(* What the documentation promises and the engine does not do *)

\* BrainCloudClient.h, on the network error callback: the app calls
\* retryCachedMessages or flushCachedMessages and the client resumes.  A retry
\* made from the callback itself must leave the packet with a loader.
RetryKeepsPacketAlive ==
  pc = "idle" /\ inProgress # <<>> => loader # "none" \/ retrying \/ blockingQueue

\* BrainCloudClient.h: flushCachedMessages dumps "all messages in the queue".
FlushEmptiesTheQueue ==
  [][\A notify \in BOOLEAN : FlushCachedMessages(notify) => queue' = <<>>]_vars

\* BrainCloudClient.h, setPacketTimeouts: the list of timeouts is the number of
\* times a packet is tried.
EveryAttemptIsMade ==
  [][GiveUp \/ BlockQueue => sends = SendAttempts(inProgress)]_vars

\* createAndSendBundle's comment: the server relies upon the authenticating call
\* being the first message of a bundle, or rejects them all.
AuthenticationIsFirst ==
  \A p \in wire : \A i \in DOMAIN p.calls : p.calls[i].op \in Authenticating => i = 1

=============================================================================
