---------------------------- MODULE CommsLifecycle ----------------------------
(***************************************************************************)
(* The packet engine seen as CallLifecycle: where each call of the app is, *)
(* read off the queues of Comms.                                           *)
(***************************************************************************)
EXTENDS Comms

\* The operations without a callback.
Silent == {"heartbeat", "marker"}

IsIn(c, calls) == \E i \in DOMAIN calls : calls[i].id = c

\* A call is in one place only (PipelineInOrder), so the cases exclude each other.
Status(c) ==
  CASE c > Len(issued)                       -> "new"
    [] IsIn(c, queue)                        -> "queued"
    [] IsIn(c, inProgress)                   -> "sent"
    [] IsIn(c, CallsOf(apiCallbackQueue))    -> "answered"
    [] IsIn(c, CallsOf(finished))            -> "done"
    [] OTHER                                 -> "gone"

Lifecycle == INSTANCE CallLifecycle WITH
  Ids      <- 1 .. MaxCalls,
  status   <- [c \in 1 .. MaxCalls |-> Status(c)],
  silent   <- {c \in DOMAIN issued : issued[c] \in Silent},
  answered <- [i \in DOMAIN apiCallbackQueue |-> apiCallbackQueue[i].call.id],
  held     <- blockingQueue

\* The engine keeps the promises of CallLifecycle: bundles go out one at a time
\* and are settled as a whole, and every call with a callback gets exactly one
\* unless the app itself flushes the bundle held for it or resets the client.
ImplementsCallLifecycle == Lifecycle!Spec

=============================================================================
