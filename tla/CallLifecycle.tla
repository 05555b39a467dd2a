---------------------------- MODULE CallLifecycle ----------------------------
(***************************************************************************)
(* What the packet engine promises about the calls of the app, whatever    *)
(* becomes of packets, retries and replies:                                *)
(*                                                                         *)
(*   - one bundle is outstanding at a time and it is settled as a whole;   *)
(*   - a call with a callback gets exactly one callback, unless the app    *)
(*     gives up the bundle that is held for it (flush) or everything that  *)
(*     is pending (reset);                                                 *)
(*   - only calls without a callback (heartbeats, markers) may disappear   *)
(*     for any other reason;                                               *)
(*   - while a bundle is held for the app, no other goes out;              *)
(*   - a callback is run once the call is answered, and calls are called   *)
(*     back in the order in which they were answered.                      *)
(***************************************************************************)
EXTENDS Integers, Sequences, SequencesExt

CONSTANT Ids   \* the calls that may ever be made, numbered in order

VARIABLES
  status,    \* where each call is
  silent,    \* the calls that have no callback
  answered,  \* the calls whose callbacks are due, in order
  held       \* the outstanding bundle waits for the app's decision

vars == <<status, silent, answered, held>>

Status == {"new", "queued", "sent", "answered", "done", "gone"}
In(s)  == {c \in Ids : status[c] = s}

TypeOK ==
  /\ status \in [Ids -> Status]
  /\ silent \in SUBSET Ids
  /\ answered \in Seq(Ids)
  /\ held \in BOOLEAN

Init ==
  /\ status = [c \in Ids |-> "new"]
  /\ silent = {}
  /\ answered = <<>>
  /\ held = FALSE

\* The status function after the calls of A, B are moved.
Moved(A, a, B, b) ==
  [c \in Ids |-> IF c \in A THEN a ELSE IF c \in B THEN b ELSE status[c]]

Issue(c) ==
  /\ status[c] = "new" /\ \A d \in Ids : d < c => status[d] # "new"
  /\ status' = [status EXCEPT ![c] = "queued"]
  /\ (silent' = silent \/ silent' = silent \cup {c})
  /\ UNCHANGED <<answered, held>>

\* A bundle goes out; entries without callback may be skipped on the way.
Submit(S, skipped) ==
  /\ In("sent") = {}
  /\ status' = Moved(S, "sent", skipped, "gone")
  /\ UNCHANGED <<silent, answered, held>>

\* The outstanding bundle, held or not, or one that never went out, is answered
\* as a whole.
Settle(S, skipped) ==
  /\ S # {} => In("sent") = {}
  /\ LET all == S \cup In("sent")
         due == all \ silent
     IN  /\ status' = Moved(due, "answered", skipped \cup (all \cap silent), "gone")
         /\ \E order \in SetToSeqs(due) : answered' = answered \o order
  /\ held' = FALSE
  /\ UNCHANGED silent

CallBack ==
  /\ answered # <<>>
  /\ status' = [status EXCEPT ![Head(answered)] = "done"]
  /\ answered' = Tail(answered)
  /\ UNCHANGED <<silent, held>>

\* The bundle could not be delivered and is held for the app.
Hold ==
  /\ ~held /\ In("sent") # {}
  /\ held' = TRUE
  /\ UNCHANGED <<status, silent, answered>>

\* The app has the bundle held tried again.
Resume ==
  /\ held
  /\ held' = FALSE
  /\ UNCHANGED <<status, silent, answered>>

\* The app gives up the bundle held.
GiveUpBundle ==
  /\ held
  /\ held' = FALSE
  /\ status' = Moved(In("sent"), "gone", {}, "gone")
  /\ UNCHANGED <<silent, answered>>

\* The app gives up everything pending; callbacks that are due remain due.
Reset ==
  /\ held' = FALSE
  /\ status' = Moved(In("sent") \cup In("queued"), "gone", {}, "gone")
  /\ UNCHANGED <<silent, answered>>

Next ==
  \/ \E c \in Ids : Issue(c)
  \/ \E S \in SUBSET In("queued"), skipped \in SUBSET (In("queued") \cap silent) :
       Submit(S, skipped) \/ Settle(S, skipped)
  \/ CallBack
  \/ Hold \/ Resume \/ GiveUpBundle
  \/ Reset

Spec == Init /\ [][Next]_vars
=============================================================================
