-------------------------------- MODULE Socket --------------------------------
(***************************************************************************)
(* What RTTComms relies on in an ISocket, whichever class is behind it:    *)
(* recv returns the messages of the connection whole, at most once each    *)
(* and in order, skips none while the connection is up, and returns the    *)
(* empty string only when it is over or the socket has been closed.        *)
(* Messages are numbered as the server sends them.                         *)
(***************************************************************************)
EXTENDS Naturals

VARIABLES
  arrived,   \* messages the connection has brought so far
  returned,  \* the last message recv has returned
  over,      \* the connection has ended or close() has been called
  gaveUp     \* recv has returned ""

vars == <<arrived, returned, over, gaveUp>>

Init == arrived = 0 /\ returned = 0 /\ over = FALSE /\ gaveUp = FALSE

\* Several messages may come at once.
Arrive ==
  /\ arrived' \in Nat /\ arrived' > arrived
  /\ UNCHANGED <<returned, over, gaveUp>>

Return ==
  /\ ~gaveUp
  /\ returned' \in returned + 1 .. arrived
  /\ over \/ returned' = returned + 1
  /\ UNCHANGED <<arrived, over, gaveUp>>

End == over' = TRUE /\ UNCHANGED <<arrived, returned, gaveUp>>

GiveUp ==
  /\ over
  /\ gaveUp' = TRUE
  /\ UNCHANGED <<arrived, returned, over>>

Next == Arrive \/ Return \/ End \/ GiveUp

Spec == Init /\ [][Next]_vars

=============================================================================
