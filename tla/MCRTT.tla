--------------------------------- MODULE MCRTT ---------------------------------
(***************************************************************************)
(* RTT for TLC: the disciplines, fairness and the liveness properties.     *)
(***************************************************************************)
EXTENDS RTT

\* A patient app in two sessions, with every message of the server.
PatientApp == [app |-> {"again"}, server |-> Messages]

\* An app that disables at any time.
HastyApp == [app |-> {"impatient"}, server |-> Messages]

\* One that does so from its event callback too, on the receive thread; the server never
\* confirms, so that there is only the receive thread to wait for.
CallbackApp == [app |-> {"impatient", "inEventCallback"}, server |-> Messages \ {"confirm"}]

TheDisciplines == {PatientApp, HastyApp, CallbackApp}
OnlyPatient    == {[PatientApp EXCEPT !.app = {}]}

\* Threads run, the app calls runCallbacks every frame and the server answers the
\* request for an endpoint; nobody has to enable, to disable or to send.
Fairness ==
  /\ WF_state(AppRuns)
  /\ \A s \in Sessions : WF_state(ConnRuns(s)) /\ WF_state(RecvRuns(s)) /\ WF_state(BeatRuns(s))

FairSpec == Init /\ [][Next]_vars /\ Fairness

Closing == pc[App] \in ClosePc \cup {"disable"}

\* Two threads hold each the mutex that the other needs.
Crossed == \E t, u \in Threads : t # u /\ WaitsFor(t, u) /\ WaitsFor(u, t)

\* The heartbeat thread was the last to end, and has notified nobody: its flag and its
\* notification came between the check of closeSocket and its wait.
WokenTooEarly ==
  /\ At(App, "waiting") /\ ~receivingRunning /\ ~heartbeatRunning
  /\ \E s \in Sessions : At(Beat(s), "done")

\* The event callback has disabled RTT as well, and the receive thread waits for itself.
WaitsForItself == \E s \in Sessions : pc[Recv(s)] \in ClosePc

\* disableRTT returns, with one thread to wait for or with two, unless it comes to one of
\* these three stops.
DisableReturns == Closing ~> (At(App, "idle") \/ Crossed \/ WokenTooEarly \/ WaitsForItself)

=============================================================================
