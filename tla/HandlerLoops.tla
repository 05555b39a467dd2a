----------------------------- MODULE HandlerLoops -----------------------------
(***************************************************************************)
(* The loops of createAndSendBundle and handleResponseBundle, statement by *)
(* statement.  Comms says what they compute with sets of positions; TLC    *)
(* compares the two for every bundle that is made.                         *)
(***************************************************************************)
EXTENDS Comms

-----------------------------------------------------------------------------
(* createAndSendBundle *)

\* The first loop: where it finds an authenticating call, 0 if it does not.
RECURSIVE FindAuth(_, _)
FindAuth(q, i) ==
  IF i > Len(q) \/ q[i].op = "marker" THEN 0
  ELSE IF q[i].op \in Authenticating THEN i ELSE FindAuth(q, i + 1)

\* erase(it), insert(begin(), call)
MoveToFront(q, i) ==
  <<q[i]>> \o [j \in 1 .. Len(q) - 1 |-> IF j < i THEN q[j] ELSE q[j + 1]]

\* The second loop, from the queue q with taken in progress.
RECURSIVE Take(_, _, _)
Take(q, taken, authFound) ==
  IF q = <<>> \/ Len(taken) >= MaxBundleSize THEN [rest |-> q, taken |-> taken]
  ELSE IF Head(q).op = "marker"
  THEN IF taken = <<>> THEN Take(Tail(q), taken, authFound)
                       ELSE [rest |-> Tail(q), taken |-> taken]
  ELSE IF Head(q).op = "heartbeat" /\ (Len(q) > 1 \/ taken # <<>>)
  THEN Take(Tail(q), taken, authFound)
  ELSE IF authFound THEN [rest |-> Tail(q), taken |-> Append(taken, Head(q))]
  ELSE Take(Tail(q), Append(taken, Head(q)), authFound)

TakenFromQueue ==
  LET found == IF Len(queue) > 1 THEN FindAuth(queue, 1) ELSE 0
  IN  Take(IF found = 0 THEN queue ELSE MoveToFront(queue, found), inProgress, found # 0)

\* The bundle and what stays on the queue are what the loops of createAndSendBundle
\* leave in _inProgress and _queue, for every mix of calls, heartbeats, markers and
\* authenticating calls.
BundleIsWhatTheLoopTakes ==
  /\ inProgress \o Bundle = TakenFromQueue.taken
  /\ Rest = TakenFromQueue.rest

-----------------------------------------------------------------------------
(* handleResponseBundle *)

Session == [authenticated |-> isAuthenticated, cache |-> errorCache, switch |-> killSwitch]

\* updateKillSwitch
SwitchOnError(switch, op, result) ==
  LET first == switch.op = NoOp
      count == IF first \/ switch.op = op THEN switch.count + 1 ELSE switch.count
  IN  IF ~Counted(result) THEN switch
      ELSE [op |-> IF first THEN op ELSE switch.op, count |-> count,
            engaged |-> switch.engaged \/ count >= KillSwitchThreshold]

\* One turn of the loop: a call and its result.
OneReply(s, op, result) ==
  IF result = "ok"
  THEN [authenticated |-> \/ op = "authenticate"
                          \/ s.authenticated /\ op \notin EndingSession,
        cache  |-> IF op = "authenticate" THEN "nosession" ELSE s.cache,
        switch |-> [s.switch EXCEPT !.op = NoOp, !.count = 0]]
  ELSE [authenticated |-> /\ s.authenticated
                          /\ result \notin SessionErrors
                          /\ ~(op = "logout" /\ result = "timeout"),
        cache  |-> IF result \in SessionErrors THEN result ELSE s.cache,
        switch |-> SwitchOnError(s.switch, op, result)]

RECURSIVE AfterReplies(_, _, _)
AfterReplies(calls, results, n) ==
  IF n = 0 THEN Session
  ELSE OneReply(AfterReplies(calls, results, n - 1), calls[n].op, results[n])

\* What is left of the session, the error cache and the kill switch is what the
\* loop of handleResponseBundle leaves, for every list of results to the calls of the
\* bundle that is next.
SessionIsWhatTheLoopLeaves ==
  LET calls == inProgress \o Bundle
  IN  \A results \in [DOMAIN calls -> {"ok", "error", "timeout", "session"}] :
        LET replies == [i \in DOMAIN calls |-> [to |-> calls[i].id, result |-> results[i]]]
        IN  [authenticated |-> SessionAfter(calls, replies),
             cache         |-> ErrorCacheAfter(calls, replies),
             switch        |-> KillSwitchAfter(calls, replies)]
            = AfterReplies(calls, results, Len(calls))

\* Whenever a bundle is made, Comms takes what the loop takes, and makes of the replies
\* to it what the loop makes of them.
LoopsAgree == CreatesBundle => BundleIsWhatTheLoopTakes /\ SessionIsWhatTheLoopLeaves

=============================================================================
