---------------------------- MODULE MCCommsThreads ----------------------------
(***************************************************************************)
(* CommsThreads for TLC: the ways to use the engine from several threads   *)
(* that its mutexes allow.                                                 *)
(***************************************************************************)
EXTENDS CommsThreads

\* Either the workers retry and flush and the main thread only makes calls, or
\* the main thread does everything and the workers only make calls.  The app makes
\* calls from networkError() too, whatever it does elsewhere, but retries only later.
SafeDisciplines ==
  { [worker  |-> {"add", "register", "retry", "flush"},
     main    |-> {"add", "register"},
     inError |-> {"add", "register", "flush"}],
    [worker  |-> {"add", "register"},
     main    |-> Calls,
     inError |-> Calls \ {"retry"}] }

=============================================================================
