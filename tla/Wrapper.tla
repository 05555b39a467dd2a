-------------------------------- MODULE Wrapper --------------------------------
(***************************************************************************)
(* BrainCloudWrapper: who the user is, over app starts and smart switches. *)
(*                                                                         *)
(* The wrapper keeps an anonymous id and a profile id on the device, hands *)
(* them to the authentication service before it authenticates, and stores  *)
(* the profile id of the answer.  A smart switch asks for the identities   *)
(* of the session, ends it (and deletes a user without identities) and     *)
(* authenticates with a credential.  The packet engine is taken from Comms *)
(* with what matters here: order, bundles, markers, session, loss.  The    *)
(* server is external: what the headers and the tests of the client say    *)
(* of it.                                                                  *)
(***************************************************************************)
EXTENDS Naturals, Sequences, FiniteSets

CONSTANTS
  Credentials,   \* what a user can sign in with
  NoCredential,  \* the credential of an anonymous authentication
  AllowSwitch,   \* values of m_alwaysAllowProfileSwitch the app sets
  AppCalls,      \* subset of {"attach", "logout", "reset", "restart"}
  Overlaps,      \* calls the app makes while an authentication is under way
  MaxRequests,   \* bound: authentications and switches
  MaxAppCalls,   \* bound: the other calls of the app
  MaxAnonymous,  \* bound: anonymous ids generated
  MaxProfiles,   \* bound: profiles created
  MaxBundleSize  \* _maxBundleSize

ASSUME WrapperAssumption ==
  /\ NoCredential \notin Credentials
  /\ AllowSwitch \subseteq BOOLEAN
  /\ AppCalls \subseteq {"attach", "logout", "reset", "restart"}
  /\ Overlaps \subseteq {"authenticate", "attach", "logout"}
  /\ {MaxRequests, MaxAppCalls, MaxAnonymous, MaxProfiles} \subseteq Nat
  /\ MaxBundleSize \in Nat \ {0}

VARIABLES
  stored,         \* on the device: [anonymous, profile]
  service,        \* the authentication service's _anonymousId and _profileId
  callback,       \* m_authenticateCallback: the request it belongs to
  authenticated,  \* the client's isAuthenticated()
  queue,          \* calls waiting in the engine
  bundle,         \* calls of the packet under way
  answers,        \* what the server has answered to them so far
  arrived,        \* the answers are with the client
  session,        \* the server: the profile of the session
  profiles,       \* the server: profiles that exist
  devices,        \* the server: pairs of an anonymous id and a profile it has used
  identities,     \* the server: the profile of each credential
  requests,       \* history: authentications and switches of the app
  told,           \* history: the requests called back, in order
  current,        \* the profile the app has been told it is, None after it left
  generated,      \* history: anonymous ids generated
  created,        \* history: profiles created
  appCalls,       \* history: other calls of the app
  forgotten,      \* history: the last request before the app reset the client or ended
  cut             \* history: the pairs of writes to the device that the end of the app has
                  \*   cut in two since both ids, or the profile id, were last written

device  == <<stored, service, callback, cut>>
engine  == <<authenticated, queue, bundle, answers, arrived>>
server  == <<session, profiles, devices, identities, created>>
app     == <<requests, told, current, appCalls, forgotten>>
vars    == <<device, engine, server, app, generated>>

None    == 0
Nobody  == 0                \* a call without a callback
Itself  == MaxRequests + 1  \* a call the wrapper is the callback of

Ids     == [anonymous : 0 .. MaxAnonymous, profile : 0 .. MaxProfiles]
Request(op, to, credential, ids) == [op |-> op, to |-> to, credential |-> credential, ids |-> ids]
Plain(op)   == Request(op, Nobody, NoCredential, [anonymous |-> None, profile |-> None])
Marker      == Plain("marker")
Answer(result, profile) == [result |-> result, profile |-> profile]

Call == [op : {"authenticate", "identities", "attach", "logout", "delete", "marker"},
         to : 0 .. Itself, credential : Credentials \cup {NoCredential}, ids : Ids]

Results == {"ok", "anonymous", "error", "noSession", "timeout"}

TypeOK ==
  /\ stored \in Ids /\ service \in Ids
  /\ requests \in 0 .. MaxRequests /\ appCalls \in 0 .. MaxAppCalls
  /\ generated \in 0 .. MaxAnonymous /\ created \in 0 .. MaxProfiles
  /\ callback \in 0 .. requests
  /\ authenticated \in BOOLEAN /\ arrived \in BOOLEAN
  /\ queue \in Seq(Call) /\ bundle \in Seq(Call) /\ Len(bundle) <= MaxBundleSize
  /\ answers \in Seq([result : Results, profile : 0 .. created]) /\ Len(answers) <= Len(bundle)
  /\ profiles \subseteq 1 .. created
  /\ session \in profiles \cup {None}
  /\ devices \subseteq (1 .. generated) \X profiles
  /\ identities \in [Credentials -> profiles \cup {None}]
  /\ told \in Seq(1 .. requests)
  /\ current \in 0 .. created
  /\ forgotten \in 0 .. requests
  /\ cut \subseteq {"initializeIdentity", "clearIds"}

NoIds == [anonymous |-> None, profile |-> None]

Init ==
  /\ stored = NoIds /\ service = NoIds /\ callback = Nobody
  /\ authenticated = FALSE /\ queue = <<>> /\ bundle = <<>> /\ answers = <<>> /\ arrived = FALSE
  /\ session = None /\ profiles = {} /\ devices = {} /\ created = 0
  /\ identities = [c \in Credentials |-> None]
  /\ requests = 0 /\ told = <<>> /\ current = None /\ appCalls = 0 /\ generated = 0
  /\ forgotten = 0 /\ cut = {}

-----------------------------------------------------------------------------
(* The app, and what it calls in the wrapper *)

\* Calls a patient app waits for before it goes on.
UnderWay(call) == call.op \in {"authenticate", "identities", "logout", "delete"}
Busy ==
  \/ \E i \in DOMAIN queue : UnderWay(queue[i])
  \/ \E i \in DOMAIN bundle : UnderWay(bundle[i])

MayRequest ==
  /\ requests < MaxRequests
  /\ Busy => "authenticate" \in Overlaps

\* Mutant: an anonymous id is kept as long as there is one.
OnlyWithoutId == stored.anonymous = None

\* initializeIdentity creates a new anonymous id unless both ids are there.
NeedsNewIds == stored.anonymous = None \/ stored.profile = None

InitializeIdentity(anonymously) ==
  /\ IF NeedsNewIds
     THEN /\ generated < MaxAnonymous
          /\ generated' = generated + 1
          /\ stored' = [anonymous |-> generated', profile |-> None]
          /\ cut' = {}
     ELSE UNCHANGED <<generated, stored, cut>>
  /\ \E allow \in AllowSwitch :
       service' = IF ~anonymously /\ allow THEN [stored' EXCEPT !.profile = None] ELSE stored'

\* authenticateAnonymous (also reconnect) and the other authenticate methods.
Authenticate(credential) ==
  /\ MayRequest
  /\ requests' = requests + 1
  /\ callback' = requests'
  /\ current' = None
  /\ InitializeIdentity(credential = NoCredential)
  /\ queue' = Append(queue, Request("authenticate", Itself, credential, service'))
  /\ UNCHANGED <<authenticated, bundle, answers, arrived, server, told, appCalls, forgotten>>

\* Mutant: the profile id stays on the device.
ForgetAnonymous ==
  /\ stored' = [stored EXCEPT !.anonymous = None]
  /\ service' = [service EXCEPT !.profile = None]
  /\ cut' = {}

\* clearIds: the anonymous id of the service stays.
ClearIds ==
  /\ stored' = NoIds
  /\ service' = [service EXCEPT !.profile = None]
  /\ cut' = {}

\* Mutant: the wrapper is made the callback, as in an authentication.
ThroughTheWrapper(request, credential, calls) ==
  /\ ClearIds
  /\ queue' = Append(calls, Request("authenticate", Itself, credential, service'))

\* The callback of the smart switches: the app's own callback gets the answer.
SwitchTo(request, credential, calls) ==
  /\ ClearIds
  /\ queue' = calls \o <<Request("authenticate", request, credential, service')>>

\* The smart switches.
SmartSwitch(credential) ==
  /\ MayRequest
  /\ requests' = requests + 1
  /\ current' = None
  /\ IF authenticated
     THEN /\ queue' = Append(queue, Request("identities", requests', credential, NoIds))
          /\ UNCHANGED <<stored, service, cut>>
     ELSE SwitchTo(requests', credential, queue)
  /\ UNCHANGED <<callback, authenticated, bundle, answers, arrived, server, told, appCalls,
                 forgotten, generated>>

\* Other calls of the app: attach an identity, log out.
MayCall(op) ==
  /\ op \in AppCalls
  /\ appCalls < MaxAppCalls
  /\ appCalls' = appCalls + 1

Attach(credential) ==
  /\ MayCall("attach")
  /\ Busy => "attach" \in Overlaps
  /\ queue' = Append(queue, Request("attach", Nobody, credential, NoIds))
  /\ UNCHANGED <<device, authenticated, bundle, answers, arrived, server, requests, told,
                 current, forgotten, generated>>

Logout ==
  /\ MayCall("logout")
  /\ Busy => "logout" \in Overlaps
  /\ current' = None
  /\ queue' = Append(queue, Plain("logout"))
  /\ UNCHANGED <<device, authenticated, bundle, answers, arrived, server, requests, told,
                 forgotten, generated>>

ForgetCalls ==
  /\ authenticated' = FALSE
  /\ queue' = <<>> /\ bundle' = <<>> /\ answers' = <<>> /\ arrived' = FALSE
  /\ current' = None
  /\ forgotten' = requests

\* resetCommunication drops the calls; the ids stay.
Reset ==
  /\ MayCall("reset")
  /\ ForgetCalls
  /\ UNCHANGED <<device, server, requests, told, generated>>

\* The app ends, in good order or not, and is started again.
StartAgain ==
  /\ MayCall("restart")
  /\ ForgetCalls
  /\ service' = NoIds /\ callback' = Nobody
  /\ UNCHANGED <<server, requests, told>>

Restart == StartAgain /\ UNCHANGED <<stored, cut, generated>>

\* initializeIdentity up to the first of its two writes to the device ...
HalfInitialize ==
  /\ MayRequest /\ NeedsNewIds
  /\ generated < MaxAnonymous
  /\ generated' = generated + 1
  /\ stored' = [stored EXCEPT !.anonymous = generated']
  /\ cut' = cut \cup {"initializeIdentity"}

\* ... and clearIds, which a switch calls at once or with the identities.
HalfClear ==
  /\ \/ MayRequest /\ ~authenticated
     \/ /\ arrived /\ bundle # <<>>
        /\ bundle[1].op = "identities" /\ answers[1].result \in {"ok", "anonymous"}
  /\ stored' = [stored EXCEPT !.anonymous = None]
  /\ cut' = {"clearIds"}
  /\ UNCHANGED generated

\* The app ends between the two.
EndHalfway == StartAgain /\ (HalfInitialize \/ HalfClear)

AppRuns ==
  \/ \E c \in Credentials \cup {NoCredential} : Authenticate(c)
  \/ \E c \in Credentials : SmartSwitch(c) \/ Attach(c)
  \/ Logout \/ Reset \/ Restart \/ EndHalfway

-----------------------------------------------------------------------------
(* The engine: createAndSendBundle *)

Markers  == {i \in DOMAIN queue : queue[i].op = "marker"}
AuthBeforeMarkers ==
  {i \in DOMAIN queue : /\ queue[i].op = "authenticate"
                        /\ \A j \in Markers : i < j}

First(s) == CHOOSE i \in s : \A j \in s : i <= j

\* The calls the engine takes, and where it stops: an authenticating call goes ahead
\* of what was queued before it, and alone, but never past a marker; other calls go
\* up to the first marker behind one of them, which is tossed.
Start == First((1 .. Len(queue) + 1) \ Markers)
Stop  == LET ends == {i \in Markers : i > Start} \cup {Start + MaxBundleSize, Len(queue) + 1}
         IN  First(ends)
Rest  == IF Stop \in Markers /\ Stop < Start + MaxBundleSize THEN Stop + 1 ELSE Stop

TakeBundle ==
  /\ bundle = <<>> /\ queue # <<>>
  /\ IF AuthBeforeMarkers # {} /\ Len(queue) > 1
     THEN LET a == First(AuthBeforeMarkers)
          IN  /\ bundle' = <<queue[a]>>
              /\ queue' = SubSeq(queue, 1, a - 1) \o SubSeq(queue, a + 1, Len(queue))
     ELSE /\ bundle' = SubSeq(queue, Start, Stop - 1)
          /\ queue' = SubSeq(queue, Rest, Len(queue))
  /\ LET refused == ~authenticated /\ \A i \in DOMAIN bundle' : bundle'[i].op # "authenticate"
     IN  /\ arrived' = refused
         /\ answers' = IF refused THEN [i \in DOMAIN bundle' |-> Answer("noSession", None)] ELSE <<>>
  /\ UNCHANGED <<device, authenticated, server, app, generated>>

-----------------------------------------------------------------------------
(* The server and the network *)

Next1 == bundle[Len(answers) + 1]
Answers(result, profile) == answers' = Append(answers, Answer(result, profile))

Refuse ==
  /\ Answers(IF session = None /\ Next1.op # "authenticate" THEN "noSession" ELSE "error", None)
  /\ UNCHANGED server

\* A session for a profile that exists or is made now.
Enter(profile) ==
  /\ session' = profile
  /\ profiles' = profiles \cup {profile}
  /\ created' = IF profile > created THEN profile ELSE created
  /\ created' <= MaxProfiles
  /\ devices' = devices \cup ({Next1.ids.anonymous} \ {None}) \X {profile}
  /\ Answers("ok", profile)

NewProfile == created + 1

\* Anonymously: a device the server has not seen gets a new profile; with a profile
\* id, the device must have used that profile.
EnterAnonymously ==
  LET ids == Next1.ids
  IN  /\ Next1.credential = NoCredential
      /\ \/ /\ ids.profile = None
            /\ \A d \in devices : d[1] # ids.anonymous
            /\ Enter(NewProfile)
         \/ <<ids.anonymous, ids.profile>> \in devices /\ Enter(ids.profile)
      /\ UNCHANGED identities

\* With a credential: a profile id that is given must be the credential's.
EnterWith(credential) ==
  LET known == identities[credential]
  IN  /\ Next1.credential = credential
      /\ \/ /\ known # None /\ Next1.ids.profile \in {None, known}
            /\ Enter(known)
            /\ UNCHANGED identities
         \/ /\ known = None /\ Next1.ids.profile = None
            /\ Enter(NewProfile)
            /\ identities' = [identities EXCEPT ![credential] = NewProfile]

Serve ==
  /\ ~arrived /\ Len(answers) < Len(bundle)
  /\ \/ /\ Next1.op = "authenticate"
        /\ EnterAnonymously \/ \E c \in Credentials : EnterWith(c)
     \/ /\ session # None
        /\ CASE Next1.op = "identities" ->
                  /\ Answers(IF \E c \in Credentials : identities[c] = session
                             THEN "ok" ELSE "anonymous", None)
                  /\ UNCHANGED server
             [] Next1.op = "attach" ->
                  /\ identities[Next1.credential] = None
                  /\ identities' = [identities EXCEPT ![Next1.credential] = session]
                  /\ Answers("ok", None)
                  /\ UNCHANGED <<session, profiles, devices, created>>
             [] Next1.op = "logout" ->
                  /\ session' = None
                  /\ Answers("ok", None)
                  /\ UNCHANGED <<profiles, devices, identities, created>>
             [] Next1.op = "delete" ->
                  /\ session' = None
                  /\ profiles' = profiles \ {session}
                  /\ devices' = {d \in devices : d[2] # session}
                  /\ identities' = [c \in Credentials |->
                                      IF identities[c] = session THEN None ELSE identities[c]]
                  /\ Answers("ok", None)
                  /\ UNCHANGED created
             [] OTHER -> FALSE
     \/ Refuse
  /\ UNCHANGED <<device, authenticated, queue, bundle, arrived, app, generated>>

Arrive ==
  /\ ~arrived /\ bundle # <<>>
  /\ Len(answers) = Len(bundle)
  /\ arrived' = TRUE
  /\ UNCHANGED <<device, authenticated, queue, bundle, answers, server, app, generated>>

\* The packet or its answer is lost, all attempts of it: what the server has done by
\* then stays done.
Lose ==
  /\ ~arrived /\ bundle # <<>>
  /\ arrived' = TRUE
  /\ answers' = [i \in DOMAIN bundle |-> Answer("timeout", None)]
  /\ UNCHANGED <<device, authenticated, queue, bundle, server, app, generated>>

-----------------------------------------------------------------------------
(* The client: the answer to the first call of the bundle *)

CallBack(request, profile) ==
  /\ told' = IF request = Nobody THEN told ELSE Append(told, request)
  /\ current' = profile

\* filterIncomingMessages, then the wrapper or the app itself.
Authenticated(call, answer) ==
  /\ call.op = "authenticate" /\ answer.result = "ok"
  /\ authenticated' = TRUE
  /\ service' = [service EXCEPT !.profile = answer.profile]
  /\ IF call.to = Itself
     THEN /\ stored' = [stored EXCEPT !.profile = answer.profile]
          /\ cut' = {}
          /\ CallBack(callback, answer.profile)
     ELSE UNCHANGED <<stored, cut>> /\ CallBack(call.to, answer.profile)
  /\ UNCHANGED queue

\* Mutant: an error of the question for the identities is not passed on.
KeptToItself(call, answer) ==
  /\ call.op \in {"authenticate", "identities"} /\ answer.result \notin {"ok", "anonymous"}
  /\ authenticated' = (authenticated /\ answer.result # "noSession")
  /\ CallBack(IF call.to = Itself THEN callback ELSE Nobody, None)
  /\ UNCHANGED <<stored, cut, service, queue>>

NotAuthenticated(call, answer) ==
  /\ call.op \in {"authenticate", "identities"} /\ answer.result \notin {"ok", "anonymous"}
  /\ authenticated' = (authenticated /\ answer.result # "noSession")
  /\ CallBack(IF call.to = Itself THEN callback ELSE call.to, None)
  /\ UNCHANGED <<stored, cut, service, queue>>

\* Mutant: the session is ended the other way.
LeaveBlindly(answer)   == <<Plain("delete"), Marker>>

\* IdentityCallback: how the session is left.
Leave(answer) ==
  <<Plain(IF answer.result = "anonymous" THEN "delete" ELSE "logout"), Marker>>

Identified(call, answer) ==
  /\ call.op = "identities" /\ answer.result \in {"ok", "anonymous"}
  /\ SwitchTo(call.to, call.credential, queue \o Leave(answer))
  /\ UNCHANGED <<authenticated, told, current>>

\* A session that has ended is forgotten, also if the logout got no answer.
Left(call, answer) ==
  /\ call.op \in {"logout", "delete", "attach"}
  /\ LET left == \/ call.op # "attach" /\ answer.result = "ok"
                 \/ call.op = "logout" /\ answer.result = "timeout"
     IN  /\ authenticated' = (authenticated /\ ~left /\ answer.result # "noSession")
         /\ service' = IF call.op # "attach" /\ answer.result = "ok"
                       THEN [service EXCEPT !.profile = None] ELSE service
  /\ UNCHANGED <<stored, cut, queue, told, current>>

HandleAnswer ==
  /\ arrived /\ bundle # <<>>
  /\ \/ Authenticated(bundle[1], answers[1])
     \/ NotAuthenticated(bundle[1], answers[1])
     \/ Identified(bundle[1], answers[1])
     \/ Left(bundle[1], answers[1])
  /\ bundle' = Tail(bundle) /\ answers' = Tail(answers)
  /\ arrived' = (Len(bundle) > 1)
  /\ UNCHANGED <<callback, server, requests, appCalls, forgotten, generated>>

-----------------------------------------------------------------------------

Next == AppRuns \/ TakeBundle \/ Serve \/ Arrive \/ Lose \/ HandleAnswer

Spec == Init /\ [][Next]_vars

\* The engine sends, and an answer or a timeout comes, and is handled; the app is free.
FairSpec == Spec /\ WF_vars(TakeBundle) /\ WF_vars(Serve \/ Arrive \/ Lose) /\ WF_vars(HandleAnswer)

-----------------------------------------------------------------------------
(* Properties *)

\* The two ids on the device lead back to a profile, or are given up, whatever was lost
\* and wherever the app has ended: the server does not turn the next anonymous
\* authentication away.  Only two ends in turn, the first between the writes of clearIds
\* and the second between those of the next initializeIdentity, leave a new anonymous id
\* with an old profile id.
StoredIdsMatch ==
  \/ NeedsNewIds
  \/ IF stored.profile = None THEN \A d \in devices : d[1] # stored.anonymous
                             ELSE <<stored.anonymous, stored.profile>> \in devices
  \/ cut = {"clearIds", "initializeIdentity"}

\* A profile id without an anonymous id is what a cut clearIds leaves.
CutExplains == stored.anonymous = None /\ stored.profile # None => "clearIds" \in cut

\* Once the app has been told who it is, the server and the client agree with it, the
\* logout of the session before cannot end the new one, and the device remembers nobody
\* else.
SessionIsTheOneTold ==
  current # None => /\ authenticated /\ session = current /\ service.profile = current
                    /\ stored.profile \in {None, current}

\* Every request is called back at most once.
ToldOnce == \A i, j \in DOMAIN told : told[i] = told[j] => i = j

\* The calls of the engine, in the order in which the server gets them.  An authentication
\* or a question for identities is the only one of its kind, and neither a marker nor the
\* end of a session is behind it; the end of a session is never behind a marker.
IsRequest(call)   == call.op \in {"authenticate", "identities"}
EndsSession(call) == call.op = "delete" \/ (call.op = "logout" /\ "logout" \notin Overlaps)
MayPrecede(c, d) ==
  /\ IsRequest(c) => d.op \in {"attach", "logout"} /\ ~EndsSession(d)
  /\ c.op = "marker" => d.op # "marker" /\ ~EndsSession(d)
  /\ "attach" \notin Overlaps => /\ c.op \in {"identities", "delete"} => d.op # "attach"
                                 /\ d.op = "delete" => c.op # "attach"

Items(s)      == {s[i] : i \in DOMAIN s}
InLine(s)     == \A i, j \in DOMAIN s : i < j => MayPrecede(s[i], s[j])
AheadOf(s, t) == \A c \in Items(s), d \in Items(t) : MayPrecede(c, d)
CallsInLine   == InLine(bundle) /\ InLine(queue) /\ AheadOf(bundle, queue)

\* As long as the end of a session waits in the queue and a request is in the engine, a
\* marker waits in the queue, and an authentication behind it.
EngineCalls   == Items(bundle) \cup Items(queue)
MarkerWaits   == \E c \in Items(queue) : c.op = "marker"
MarkersInStep ==
  /\ \A c \in Items(bundle) : c.op # "marker"
  /\ MarkerWaits => \E c \in Items(queue) : c.op = "authenticate"
  /\ (\E c \in Items(queue), d \in EngineCalls : EndsSession(c) /\ IsRequest(d)) => MarkerWaits

\* Whose callback the answer goes to, and what the device remembers meanwhile.
Owner(call)    == IF call.to = Itself THEN callback ELSE call.to
CallFits(call) ==
  /\ call.ids.anonymous <= generated
  /\ IsRequest(call) => Owner(call) = requests /\ \A i \in DOMAIN told : told[i] # requests
  /\ call.op = "authenticate" =>
       IF call.to = Itself THEN call.ids.anonymous = stored.anonymous /\ stored.anonymous # None
                           ELSE stored = NoIds
  /\ call.op = "identities" => call.to # Itself
  /\ call.op = "delete" => stored = NoIds

\* What the server has answered is still so when the client hears of it.
IsAnonymous   == \A c \in Credentials : identities[c] # None => identities[c] # session
Entered(i)    ==
  LET ids == bundle[i].ids  profile == answers[i].profile
  IN  /\ ids.anonymous # None => <<ids.anonymous, profile>> \in devices
      /\ "logout" \notin Overlaps =>
           /\ session = profile /\ profile # None
           /\ \A k \in DOMAIN answers : k > i => answers[k].result # "noSession"
AnswersInStep ==
  /\ arrived => Len(answers) = Len(bundle)
  /\ \A i \in DOMAIN answers :
       /\ bundle[i].op = "authenticate" /\ answers[i].result = "ok" => Entered(i)
       /\ bundle[i].op = "identities" /\ answers[i].result = "anonymous" =>
            ("attach" \notin Overlaps => IsAnonymous)

\* A user is to be deleted only if there was nothing to sign in with, and is told of only
\* while nothing is under way that could end the session.
ToBeDeleted == {i \in DOMAIN bundle : i > Len(answers) /\ bundle[i].op = "delete"} # {}
               \/ \E c \in Items(queue) : c.op = "delete"
SwitchesInStep ==
  /\ ToBeDeleted => ("attach" \notin Overlaps => IsAnonymous)
  /\ current # None /\ "logout" \notin Overlaps =>
       ~Busy /\ \A k \in DOMAIN answers : answers[k].result # "noSession"

IdsGenerated == stored.anonymous <= generated /\ service.anonymous <= generated

RequestsInStep ==
  /\ TypeOK /\ ToldOnce /\ IdsGenerated /\ CutExplains
  /\ CallsInLine /\ MarkersInStep /\ (\A c \in EngineCalls : CallFits(c))
  /\ AnswersInStep /\ SwitchesInStep

\* The smart switch's header: it deletes the profile of an anonymous account.  A user
\* who can sign in with a credential is never deleted.
DeletesOnlyAnonymous ==
  [][\A p \in profiles \ profiles' : \A c \in Credentials : identities[c] # p]_vars

\* Every request is called back, unless the app has reset the client or ended since.
Told(r) == \E i \in DOMAIN told : told[i] = r
EveryRequestTold ==
  \A r \in 1 .. MaxRequests :
    (requests = r) ~> (Told(r) \/ forgotten >= r)

\* reconnect "re-authenticates the user": the ids on the device are those of the
\* session the app has been told of.
ReconnectFindsUser == current # None => stored.profile = current

=============================================================================
